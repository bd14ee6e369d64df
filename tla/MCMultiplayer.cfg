SPECIFICATION Spec
CONSTANTS
  Players = {p1, p2, p3}
  Uuids = {zero, u1}
  Positions <- MCPositions
  Spawn = 0
  Epsilon = 1
  Interval = 3
  Phase2Enabled = TRUE
  Active = {p1}
  MaxSessions = 4
INVARIANTS
  TypeOK
  PictureMatches
  NeverConfused
  PlayerListMatches
  PositionsFollow
CHECK_DEADLOCK FALSE
