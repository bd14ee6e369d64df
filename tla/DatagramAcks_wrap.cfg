SPECIFICATION Spec
CONSTANTS
  SeqSpace = 8
  Kept = 2
  NackLimit = 4
  Lag = 2
  Ahead = 2
  MaxSent = 12
INVARIANTS
  NacksOnlyMissing
CHECK_DEADLOCK FALSE
