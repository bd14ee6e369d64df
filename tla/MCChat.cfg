SPECIFICATION ChattySpec
CONSTANTS
  Players = {p1, p2}
  ChatWindowMs = 3
  ChatMaxInWindow = 2
INVARIANTS
  FloodBounded
  ClosedOnlyToFloods
PROPERTIES
  KeepsBeingHeard
