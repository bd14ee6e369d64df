SPECIFICATION FairSpec
CONSTANTS
  Identities = {"online", "badKey", "offline", "invalid"}
  Repeats = 1
INVARIANTS
  TypeOK
  CodecsAgree
  JoinOrder
PROPERTIES
  ReachesSpawn
CHECK_DEADLOCK FALSE
