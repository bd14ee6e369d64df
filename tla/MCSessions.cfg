SPECIFICATION FairSpec
CONSTANTS
  Addresses = {a, b}
  IndexSpace = 3
  MaxConnects = 3
  MaxSent = 2
  MaxCrashes = 1
INVARIANTS
  TypeOK
  IdentifiersUnique
  OwnFramesInOrder
PROPERTIES
  ServedAfterClose
CHECK_DEADLOCK FALSE
