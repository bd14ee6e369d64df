SPECIFICATION FairSpec
CONSTANTS
  Kinds <- MCKinds
  SplitIds = 4
  MaxMessages = 2
  MaxDatagrams = 4
INVARIANTS
  TypeOK
  BuffersOfOneMessage
  AckedIsKept
PROPERTIES
  ImplementsOrdering
  EveryMessageHandled
CHECK_DEADLOCK FALSE
