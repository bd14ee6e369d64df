SPECIFICATION FairSpec
CONSTANTS
  Addresses = {a}
  IndexSpace = 3
  MaxConnects = 2
  MaxSent = 2
  MaxCrashes = 1
PROPERTIES
  EveryClientServed
CHECK_DEADLOCK FALSE
