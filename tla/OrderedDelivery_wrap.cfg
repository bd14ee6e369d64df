SPECIFICATION FairSpec
CONSTANTS
  Ordinary = {p, q}
  Malformed = {}
  Closing = {}
  IndexSpace = 4
  Window = 2
  MaxSent = 5
PROPERTIES
  EveryIndexPassed
CHECK_DEADLOCK FALSE
