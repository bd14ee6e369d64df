SPECIFICATION FairSpec
CONSTANTS
  Ordinary = {p}
  Malformed = {bad}
  Closing = {bye}
  IndexSpace = 8
  Window = 3
  MaxSent = 3
PROPERTIES
  EveryIndexPassed
CHECK_DEADLOCK FALSE
