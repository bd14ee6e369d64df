SPECIFICATION FairSpec
CONSTANTS
  Identities = {"online", "badKey", "offline", "invalid"}
  Repeats = 1
PROPERTIES
  RadiusAnswered
CHECK_DEADLOCK FALSE
