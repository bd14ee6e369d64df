SPECIFICATION FairSpec
CONSTANTS
  Identities = {"online", "badKey", "offline", "invalid"}
  Repeats = 1
INVARIANTS
  LoginSuccessFirst
CHECK_DEADLOCK FALSE
