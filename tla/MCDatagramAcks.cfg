SPECIFICATION Spec
CONSTANTS
  SeqSpace = 16
  Kept = 3
  NackLimit = 6
  Lag = 3
  Ahead = 3
  MaxSent = 8
INVARIANTS
  TypeOK
  NacksOnlyMissing
  GapsReported
  ForgetsOnlyTheOld
CHECK_DEADLOCK FALSE
