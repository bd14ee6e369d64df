SPECIFICATION FairSpec
CONSTANTS
  Sizes = {2, 3}
  Mtu = 5
  FrameOverhead = 3
  SmallMtuBudget = 2
  MaxBatches = 2
  MaxRequests = 1
  MaxLosses = 1
INVARIANTS
  TypeOK
  LossRepairable
PROPERTIES
  ImplementsChannel
  EveryBatchDelivered
CHECK_DEADLOCK FALSE
