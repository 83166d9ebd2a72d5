CONSTANTS
  Producers = {p1, p2, p3}
  Capacity = 2
  MaxWaits = 3
  NoWaker = NoWaker
SPECIFICATION FairSpec
INVARIANTS
  TypeOK
  CapacityRespected
  NoStrandedWaiter
  WaiterTableSound
  NoLostReceiverWake
PROPERTIES
  FifoGrants
  BlockedSendResolves
CHECK_DEADLOCK FALSE
