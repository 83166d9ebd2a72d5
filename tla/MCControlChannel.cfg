CONSTANTS
  Senders = {s1, s2}
  Capacity = 2
  BatchMax = 2
  BurstLimit = 3
SPECIFICATION FairSpec
INVARIANTS
  TypeOK
  NormalControlFair
  LifecycleOrder
  NoSenderSleepsThroughClose
  NoLostReceiverWake
PROPERTIES
  ShutdownDelivered
CHECK_DEADLOCK FALSE
