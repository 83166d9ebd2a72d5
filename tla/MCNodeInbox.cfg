CONSTANTS
  BurstLimit = 2
  Slots = {w1, w2}
  WakeupCap = 1
  ResumeCap = 2
  PDataCap = 1
  MaxControls = 3
SPECIFICATION FairSpec
INVARIANTS
  TypeOK
  NoPDataAbandoned
  ControlBurstBounded
PROPERTIES
  ShutdownReleased
CHECK_DEADLOCK FALSE
