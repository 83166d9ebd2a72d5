CONSTANTS
  BurstLimit = 2
  Slots = {w1}
  WakeupCap = 1
  ResumeCap = 2
  PDataCap = 1
  MaxControls = 2
SPECIFICATION Spec
INVARIANTS
  ResumesBeforeShutdown
CHECK_DEADLOCK FALSE
