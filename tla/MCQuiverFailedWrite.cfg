SPECIFICATION Spec
CONSTANTS
  RotationTarget = 1
  MaxRotatedFiles = 1
  Subscribers = {s1}
  MaxInFlight = 1
  MaxBundles = 2
  MaxEvents = 3
  MaxCrashes = 0
  MaxFailures = 1
  CrashMidRotation = FALSE
  CrashPartlyPurged = FALSE
  SegmentWriteMayFail = TRUE
INVARIANT TruncationSafe
CHECK_DEADLOCK FALSE
