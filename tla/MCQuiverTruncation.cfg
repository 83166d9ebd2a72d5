SPECIFICATION Spec
CONSTANTS
  RotationTarget = 1
  MaxRotatedFiles = 2
  Subscribers = {s1}
  MaxInFlight = 1
  MaxBundles = 5
  MaxEvents = 6
  MaxCrashes = 1
  MaxFailures = 0
  CrashMidRotation = FALSE
  CrashPartlyPurged = TRUE
  SegmentWriteMayFail = FALSE
INVARIANT TruncationSafe
CHECK_DEADLOCK FALSE
