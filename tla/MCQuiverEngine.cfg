SPECIFICATION FairSpec
CONSTANTS
  RotationTarget = 1
  MaxRotatedFiles = 1
  Subscribers = {s1}
  MaxInFlight = 1
  MaxBundles = 4
  MaxEvents = 5
  MaxCrashes = 1
  MaxFailures = 1
  CrashMidRotation = FALSE
  CrashPartlyPurged = FALSE
  SegmentWriteMayFail = FALSE
INVARIANTS TypeOK ProgressHonest CursorAccepted NothingSkipped
PROPERTIES ImplementsDurableLog BacklogDrains
CHECK_DEADLOCK FALSE
