CONSTANTS
  Senders = {s1, s2, s3}
  Capacity = 1
  BatchMax = 1
  BurstLimit = 1
SPECIFICATION Spec
INVARIANTS
  WaitsOnlyWhenExhausted
CHECK_DEADLOCK FALSE
