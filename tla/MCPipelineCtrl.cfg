SPECIFICATION FairSpec
CONSTANTS
  Receivers = {r1, r2}
  Processors = {p1}
  Exporters = {e1}
  ControlCap = 1
  RuntimeCap = 1
  Burst = 1
  MaxUpdates = 2
  Timed = {r1}
  MaxDue = 1
  MaxRequests = 1
INVARIANTS TypeOK DownstreamAfterIngress NodesInformed
PROPERTIES PressureFollows ShutdownCompletes
CHECK_DEADLOCK FALSE
