SPECIFICATION Spec
CONSTANTS
  Publishers = {p1, p2}
  Subscribers = {s1, s2}
  Early = {s1}
  Capacity = 2
  MaxPublishes = 3
  Trackers = {p1}
  MaxFaults = 1
  Nobody = Nobody
INVARIANTS TypeOK MembershipMatchesRing NoSilentMember NoStuckPublish
PROPERTIES OutcomeFinal
CHECK_DEADLOCK FALSE
