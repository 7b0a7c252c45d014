SPECIFICATION Spec
CONSTANTS
  d1 = d1
  i1 = i1
  p1 = p1
  p2 = p2
  None = None
  Device = {d1}
  Item = {i1}
  RefOf <- OnlyOne
  Poller = {p1, p2}
  MaxEvents = 3
  MaxFaults = 1
SYMMETRY PollerSymmetry
INVARIANTS TypeOK RunningIsRegistered SentAccounted PollerMatchesDevice
PROPERTY GivenUpForCause
CHECK_DEADLOCK FALSE
