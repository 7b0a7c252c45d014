SPECIFICATION Spec
CONSTANTS
  dev1 = dev1
  dev2 = dev2
  c1 = c1
  c2 = c2
  p1 = p1
  p2 = p2
  None = None
  Id = {dev1, dev2}
  Client = {c1, c2}
  Phone = {p1, p2}
  AutoId <- Names
  MaxCodes = 2
  MaxDbErrors = 1
  MaxNetErrors = 1
  MaxCrashes = 1
SYMMETRY Symmetric
INVARIANTS TypeOK RegisteredWasPaired RegisteredIsSaved RestoreRecovers
PROPERTIES UnregisteredForCause
