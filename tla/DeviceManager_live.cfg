SPECIFICATION FairSpec
CONSTANTS
  dev1 = dev1
  dev2 = dev2
  c1 = c1
  c2 = c2
  p1 = p1
  p2 = p2
  None = None
  Id = {dev1}
  Client = {c1, c2}
  Phone = {p1}
  AutoId <- OneName
  MaxCodes = 2
  MaxDbErrors = 0
  MaxNetErrors = 0
  MaxCrashes = 1
PROPERTIES LockIsReleased
