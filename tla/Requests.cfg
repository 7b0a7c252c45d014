SPECIFICATION FairSpec
CONSTANTS
  c1 = c1
  c2 = c2
  d3 = d3
  q1 = q1
  x1 = x1
  None = None
  Device = {c1, c2, d3}
  Channel = {c1, c2}
  Request = {q1, x1}
  Kind <- KindOf
  Payloads <- AllLoads
  MaxPulls = 2
  MaxEvents = 1
  MaxFaults = 1
INVARIANTS TypeOK AnswersAccounted ToldIsRight
PROPERTY RequestsSettle
