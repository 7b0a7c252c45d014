SPECIFICATION Spec
CONSTANTS
  d1 = d1
  m1 = m1
  m2 = m2
  w1 = w1
  w2 = w2
  None = None
  Device = {d1}
  Msg = {m1}
  DeviceOf <- OneAlone
  Worker = {w1}
  TTL = 2
  MaxBackoff = 2
  Width = 3
  MaxTime = 7
  MaxInserts = 2
  MaxDbErrors = 1
  MaxApiErrors = 5
  MaxCrashes = 1
INVARIANT AttemptsCostTime
