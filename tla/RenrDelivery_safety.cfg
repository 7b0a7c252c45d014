SPECIFICATION Spec
CONSTANTS
  d1 = d1
  m1 = m1
  m2 = m2
  w1 = w1
  w2 = w2
  None = None
  Device = {d1}
  Msg = {m1, m2}
  DeviceOf <- TwoOnOne
  Worker = {w1, w2}
  TTL = 1
  MaxBackoff = 2
  Width = 3
  MaxTime = 2
  MaxInserts = 2
  MaxDbErrors = 1
  MaxApiErrors = 1
  MaxCrashes = 1
SYMMETRY WorkerSymmetry
INVARIANTS TypeOK LockExclusive AcceptsAccounted FirstAttemptsInOrder StrandedOnlyByFault
PROPERTIES OutboxSpec RevivedOnlyInHand
