SPECIFICATION Spec
CONSTANTS
  m1 = m1
  m2 = m2
  r1 = r1
  r2 = r2
  r3 = r3
  n1 = n1
  k1 = k1
  None = None
  Msg = {m1, m2}
  Receipt = {r1, r2, r3}
  Name = {n1}
  Contents <- Held
  Info <- Sent
  Batches <- Synced
  KeyOf <- Keyed
  Read = {r1, r2}
  Confs <- Configured
  MaxEvents = 2
  MaxFaults = 2
CHECK_DEADLOCK FALSE
INVARIANTS HandedOver BodyIsRight FilesAreOwn
PROPERTIES OutboxSpec
