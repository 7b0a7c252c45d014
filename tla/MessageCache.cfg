SPECIFICATION Spec
CONSTANTS
  k1 = k1
  k2 = k2
  k3 = k3
  ann = ann
  me = me
  grp = grp
  b1 = b1
  b2 = b2
  s1 = s1
  Empty = Empty
  Key = {k1, k2, k3}
  ChatOf <- Chats
  SendersOf <- SentBy
  Person = {ann, me}
  Group = {grp}
  Mapped = {ann}
  Hint <- Hints
  Own <- mePn
  Caller = {s1}
  Incoming <- Messages
  Body = {b1, b2}
  Max = 2
  TTL = 1
  MaxTime = 2
INVARIANTS TypeOK HeldWhileRecent NoQuotePileUp
PROPERTIES QuotesLatest QuoteAttributed
