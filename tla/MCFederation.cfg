CONSTANTS
  c1 = c1
  c2 = c2
  k1 = k1
  Servers = {c1, c2}
  Calls = {h1}
  Sectors = {k1}
  PeerIds = {p1, p2}
  Claims <- OwnerClaims
  Sessions = {s1, s2, s3}
  QueueMax = 1
  QueueDepth = 1
  WireMax = 1
  MaxFaults = 1
  None = None
  Lines = {l1, l2}
  Payloads = {d1, d2}
  BadPayloads = {d2}
SPECIFICATION DispatcherSpec
SYMMETRY Symmetry
INVARIANTS
  TablesSound
  RepliesWereAsked
  DeliveredToAddressee
PROPERTIES
  TablesDurable
  ImplementsHandoff
CHECK_DEADLOCK FALSE
