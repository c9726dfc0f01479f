CONSTANTS
  Uuids = {u1, u2}
  PeerIds = {p1, p2}
  Sessions = {s1, s2}
  Sectors = {}
  Payloads = {d1}
  BadPayloads = {}
  QueueDepth = 2
  None = None
SPECIFICATION Spec
INVARIANTS
  HelloAckFirst
