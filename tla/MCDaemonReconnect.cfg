CONSTANTS
  Uuids = {u1}
  PeerIds = {p1}
  Sessions = {s1, s2, s3}
  Sectors = {}
  Payloads = {d1}
  BadPayloads = {}
  QueueDepth = 2
  None = None
SPECIFICATION Spec
INVARIANTS
  LiveConnectionRegistered
