CONSTANTS
  Servers = {c1}
  Calls = {h1, h2, h3}
  Sectors = {k1}
  PeerIds = {p1}
  Claims <- NoClaims
  QueueMax = 1
  None = None
SPECIFICATION Spec
INVARIANTS
  CallbackHeld
