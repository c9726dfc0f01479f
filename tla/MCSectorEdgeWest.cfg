CONSTANTS
  Players = {p1}
  Worlds <- WestSouth
  Coords <- Around
  None = None
SPECIFICATION Spec
INVARIANT StitchedAtEdge
