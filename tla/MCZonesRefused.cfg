CONSTANTS
  Fighters = {f}  NoChar = noChar  GeoIds = {1, 2}  MaxLand = 2  MaxNested = 2  Throttle = 2
SPECIFICATION ZonesSpec
INVARIANT ArenasOwnTheirZones
CHECK_DEADLOCK FALSE
