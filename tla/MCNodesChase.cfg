CONSTANTS
  Quarry = {q}  MaxX = 3  RowY = 0  SetRadius = 2  RangeLo = 0  RangeHi = 0  GateCd = 1
  AttackCd = 2  AttackRange = 0  ChaseRadius = 1  FleeRadius = 1  FleeDist = 2  PatrolX = 2
  Drift = 1  Names = {n1, n2}  NoOne = noOne  Gone = gone  Idle = idle
SPECIFICATION NodesSpec
PROPERTY ChasesWithinRadius
CHECK_DEADLOCK FALSE
