CONSTANTS
\* Dispatcher client
  c1 = c1  k1 = k1
  Servers = {c1}  Calls = {h1, h2, h3}  Sectors = {k1}  PeerIds = {q1}  QueueMax = 2  None = None
  Claims <- OneClaim
\* Combat
  Bandits = {b1, b2}
  Prefire = 3  Fire = 5  Recoil = 3  Contact = 1
  StaminaMax = 16  Regen = 1  BaseCost = 5  MinCost = 2  MaxCost = 10  RefDamage = 2
  Damages = {6, noWeapon}  NoWeapon = noWeapon  NoState = noState
  FrameGap = 2  PlayCap = 2  DueCap = 1
\* Graves
  Corpses = {b1, b2}  PlayerTombs = {t}  Armor = {helm, plate}  Sword = sword
  NoTomb = noTomb
\* Ghosts
  Addrs = {a1, a2}  Players = {c1}  node1 = node1  Nodes = {node1}  NoNode = noNode
  NodeLoadout <- Loadout
\* Behaviour nodes
  Quarry = {q}  MaxX = 3  RowY = 0  SetRadius = 1  RangeLo = 0  RangeHi = 1  GateCd = 1
  AttackCd = 2  AttackRange = 1  ChaseRadius = 1  FleeRadius = 1  FleeDist = 2  PatrolX = 2
  Drift = 1  Names = {n1, n2}  NoOne = noOne  Gone = gone  Idle = idle
\* Files
  Streams = {s1, s2}  HeaderSize = 2  ReadSizes = {1, 2, 3}  Closed = closed
  Files <- MCFiles
\* Drops
  GemXml <- MCGem  TunnelXml <- MCTunnel  TreeXml <- MCTree  ToolXml <- MCTools
  Yields <- MCYields  Recipes <- MCRecipes
  Unset = unset  Malformed = malformed  Vanilla = vanilla
\* Characters
  Characters = {c, d}  BodyAddrs = {a1, a2}  Scale = 1  FullHp = 2  HpArgs = {1}  Nobody = nobody
\* Effects
  Patients = {p}  EffectIds = {res, other}  Resurrected = res  Word = 8
  ApplyTimes = {0, 5}  Windows = {1, 3}
  Callbacks <- MCCallbacks
\* Zones
  Fighters = {f}  NoChar = noChar  GeoIds = {1}  MaxLand = 2  MaxNested = 2  Throttle = 2
\* Handoff events
  w1 = w1  w2 = w2  Worlds = {w1, w2}  MaxWire = 2  Filler = filler
  Setups <- MCSetups  Errands <- MCErrands  Sample <- MCSample

SPECIFICATION GameSpec
INVARIANTS GameTypeOK OneForwardPerCall NoDanglingCallback HitIsSeen OwnTombFilled NoPartialTomb
           NpcsAreSeen TargetsAreLive DropsAsConfigured PacifistsHarmNoPlayer HoldsTheRightPlayer
           HandoffsArriveWhole
PROPERTIES AcceptedIsWritten OneHitPerSwing WindedRecovers NodesRespawn SwingsSpaced ReadsAsPlain
           ResurrectionAsConfigured
CHECK_DEADLOCK FALSE
