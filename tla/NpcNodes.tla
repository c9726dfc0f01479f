------------------------------ MODULE NpcNodes ------------------------------
(***************************************************************************)
(* The behaviour-tree nodes of hooks/ai/hook_behavior_node.cpp: their        *)
(* registration when a tree is loaded and their per-tick process functions,  *)
(* for one NPC on a line.  The engine evaluates a tree every tick; here a    *)
(* DynSelector whose first branch is the attack sequence and whose other     *)
(* branch may be any of the rest.  The parameters of a node and the          *)
(* destination of its move share the words at +0x40 and +0x44, so a node's   *)
(* memory is these words and the "moving" byte.  A tick that finds no        *)
(* creature on the blackboard changes nothing.                               *)
(***************************************************************************)
EXTENDS Integers

CONSTANTS
  Quarry,     \* players, and whatever else the container search returns
  MaxX,       \* the line is 0..MaxX
  RowY,       \* the second coordinate of every object
  SetRadius, RangeLo, RangeHi, GateCd, AttackCd, AttackRange,
  ChaseRadius, FleeRadius, FleeDist, PatrolX,
  Drift,      \* a chase repaths when its quarry has moved farther than this
  Names,      \* the classes of custom nodes
  NoOne, Gone, Idle

ASSUME NodesAssumption ==
  /\ {MaxX, GateCd, AttackCd} \subseteq Nat
  /\ {RowY, SetRadius, RangeLo, RangeHi, AttackRange, ChaseRadius, FleeRadius, FleeDist,
      PatrolX, Drift} \subseteq Int
  /\ Gone \notin Int /\ Idle \notin Int /\ NoOne \notin Quarry

VARIABLES
  builtins,   \* templates the engine has registered
  known,      \* custom node classes registered
  latched,    \* g_registered
  treeUp,     \* the NPC runs a tree all nodes of which were known
  at,         \* where each player is
  ai          \* the NPC: position, move engine, node memory, g_npcState entry

nodeVars == <<builtins, known, latched, treeUp, at, ai>>

Movers == {"goto", "home", "chase", "flee"}
Line   == 0..MaxX

\* What GoToPointLoad, ChaseLoad and FleeLoad store; the clone copies it.
Loaded ==
  [goto  |-> [w0 |-> PatrolX,     w1 |-> RowY,     moving |-> FALSE],
   home  |-> [w0 |-> 0,           w1 |-> 0,        moving |-> FALSE],
   chase |-> [w0 |-> ChaseRadius, w1 |-> 0,        moving |-> FALSE],
   flee  |-> [w0 |-> FleeRadius,  w1 |-> FleeDist, moving |-> FALSE]]

NodesInit ==
  /\ builtins = {} /\ known = {} /\ latched = FALSE /\ treeUp = FALSE
  /\ at = [p \in Quarry |-> Gone]
  /\ ai = [x |-> 0, eng |-> Idle, mem |-> Loaded, target |-> NoOne, home |-> Gone,
           gate |-> GateCd, attack |-> AttackCd, swing |-> AttackCd, stale |-> FALSE]
-----------------------------------------------------------------------------
\* External: the engine registers its own node classes.
RegisterBuiltin(b) ==
  /\ builtins' = builtins \cup {b}
  /\ UNCHANGED <<known, latched, treeUp, at, ai>>

\* TryRegisterCustomNodes with the templates there are; failing are the classes
\* whose prototype could not be made.
TryRegisterCustomNodes(failing) ==
  IF builtins = {"Stopped", "GoToPosition"}
  THEN known' = known \cup (Names \ failing) /\ latched' = (failing = {})
  ELSE UNCHANGED <<known, latched>>

\* LoadBehaviorXml: registers once, then lets the engine parse the tree.
LoadBehaviorXml(failing) ==
  /\ IF latched THEN UNCHANGED <<known, latched>> ELSE TryRegisterCustomNodes(failing)
  /\ treeUp' = (treeUp \/ known' = Names)
  /\ UNCHANGED <<builtins, at, ai>>
-----------------------------------------------------------------------------
Dist(a, b) == IF a > b THEN a - b ELSE b - a

ScanNearestPlayer(s, radius) ==
  LET near == {p \in Quarry : at[p] # Gone /\ Dist(at[p], s.x) <= radius} IN
  IF near = {} THEN NoOne
  ELSE CHOOSE p \in near : \A q \in near : Dist(at[p], s.x) <= Dist(at[q], s.x)

Success(s) == [st |-> "success", s |-> s]
Failure(s) == [st |-> "failure", s |-> s]
Running(s) == [st |-> "running", s |-> s]
OkIf(c, s) == IF c THEN Success(s) ELSE Failure(s)

\* Reading the object behind targetPtr; it is stale when the player has left.
Touch(s)     == [s EXCEPT !.stale = @ \/ at[s.target] = Gone]
TargetX(s)   == IF at[s.target] = Gone THEN 0 ELSE at[s.target]

SlipTargetKept(s) ==
  LET best == ScanNearestPlayer(s, SetRadius) IN
  Success(IF best = NoOne THEN s ELSE [s EXCEPT !.target = best])

\* SetNearestPlayerAsTarget
SetTargetProcess(s) ==
  LET best == ScanNearestPlayer(s, SetRadius) IN
  OkIf(best # NoOne, [s EXCEPT !.target = best])

HasTargetProcess(s) == OkIf(s.target # NoOne, s)

TargetRangeProcess(s) ==
  IF s.target = NoOne THEN Failure(s)
  ELSE OkIf(Dist(TargetX(s), s.x) \in RangeLo..RangeHi, Touch(s))

\* CooldownGate, with a clock of its own per name.
CooldownProcess(s) ==
  IF s.gate < GateCd THEN Failure(s) ELSE Success([s EXCEPT !.gate = 0])

FaceProcess(s) == IF s.target = NoOne THEN Failure(s) ELSE Success(Touch(s))

SlipNotArmed(s) ==
  IF s.target = NoOne THEN Failure(s)
  ELSE IF Dist(TargetX(s), s.x) > AttackRange THEN Failure(Touch(s))
  ELSE IF s.attack < AttackCd THEN Success(Touch(s))
  ELSE Success([Touch(s) EXCEPT !.swing = 0])

\* AttackTarget: in range and rested, it arms its cooldown and swings.
AttackProcess(s) ==
  IF s.target = NoOne THEN Failure(s)
  ELSE IF Dist(TargetX(s), s.x) > AttackRange THEN Failure(Touch(s))
  ELSE IF s.attack < AttackCd THEN Success(Touch(s))
  ELSE Success([Touch(s) EXCEPT !.attack = 0, !.swing = 0])

Stopped(s, n) ==
  IF s.mem[n].moving THEN [s EXCEPT !.mem[n].moving = FALSE, !.eng = Idle] ELSE s

\* The move engine is given a destination, which the node stores in its words.
MoveTo(s, n, x) ==
  [s EXCEPT !.mem[n] = [w0 |-> x, w1 |-> RowY, moving |-> TRUE], !.eng = x]

\* GoToPoint: sets out once, then polls the engine for arrival.
GoToPointProcess(s) ==
  IF ~s.mem["goto"].moving THEN Running(MoveTo(s, "goto", s.mem["goto"].w0))
  ELSE IF s.eng = s.x THEN Success(Stopped(s, "goto"))
  ELSE Running(s)

\* ReturnToHomePosition: home is where the first tick found the NPC.
ReturnHomeProcess(s) ==
  LET h == IF s.home = Gone THEN s.x ELSE s.home
      t == [s EXCEPT !.home = h] IN
  IF Dist(s.x, h) <= 1 THEN Failure(Stopped(t, "home"))
  ELSE IF s.mem["home"].moving THEN Running([t EXCEPT !.mem["home"].w0 = h, !.mem["home"].w1 = RowY])
  ELSE Running(MoveTo(t, "home", h))

\* ChaseTarget: the radius it reads is the word it stores its destination in.
ChaseProcess(s) ==
  LET n    == s.mem["chase"]
      prey == ScanNearestPlayer(s, n.w0) IN
  IF prey = NoOne THEN Failure(Stopped(s, "chase"))
  ELSE IF ~n.moving \/ Dist(n.w0, at[prey]) + Dist(n.w1, RowY) > Drift
       THEN Running(MoveTo(s, "chase", at[prey]))
  ELSE Running(s)

\* FleeFromTarget: the same for its radius and its distance.
FleeProcess(s) ==
  LET n      == s.mem["flee"]
      threat == ScanNearestPlayer(s, n.w0) IN
  IF threat = NoOne THEN Success(Stopped(s, "flee"))
  ELSE Running(MoveTo(s, "flee", IF s.x >= at[threat] THEN s.x + n.w1 ELSE s.x - n.w1))

\* CurrentHourOfDay, in hours of a clock that counts from a signed origin.
CurrentHourOfDay(hours) == hours % 24

\* TimeOfDayBetween with the hours of IsNight, 20 to 6; -1 is a clock not ready.
TodProcess(s, h, start, end) ==
  OkIf(h >= 0 /\ IF start <= end THEN h >= start /\ h < end ELSE h >= start \/ h < end, s)

Then(r, P(_)) == IF r.st = "success" THEN P(r.s) ELSE r

AttackBranch(s) == Then(Then(SetTargetProcess(s), TargetRangeProcess), AttackProcess)
GreetBranch(s)  == Then(Then(HasTargetProcess(s), CooldownProcess), FaceProcess)
PatrolBranch(s, hours) == Then(TodProcess(s, CurrentHourOfDay(hours), 20, 6), GoToPointProcess)

\* One tick of the tree.
Tick(branch, hours) ==
  /\ treeUp
  /\ LET first == AttackBranch(ai) IN
     ai' = IF first.st # "failure" THEN first.s
           ELSE CASE branch = "greet" -> GreetBranch(first.s).s
                  [] branch = "goto"  -> PatrolBranch(first.s, hours).s
                  [] branch = "home"  -> ReturnHomeProcess(first.s).s
                  [] branch = "chase" -> ChaseProcess(first.s).s
                  [] branch = "flee"  -> FleeProcess(first.s).s
  /\ UNCHANGED <<builtins, known, latched, treeUp, at>>
-----------------------------------------------------------------------------
\* External: the engine moves the NPC towards the destination, within the map.
EngineMoves ==
  /\ ai.eng # Idle
  /\ \E x \in Line : /\ Dist(x, ai.x) = 1 /\ Dist(x, ai.eng) < Dist(ai.x, ai.eng)
                     /\ ai' = [ai EXCEPT !.x = x]
  /\ UNCHANGED <<builtins, known, latched, treeUp, at>>

\* External: a player walks, leaves or appears.
PlayerMoves(p, x) ==
  /\ treeUp
  /\ x \in Line /\ at[p] # Gone => Dist(x, at[p]) = 1
  /\ at' = [at EXCEPT ![p] = x]
  /\ UNCHANGED <<builtins, known, latched, treeUp, ai>>

\* A second of wall-clock time; a clock stops where its cooldown is over.
Second ==
  /\ treeUp
  /\ LET up(n, cap) == IF n < cap THEN n + 1 ELSE n IN
     ai' = [ai EXCEPT !.gate = up(@, GateCd), !.attack = up(@, AttackCd),
                      !.swing = up(@, AttackCd)]
  /\ UNCHANGED <<builtins, known, latched, treeUp, at>>

\* The NPC is removed and one with the same SimObjectId takes its place: the
\* nodes are cloned again, the entry of g_npcState stays.
Respawn(x) ==
  /\ treeUp
  /\ ai' = [ai EXCEPT !.x = x, !.eng = Idle, !.mem = Loaded]
  /\ UNCHANGED <<builtins, known, latched, treeUp, at>>

NodesNext ==
  \/ \E b \in {"Stopped", "GoToPosition"} : RegisterBuiltin(b)
  \/ \E failing \in {{}} \cup {{n} : n \in Names} : LoadBehaviorXml(failing)
  \/ \E branch \in Movers \cup {"greet"}, hours \in {-2, 20, 30} : Tick(branch, hours)
  \/ EngineMoves
  \/ \E p \in Quarry, x \in Line \cup {Gone} : PlayerMoves(p, x)
  \/ Second
  \/ \E x \in {0, MaxX} : Respawn(x)

NodesSpec == NodesInit /\ [][NodesNext]_nodeVars
-----------------------------------------------------------------------------
NodesTypeOK ==
  /\ builtins \subseteq {"Stopped", "GoToPosition"} /\ known \subseteq Names
  /\ latched \in BOOLEAN /\ latched => known = Names
  /\ at \in [Quarry -> Line \cup {Gone}]
  /\ ai.x \in Line /\ ai.target \in Quarry \cup {NoOne} /\ ai.home \in Line \cup {Gone}
  /\ ai.gate \in 0..GateCd /\ ai.attack \in 0..AttackCd /\ ai.swing \in 0..AttackCd

\* targetPtr is "valid same-tick": no node of the tree reads a player that has
\* left, though the entry that points to it outlives the tick, and the NPC.
TargetsAreLive == ~ai.stale

\* Two swings of one NPC are a cooldown apart, also across a respawn.
SwingsSpaced == [][ai'.swing < ai.swing => ai.swing >= AttackCd]_nodeVars

\* "Pursue the nearest player within radius (re-scanned each tick)".
ChasesWithinRadius ==
  [][ai'.mem["chase"].moving /\ ai'.mem["chase"] # ai.mem["chase"]
       => \E p \in Quarry : at[p] # Gone /\ Dist(at[p], ai.x) <= ChaseRadius]_nodeVars
=============================================================================
