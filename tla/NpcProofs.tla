----------------------------- MODULE NpcProofs ------------------------------
(***************************************************************************)
(* The hostile NPCs, for any number of them and of players: every player in  *)
(* the game sees every NPC of the managed spawns, in a gear it was given,    *)
(* with addresses that are freed and used again; the nodes of the behaviour  *)
(* tree act on players who are there and swing no more often than they say;  *)
(* a hit lands once per swing, while the strike is shown; and a tomb holds   *)
(* what its bandit wore.                                                    *)
(***************************************************************************)
EXTENDS NpcGhosts, NpcNodes, BanditCombat, BanditGraves, Numbers, TLAPS

-----------------------------------------------------------------------------
(* The managed spawns.                                                      *)

Kinds == {"free", "npc", "stock", "bandit", "animal"}

\* What the engine and the tables have about the NPC of a node.
NpcAt(a) ==
  nodeOf[a] # NoNode =>
    /\ kind[a] = "npc" /\ a \in tracked
    /\ inGame \subseteq scope[a]
    /\ loadoutAt[a] \in assigned[a] /\ loadoutAt[a] # Bare
    /\ \A c \in Players : shows[c][a] \in assigned[a] \cup {Bare}

\* Nobody sees a free address, and nobody shows anything there.
FreeAt(a) ==
  kind[a] = "free" =>
    /\ nodeOf[a] = NoNode /\ scope[a] = {}
    /\ \A c \in Players : shows[c][a] = Bare

GhostsInv ==
  /\ kind \in [Addrs -> Kinds]
  /\ nodeOf \in [Addrs -> Nodes \cup {NoNode}]
  /\ managed \subseteq Nodes
  /\ loadoutAt \in [Addrs -> Int] /\ assigned \in [Addrs -> SUBSET Int]
  /\ inGame \subseteq Players /\ scope \in [Addrs -> SUBSET Players]
  /\ shows \in [Players -> [Addrs -> Int]]
  /\ \A a \in Addrs : NpcAt(a) /\ FreeAt(a)

-----------------------------------------------------------------------------
\* A loadout that can be given is no missing entry.
LEMMA LoadoutsAreGiven ==
  /\ \A l \in Loadouts : l \in Int /\ l # Bare
  /\ \A n \in Nodes : NodeLoadout[n] \in Int /\ NodeLoadout[n] # Bare
  /\ Bare \in Int
BY GhostsAssumption DEF Loadouts, Bare, Plate

LEMMA InitOk == GhostsInit => GhostsInv
BY LoadoutsAreGiven DEF GhostsInit, GhostsInv, NpcAt, FreeAt, Kinds

\* A pass over the nodes builds at free addresses, for all who are in the game.
LEMMA EnsureOk ==
  ASSUME GhostsInv, NEW ns \in SUBSET Nodes, NEW site \in Chosen(ns), EnsureSpawns(ns, site),
         managed' \subseteq Nodes, UNCHANGED <<inGame, shows>>
  PROVE  GhostsInv'
<1> DEFINE new == {site[n] : n \in DOMAIN site}
           builtFor(a) == CHOOSE n \in DOMAIN site : site[n] = a
<1>1. /\ \A a \in new : kind[a] = "free"
      /\ kind'      = [a \in Addrs |-> IF a \in new THEN "npc" ELSE kind[a]]
      /\ nodeOf'    = [a \in Addrs |-> IF a \in new THEN builtFor(a) ELSE nodeOf[a]]
      /\ tracked'   = tracked \cup new
      /\ loadoutAt' = [a \in Addrs |-> IF a \in new THEN NodeLoadout[builtFor(a)] ELSE loadoutAt[a]]
      /\ scope'     = [a \in Addrs |-> IF a \in new THEN inGame ELSE scope[a]]
      /\ assigned'     = [a \in Addrs |-> IF a \in new THEN {NodeLoadout[builtFor(a)]} ELSE assigned[a]]
  BY DEF EnsureSpawns
<1>2. DOMAIN site \subseteq Nodes
  BY DEF Chosen
<1>3. \A a \in new : builtFor(a) \in Nodes
  BY <1>2
<1> HIDE DEF new, builtFor
<1>4. \A a \in new : NodeLoadout[builtFor(a)] \in Int /\ NodeLoadout[builtFor(a)] # Bare
  BY <1>3, LoadoutsAreGiven
<1>5. /\ kind' \in [Addrs -> Kinds] /\ nodeOf' \in [Addrs -> Nodes \cup {NoNode}]
      /\ loadoutAt' \in [Addrs -> Int] /\ assigned' \in [Addrs -> SUBSET Int]
      /\ scope' \in [Addrs -> SUBSET Players]
  BY <1>1, <1>3, <1>4 DEF GhostsInv, Kinds
<1>6. ASSUME NEW a \in Addrs PROVE NpcAt(a)' /\ FreeAt(a)'
  <2>1. CASE a \in new
    BY <1>1, <1>4, <2>1 DEF GhostsInv, NpcAt, FreeAt
  <2>2. CASE a \notin new
    BY <1>1, <2>2 DEF GhostsInv, NpcAt, FreeAt
  <2> QED
    BY <2>1, <2>2
<1> QED
  BY <1>5, <1>6 DEF GhostsInv

LEMMA CreateOk ==
  ASSUME GhostsInv, NEW a \in Addrs, NEW k \in {"stock", "bandit", "animal"}, Create(a, k)
  PROVE  GhostsInv'
<1>1. /\ kind[a] = "free" /\ kind' = [kind EXCEPT ![a] = k]
      /\ scope' = [scope EXCEPT ![a] = IF k = "stock" THEN {} ELSE inGame]
      /\ UNCHANGED <<nodeOf, managed, tracked, loadoutAt, inGame, shows, assigned>>
  BY DEF Create, clientSide
<1>2. ASSUME NEW b \in Addrs PROVE NpcAt(b)' /\ FreeAt(b)'
  BY <1>1 DEF GhostsInv, NpcAt, FreeAt
<1> QED
  BY <1>1, <1>2 DEF GhostsInv, Kinds

LEMMA VanishOk ==
  ASSUME GhostsInv, NEW a \in Addrs, Vanish(a)
  PROVE  GhostsInv'
<1>1. /\ kind' = [kind EXCEPT ![a] = "free"] /\ nodeOf' = [nodeOf EXCEPT ![a] = NoNode]
      /\ scope' = [scope EXCEPT ![a] = {}] /\ assigned' = [assigned EXCEPT ![a] = {}]
      /\ shows' = [c \in Players |-> [shows[c] EXCEPT ![a] = Bare]]
      /\ UNCHANGED <<managed, tracked, loadoutAt, inGame>>
  BY DEF Vanish
<1>2. \A c \in Players : shows'[c][a] = Bare /\ \A b \in Addrs : b # a => shows'[c][b] = shows[c][b]
  BY <1>1 DEF GhostsInv
<1>3. shows' \in [Players -> [Addrs -> Int]]
  BY <1>1, LoadoutsAreGiven DEF GhostsInv
<1>4. ASSUME NEW b \in Addrs PROVE NpcAt(b)' /\ FreeAt(b)'
  BY <1>1, <1>2 DEF GhostsInv, NpcAt, FreeAt
<1> QED
  BY <1>1, <1>3, <1>4 DEF GhostsInv, Kinds

LEMMA LoadoutOk ==
  ASSUME GhostsInv, NEW a \in Addrs, NEW l \in Loadouts, LoadoutNpc(a, l)
  PROVE  GhostsInv'
<1>1. /\ l \in Int /\ l # Bare /\ nodeOf[a] # NoNode
      /\ loadoutAt' = [loadoutAt EXCEPT ![a] = l] /\ assigned' = [assigned EXCEPT ![a] = @ \cup {l}]
      /\ UNCHANGED <<kind, nodeOf, managed, tracked, scope, inGame, shows>>
  BY LoadoutsAreGiven DEF LoadoutNpc, clientSide
<1>2. assigned' \in [Addrs -> SUBSET Int] /\ assigned'[a] = assigned[a] \cup {l}
      /\ \A b \in Addrs : b # a => assigned'[b] = assigned[b]
  BY <1>1 DEF GhostsInv
<1>3. ASSUME NEW b \in Addrs PROVE NpcAt(b)' /\ FreeAt(b)'
  BY <1>1, <1>2 DEF GhostsInv, NpcAt, FreeAt
<1> QED
  BY <1>1, <1>2, <1>3 DEF GhostsInv

\* Whoever enters the game gets a ghost of every NPC that is still one.
LEMMA EnterOk ==
  ASSUME GhostsInv, NEW c \in Players, EnterGame(c)
  PROVE  GhostsInv'
<1> DEFINE live == {a \in tracked : IsLiveNpc(a)}
<1>1. /\ inGame' = inGame \cup {c} /\ tracked' = live
      /\ scope' = [a \in Addrs |->
                     IF a \in live THEN inGame'
                     ELSE IF kind[a] \in {"bandit", "animal"} THEN scope[a] \cup {c} ELSE scope[a]]
      /\ UNCHANGED <<kind, nodeOf, managed, loadoutAt, shows, assigned>>
  BY DEF EnterGame, clientSide
<1>2. \A a \in Addrs : a \in live <=> a \in tracked /\ kind[a] \in {"npc", "stock"}
  BY DEF IsLiveNpc
<1> HIDE DEF live
<1>3. scope' \in [Addrs -> SUBSET Players]
  BY <1>1 DEF GhostsInv
<1>4. ASSUME NEW a \in Addrs PROVE NpcAt(a)' /\ FreeAt(a)'
  BY <1>1, <1>2 DEF GhostsInv, NpcAt, FreeAt
<1> QED
  BY <1>1, <1>3, <1>4 DEF GhostsInv

LEMMA LeaveOk ==
  ASSUME GhostsInv, NEW c \in Players, Leave(c)
  PROVE  GhostsInv'
<1>1. /\ inGame' = inGame \ {c} /\ scope' = [a \in Addrs |-> scope[a] \ {c}]
      /\ shows' = [shows EXCEPT ![c] = [a \in Addrs |-> Bare]]
      /\ UNCHANGED <<kind, nodeOf, managed, tracked, loadoutAt, assigned>>
  BY DEF Leave
<1>2. \A d \in Players, a \in Addrs : shows'[d][a] \in {Bare, shows[d][a]}
  BY <1>1 DEF GhostsInv
<1>3. shows' \in [Players -> [Addrs -> Int]]
  BY <1>1, LoadoutsAreGiven DEF GhostsInv
<1>4. ASSUME NEW a \in Addrs PROVE NpcAt(a)' /\ FreeAt(a)'
  BY <1>1, <1>2 DEF GhostsInv, NpcAt, FreeAt
<1> QED
  BY <1>1, <1>3, <1>4 DEF GhostsInv

\* A client shows what the update brings, which is the gear the NPC has now.
LEMMA UpdateOk ==
  ASSUME GhostsInv, NEW c \in Players, NEW a \in Addrs, NEW ready \in BOOLEAN, Update(c, a, ready)
  PROVE  GhostsInv'
<1>1. /\ c \in scope[a]
      /\ shows' = shows \/ (Packed(a)[1] = 1 /\ shows' = [shows EXCEPT ![c][a] = Packed(a)[2]])
      /\ UNCHANGED <<kind, nodeOf, managed, tracked, loadoutAt, scope, inGame, assigned>>
  BY DEF Update
<1>2. Packed(a)[1] = 1 => Packed(a)[2] = LoadoutBits(a)
  BY DEF Packed, PackNpc, PackAnimal
<1>3. LoadoutBits(a) \in Int /\ (nodeOf[a] # NoNode => LoadoutBits(a) \in assigned[a])
  BY LoadoutsAreGiven DEF GhostsInv, NpcAt, LoadoutBits, Plate
<1>4. kind[a] # "free"
  BY <1>1 DEF GhostsInv, FreeAt
<1>5. CASE shows' = shows
  BY <1>1, <1>5 DEF GhostsInv, NpcAt, FreeAt
<1>6. CASE shows' = [shows EXCEPT ![c][a] = LoadoutBits(a)]
  <2>1. /\ shows' \in [Players -> [Addrs -> Int]] /\ shows'[c][a] = LoadoutBits(a)
        /\ \A d \in Players, b \in Addrs : ~(d = c /\ b = a) => shows'[d][b] = shows[d][b]
    BY <1>3, <1>6 DEF GhostsInv
  <2>2. ASSUME NEW b \in Addrs PROVE NpcAt(b)' /\ FreeAt(b)'
    BY <1>1, <1>3, <1>4, <2>1 DEF GhostsInv, NpcAt, FreeAt
  <2> QED
    BY <1>1, <2>1, <2>2 DEF GhostsInv
<1> QED
  BY <1>1, <1>2, <1>5, <1>6

LEMMA GhostsStep ==
  ASSUME GhostsInv, [GhostsNext]_ghostVars
  PROVE  GhostsInv'
<1>1. ASSUME NEW n \in Nodes, ManageSpawn(n)
      PROVE  GhostsInv'
  <2>1. managed' \in SUBSET Nodes
    BY <1>1 DEF ManageSpawn, GhostsInv
  <2>2. PICK site \in Chosen(managed') : EnsureSpawns(managed', site)
    BY <1>1 DEF ManageSpawn
  <2> QED
    BY <1>1, <2>1, <2>2, EnsureOk DEF ManageSpawn, clientSide
<1>2. CASE SpawnTick
  <2>1. managed \in SUBSET Nodes /\ managed' = managed
    BY <1>2 DEF SpawnTick, GhostsInv
  <2>2. PICK site \in Chosen(managed) : EnsureSpawns(managed, site)
    BY <1>2 DEF SpawnTick
  <2> QED
    BY <1>2, <2>1, <2>2, EnsureOk DEF SpawnTick, clientSide
<1>3. CASE UNCHANGED ghostVars
  BY <1>3 DEF ghostVars, GhostsInv, NpcAt, FreeAt
<1> QED
  BY <1>1, <1>2, <1>3, CreateOk, VanishOk, LoadoutOk, EnterOk, LeaveOk, UpdateOk DEF GhostsNext

-----------------------------------------------------------------------------
\* A client takes off an update what the server appended.
LEMMA BlocksMatch ==
  ASSUME NEW a \in Addrs
  PROVE  FieldsRead(a, Packed(a)) = Len(Packed(a))
BY DEF FieldsRead, Packed, PackNpc, PackAnimal

\* NpcsAreSeen: a managed NPC is ghosted to every client in the game and none shows
\* it in a gear it was never given (EnsureSpawnsImpl, ReScopeGhostNpcs, the pack and
\* unpack hooks of both sides), whatever the tables kept about its address.
THEOREM NpcsSeen == GhostsSpec => []NpcsAreSeen
<1>1. GhostsInv /\ [GhostsNext]_ghostVars => GhostsInv'
  BY GhostsStep
<1>2. GhostsInv => NpcsAreSeen
  BY BlocksMatch DEF GhostsInv, NpcAt, NpcsAreSeen
<1> QED
  BY InitOk, <1>1, <1>2, PTL DEF GhostsSpec

-----------------------------------------------------------------------------
(* The behaviour nodes.                                                     *)

NodeMemory == [w0 : Int, w1 : Int, moving : BOOLEAN]

\* One NPC as the process functions find it and leave it; a swing is the only
\* thing that arms the attack's cooldown, and nobody who left has been read.
Npc(s) ==
  /\ s \in [x : Line, eng : Int \cup {Idle}, mem : [Movers -> NodeMemory],
            target : Quarry \cup {NoOne}, home : Line \cup {Gone},
            gate : Nat, attack : Nat, swing : Nat, stale : BOOLEAN]
  /\ s.swing = s.attack
  /\ ~s.stale

Places == at \in [Quarry -> Line \cup {Gone}]

\* The target is a player who is there.
TargetLive(s) == s.target # NoOne => at[s.target] # Gone

\* A result that leaves the swing alone.
Calm(r, s) ==
  /\ r.st \in {"success", "failure", "running"}
  /\ Npc(r.s) /\ TargetLive(r.s) /\ r.s.swing = s.swing

NodesInv == Npc(ai) /\ Places

\* The scan finds a player who is there, if there is one within the radius.
LEMMA Scans ==
  ASSUME Places, NEW s, Npc(s), NEW radius \in Int, NEW p, p = ScanNearestPlayer(s, radius)
  PROVE  p = NoOne \/ (p \in Quarry /\ at[p] \in Line)
<1> DEFINE near == {q \in Quarry : at[q] # Gone /\ Dist(at[q], s.x) <= radius}
           gaps == {Dist(at[q], s.x) : q \in near}
<1>1. CASE near = {}
  BY <1>1 DEF ScanNearestPlayer
<1>2. CASE near # {}
  <2>1. \A q \in near : q \in Quarry /\ at[q] \in Line /\ Dist(at[q], s.x) \in Nat
    BY NodesAssumption DEF Places, Npc, Dist, Line
  <2>2. gaps \subseteq Nat /\ gaps # {}
    BY <1>2, <2>1
  <2>3. \E q \in near : \A o \in near : Dist(at[q], s.x) <= Dist(at[o], s.x)
    <3>1. PICK g \in gaps : \A h \in gaps : g <= h
      <4> HIDE DEF gaps
      <4> QED
        BY <2>2, LeastOf
    <3>2. PICK q \in near : g = Dist(at[q], s.x)
      BY <3>1
    <3> QED
      BY <3>1, <3>2
  <2>4. p \in near
    <3>1. p = CHOOSE q \in near : \A o \in near : Dist(at[q], s.x) <= Dist(at[o], s.x)
      BY <1>2 DEF ScanNearestPlayer
    <3> HIDE DEF near
    <3> QED
      BY <2>3, <3>1
  <2> QED
    BY <2>1, <2>4
<1> QED
  BY <1>1, <1>2

LEMMA Targets ==
  ASSUME Places, NEW s, Npc(s)
  PROVE  Calm(SetTargetProcess(s), s)
<1>1. PICK p : p = ScanNearestPlayer(s, SetRadius) /\ (p = NoOne \/ (p \in Quarry /\ at[p] \in Line))
  BY Scans, NodesAssumption
<1>2. Npc([s EXCEPT !.target = p]) /\ TargetLive([s EXCEPT !.target = p])
  BY <1>1, NodesAssumption DEF Npc, TargetLive, Line
<1>3. [s EXCEPT !.target = p].swing = s.swing
  BY DEF Npc
<1> QED
  BY <1>1, <1>2, <1>3 DEF Calm, SetTargetProcess, OkIf, Success, Failure

\* A node that reads its target reads a player who is there.
LEMMA Touches ==
  ASSUME NEW s, Npc(s), TargetLive(s), s.target # NoOne
  PROVE  Touch(s) = s
BY DEF Npc, TargetLive, Touch

LEMMA Ranges ==
  ASSUME NEW s, Npc(s), TargetLive(s)
  PROVE  /\ Calm(TargetRangeProcess(s), s) /\ Calm(HasTargetProcess(s), s) /\ Calm(FaceProcess(s), s)
         /\ Calm(CooldownProcess(s), s)
<1>1. Calm(Success(s), s) /\ Calm(Failure(s), s)
  BY DEF Calm, Success, Failure
<1>2. Calm(Success([s EXCEPT !.gate = 0]), s)
  BY DEF Calm, Success, Npc, TargetLive
<1> QED
  BY <1>1, <1>2, Touches DEF TargetRangeProcess, HasTargetProcess, FaceProcess, CooldownProcess, OkIf

\* A swing needs a rested NPC and tires it.
LEMMA Attacks ==
  ASSUME NEW s, Npc(s), TargetLive(s), NEW r, r = AttackProcess(s)
  PROVE  \/ Calm(r, s)
         \/ r.st = "success" /\ Npc(r.s) /\ s.swing >= AttackCd
<1>1. Calm(Success(s), s) /\ Calm(Failure(s), s)
  BY DEF Calm, Success, Failure
<1>2. CASE s.target # NoOne /\ ~(s.attack < AttackCd)
  <2>1. Npc([s EXCEPT !.attack = 0, !.swing = 0])
    BY DEF Npc
  <2>2. s.swing >= AttackCd
    BY <1>2, NodesAssumption DEF Npc
  <2> QED
    BY <1>1, <1>2, <2>1, <2>2, Touches DEF AttackProcess, Success
<1> QED
  BY <1>1, <1>2, Touches DEF AttackProcess

LEMMA MovesTo ==
  ASSUME NEW s, Npc(s), TargetLive(s), NEW n \in Movers, NEW x \in Int, NEW t, t = MoveTo(s, n, x)
  PROVE  Npc(t) /\ TargetLive(t) /\ t.swing = s.swing
BY NodesAssumption DEF Npc, TargetLive, MoveTo, NodeMemory

LEMMA Stops ==
  ASSUME NEW s, Npc(s), TargetLive(s), NEW n \in Movers, NEW t, t = Stopped(s, n)
  PROVE  Npc(t) /\ TargetLive(t) /\ t.swing = s.swing
BY DEF Npc, TargetLive, Stopped, NodeMemory

LEMMA GoesToPoint ==
  ASSUME NEW s, Npc(s), TargetLive(s)
  PROVE  Calm(GoToPointProcess(s), s)
<1>1. s.mem["goto"].w0 \in Int /\ "goto" \in Movers
  BY DEF Npc, NodeMemory, Movers
<1> QED
  BY <1>1, MovesTo, Stops DEF GoToPointProcess, Calm, Running, Success

LEMMA ReturnsHome ==
  ASSUME NEW s, Npc(s), TargetLive(s)
  PROVE  Calm(ReturnHomeProcess(s), s)
<1> DEFINE h == IF s.home = Gone THEN s.x ELSE s.home
           t == [s EXCEPT !.home = h]
           u == [t EXCEPT !.mem["home"].w0 = h, !.mem["home"].w1 = RowY]
<1>1. "home" \in Movers /\ h \in Line /\ h \in Int
  BY NodesAssumption DEF Npc, Movers, Line
<1>2. Npc(t) /\ TargetLive(t) /\ t.swing = s.swing
  <2> HIDE DEF h
  <2> QED
    BY <1>1 DEF Npc, TargetLive
<1>3. Npc(u) /\ TargetLive(u) /\ u.swing = t.swing
  <2>1. PICK m : m = [t.mem EXCEPT !["home"] = [t.mem["home"] EXCEPT !.w0 = h, !.w1 = RowY]]
    OBVIOUS
  <2>2. u = [t EXCEPT !.mem = m]
    <3> HIDE DEF h
    <3> QED
      BY <1>1, <1>2, <2>1 DEF Npc, NodeMemory
  <2> HIDE DEF h, t, u
  <2>3. t.mem \in [Movers -> NodeMemory] /\ RowY \in Int
    BY <1>2, NodesAssumption DEF Npc
  <2>4. m \in [Movers -> NodeMemory]
    BY <1>1, <2>1, <2>3 DEF NodeMemory
  <2> QED
    BY <1>2, <2>2, <2>4 DEF Npc, TargetLive
<1>4. ReturnHomeProcess(s) \in {Failure(Stopped(t, "home")), Running(u), Running(MoveTo(t, "home", h))}
  BY DEF ReturnHomeProcess
<1> HIDE DEF h, t, u
<1> QED
  BY <1>1, <1>2, <1>3, <1>4, MovesTo, Stops DEF Calm, Running, Failure

LEMMA Chases ==
  ASSUME Places, NEW s, Npc(s), TargetLive(s)
  PROVE  Calm(ChaseProcess(s), s)
<1>1. s.mem["chase"].w0 \in Int /\ "chase" \in Movers
  BY DEF Npc, NodeMemory, Movers
<1>2. PICK p : /\ p = ScanNearestPlayer(s, s.mem["chase"].w0)
               /\ p = NoOne \/ (p \in Quarry /\ at[p] \in Line)
  BY <1>1, Scans
<1>3. \/ p = NoOne /\ ChaseProcess(s) = Failure(Stopped(s, "chase"))
      \/ p # NoOne /\ ChaseProcess(s) \in {Running(MoveTo(s, "chase", at[p])), Running(s)}
  BY <1>2 DEF ChaseProcess
<1>4. p # NoOne => at[p] \in Int
  BY <1>2 DEF Line
<1> QED
  BY <1>1, <1>2, <1>3, <1>4, MovesTo, Stops DEF Calm, Running, Failure

LEMMA Flees ==
  ASSUME Places, NEW s, Npc(s), TargetLive(s)
  PROVE  Calm(FleeProcess(s), s)
<1>1. s.mem["flee"].w0 \in Int /\ s.mem["flee"].w1 \in Int /\ "flee" \in Movers /\ s.x \in Int
  BY NodesAssumption DEF Npc, NodeMemory, Movers, Line
<1>2. PICK p : /\ p = ScanNearestPlayer(s, s.mem["flee"].w0)
               /\ p = NoOne \/ (p \in Quarry /\ at[p] \in Line)
  BY <1>1, Scans
<1>3. \/ p = NoOne /\ FleeProcess(s) = Success(Stopped(s, "flee"))
      \/ p # NoOne /\ \E x \in Int : FleeProcess(s) = Running(MoveTo(s, "flee", x))
  BY <1>1, <1>2 DEF FleeProcess
<1> QED
  BY <1>1, <1>2, <1>3, MovesTo, Stops DEF Calm, Running, Success

\* The attack branch leaves the swing alone unless it swings.
LEMMA AttackBranches ==
  ASSUME Places, NEW s, Npc(s), NEW r, r = AttackBranch(s)
  PROVE  \/ Calm(r, s)
         \/ r.st = "success" /\ Npc(r.s) /\ s.swing >= AttackCd
<1>1. PICK a : a = SetTargetProcess(s) /\ Calm(a, s) /\ Calm(TargetRangeProcess(a.s), a.s)
  BY Targets, Ranges DEF Calm
<1>2. PICK b : b = Then(SetTargetProcess(s), TargetRangeProcess) /\ Calm(b, s)
  <2>1. Then(SetTargetProcess(s), TargetRangeProcess) \in {TargetRangeProcess(a.s), a}
    BY <1>1 DEF Then
  <2> QED
    BY <1>1, <2>1 DEF Calm
<1>3. r = IF b.st = "success" THEN AttackProcess(b.s) ELSE b
  BY <1>2 DEF AttackBranch, Then
<1>4. CASE b.st = "success"
  <2>1. Npc(b.s) /\ TargetLive(b.s) /\ b.s.swing = s.swing /\ r = AttackProcess(b.s)
    BY <1>2, <1>3, <1>4 DEF Calm
  <2>2. \/ Calm(r, b.s)
        \/ r.st = "success" /\ Npc(r.s) /\ b.s.swing >= AttackCd
    BY <2>1, Attacks
  <2> QED
    BY <2>1, <2>2 DEF Calm
<1> QED
  BY <1>2, <1>3, <1>4

LEMMA OtherBranches ==
  ASSUME Places, NEW s, Npc(s), TargetLive(s), NEW hours
  PROVE  Calm(GreetBranch(s), s) /\ Calm(PatrolBranch(s, hours), s)
<1>1. Calm(GreetBranch(s), s)
  <2>1. PICK a : a = HasTargetProcess(s) /\ Calm(a, s) /\ Calm(CooldownProcess(a.s), a.s)
    BY Ranges DEF Calm
  <2>2. PICK b : b = Then(HasTargetProcess(s), CooldownProcess) /\ Calm(b, s)
    <3>1. Then(HasTargetProcess(s), CooldownProcess) \in {CooldownProcess(a.s), a}
      BY <2>1 DEF Then
    <3> QED
      BY <2>1, <3>1 DEF Calm
  <2>3. GreetBranch(s) = IF b.st = "success" THEN FaceProcess(b.s) ELSE b
    BY <2>2 DEF GreetBranch, Then
  <2> QED
    BY <2>2, <2>3, Ranges, ZenonT(60) DEF Calm
<1>2. Calm(PatrolBranch(s, hours), s)
  <2>1. PICK a : a = TodProcess(s, CurrentHourOfDay(hours), 20, 6) /\ a \in {Success(s), Failure(s)}
    BY DEF TodProcess, OkIf
  <2>2. PatrolBranch(s, hours) = IF a.st = "success" THEN GoToPointProcess(a.s) ELSE a
    BY <2>1 DEF PatrolBranch, Then
  <2>3. a.s = s /\ a.st \in {"success", "failure"}
    BY <2>1 DEF Success, Failure
  <2> QED
    BY <2>2, <2>3, GoesToPoint DEF Calm
<1> QED
  BY <1>1, <1>2

LEMMA Ticks ==
  ASSUME NodesInv, NEW branch \in Movers \cup {"greet"}, NEW hours, Tick(branch, hours)
  PROVE  /\ NodesInv'
         /\ ai'.swing = ai.swing \/ ai.swing >= AttackCd
<1>1. PICK f : /\ f = AttackBranch(ai)
               /\ \/ Calm(f, ai)
                  \/ f.st = "success" /\ Npc(f.s) /\ ai.swing >= AttackCd
  BY AttackBranches DEF NodesInv
<1>2. UNCHANGED at
  BY DEF Tick
<1>3. CASE f.st # "failure"
  <2>1. ai' = f.s
    BY <1>1, <1>3 DEF Tick
  <2>2. Npc(f.s) /\ (f.s.swing = ai.swing \/ ai.swing >= AttackCd)
    BY <1>1 DEF Calm
  <2>3. Npc(ai') /\ (ai'.swing = ai.swing \/ ai.swing >= AttackCd)
    BY <2>1, <2>2
  <2> QED
    BY <1>2, <2>3 DEF NodesInv, Npc, Places
<1>4. CASE f.st = "failure"
  <2>1. Npc(f.s) /\ TargetLive(f.s) /\ f.s.swing = ai.swing
    BY <1>1, <1>4 DEF Calm
  <2>2. PICK r : /\ ai' = r.s
                 /\ r \in {GreetBranch(f.s), PatrolBranch(f.s, hours), ReturnHomeProcess(f.s),
                           ChaseProcess(f.s), FleeProcess(f.s)}
    BY <1>1, <1>4 DEF Tick, Movers
  <2>3. Calm(r, f.s)
    BY <2>1, <2>2, OtherBranches, ReturnsHome, Chases, Flees DEF NodesInv
  <2>4. Npc(ai') /\ ai'.swing = ai.swing
    BY <2>1, <2>2, <2>3 DEF Calm
  <2> QED
    BY <1>2, <2>4 DEF NodesInv, Npc, Places
<1> QED
  BY <1>3, <1>4

LEMMA LoadedIs == Loaded \in [Movers -> NodeMemory]
<1>1. DOMAIN Loaded = Movers
  BY DEF Loaded, Movers
<1>2. Loaded["goto"] \in NodeMemory /\ Loaded["home"] \in NodeMemory
  BY NodesAssumption DEF Loaded, NodeMemory
<1>3. Loaded["chase"] \in NodeMemory /\ Loaded["flee"] \in NodeMemory
  BY NodesAssumption DEF Loaded, NodeMemory
<1>4. Loaded = [n \in Movers |-> Loaded[n]]
  BY <1>1 DEF Loaded
<1> QED
  BY <1>2, <1>3, <1>4 DEF Movers

LEMMA NodesStep ==
  ASSUME NodesInv, [NodesNext]_nodeVars
  PROVE  /\ NodesInv'
         /\ ai'.swing < ai.swing => ai.swing >= AttackCd
<1>1. ASSUME NEW branch \in Movers \cup {"greet"}, NEW hours, Tick(branch, hours)
      PROVE  NodesInv' /\ (ai'.swing < ai.swing => ai.swing >= AttackCd)
  BY <1>1, Ticks DEF NodesInv, Npc
<1>2. CASE EngineMoves
  BY <1>2 DEF EngineMoves, NodesInv, Npc, Places
<1>3. ASSUME NEW p \in Quarry, NEW x \in Line \cup {Gone}, PlayerMoves(p, x)
      PROVE  NodesInv' /\ ai' = ai
  BY <1>3 DEF PlayerMoves, NodesInv, Npc, Places
<1>4. CASE Second
  <2> DEFINE up(n, cap) == IF n < cap THEN n + 1 ELSE n
  <2>1. ai' = [ai EXCEPT !.gate = up(ai.gate, GateCd), !.attack = up(ai.attack, AttackCd),
                         !.swing = up(ai.swing, AttackCd)]
    BY <1>4 DEF Second
  <2>2. PICK g, a \in Nat : g = up(ai.gate, GateCd) /\ a = up(ai.attack, AttackCd)
                           /\ a = up(ai.swing, AttackCd) /\ a >= ai.swing
    BY NodesAssumption DEF NodesInv, Npc
  <2>3. ai' = [ai EXCEPT !.gate = g, !.attack = a, !.swing = a]
    BY <2>1, <2>2
  <2>4. Npc(ai') /\ ai'.swing >= ai.swing
    <3> HIDE DEF up
    <3> QED
      BY <2>2, <2>3 DEF NodesInv, Npc
  <2>5. UNCHANGED at /\ ai.swing \in Nat /\ ai'.swing \in Nat
    BY <1>4, <2>4 DEF Second, NodesInv, Npc
  <2> QED
    BY <2>4, <2>5 DEF NodesInv, Npc, Places
<1>5. ASSUME NEW x \in {0, MaxX}, Respawn(x)
      PROVE  NodesInv' /\ ai'.swing = ai.swing
  <2>1. Loaded \in [Movers -> NodeMemory] /\ x \in Line
    BY LoadedIs, NodesAssumption DEF Line
  <2> QED
    BY <1>5, <2>1 DEF Respawn, NodesInv, Npc, Places
<1>6. CASE UNCHANGED <<at, ai>>
  BY <1>6 DEF NodesInv, Npc, Places
<1>7. ASSUME NEW b, NEW failing, RegisterBuiltin(b) \/ LoadBehaviorXml(failing)
      PROVE  UNCHANGED <<at, ai>>
  BY <1>7 DEF RegisterBuiltin, LoadBehaviorXml
<1>8. NodesInv => ai.swing \in Nat
  BY DEF NodesInv, Npc
<1> QED
  BY <1>1, <1>2, <1>3, <1>4, <1>5, <1>6, <1>7, <1>8 DEF NodesNext, nodeVars

LEMMA NodesInvHolds == NodesSpec => []NodesInv
<1>1. NodesInit => NodesInv
  <2>1. Loaded \in [Movers -> NodeMemory] /\ 0 \in Line
    BY LoadedIs, NodesAssumption DEF Line
  <2> QED
    BY <2>1, NodesAssumption DEF NodesInit, NodesInv, Npc, Places
<1>2. NodesInv /\ [NodesNext]_nodeVars => NodesInv'
  BY NodesStep
<1> QED
  BY <1>1, <1>2, PTL DEF NodesSpec

\* TargetsAreLive, for any players, lines and radii: the tree sets its target
\* afresh before any node reads it (hook_behavior_node.cpp), whoever the entry
\* of the last tick, or of the last NPC, points to.
THEOREM TargetsLive == NodesSpec => []TargetsAreLive
<1>1. NodesInv => TargetsAreLive
  BY DEF NodesInv, Npc, TargetsAreLive
<1> QED
  BY <1>1, NodesInvHolds, PTL

\* SwingsSpaced, for any cooldown: an NPC swings only when the clock of its
\* last swing has run out, a respawn under the same id included.
THEOREM Spaced == NodesSpec => SwingsSpaced
<1>1. NodesInv /\ [NodesNext]_nodeVars => [ai'.swing < ai.swing => ai.swing >= AttackCd]_nodeVars
  BY NodesStep
<1> QED
  BY <1>1, NodesInvHolds, PTL DEF NodesSpec, SwingsSpaced

-----------------------------------------------------------------------------
(* The swings.                                                              *)

\* There is room for everybody in plays[] and due[], and a frame is shorter than
\* what is left of FIRE when the hit is due.
EnoughRoom == Cardinality(Bandits) <= PlayCap /\ Cardinality(Bandits) <= DueCap
ShortFrames == Contact + FrameGap <= Fire

\* What is known of bandit b with entry s, a queued hit p, its figure f and n hits
\* since its last commit: the hit is queued while FIRE is shown, for as long as it takes
\* from the start of the phase, and the bandit is locked until then.
SwingOf(b, s, p, f, n) ==
  /\ s = NoState => p = NoState /\ (b \in alive => n = 1)
  /\ s # NoState =>
       /\ b \in alive /\ s \in StamEntry
       /\ s.phase = "PREFIRE" =>
            /\ p = NoState /\ n = 0 /\ f = <<s.type, "PREFIRE">>
            /\ s.age < Prefire /\ s.lock = AttackTotal - s.age
       /\ s.phase = "FIRE" /\ p # NoState =>
            /\ n = 0 /\ f = <<s.type, "FIRE">>
            /\ p \in Nat /\ p > 0 /\ p = Contact - s.age
            /\ s.lock + s.age > Fire + Recoil - FrameGap
       /\ s.phase \in {"RECOIL", "NONE"} => p = NoState
       /\ s.phase # "PREFIRE" /\ p = NoState => n = 1

CombatInv ==
  /\ alive \subseteq Bandits /\ weapon \in [Bandits -> Damages]
  /\ DOMAIN stam = Bandits /\ DOMAIN pending = Bandits /\ DOMAIN shown = Bandits
  /\ DOMAIN landed = Bandits
  /\ \A b \in Bandits : SwingOf(b, stam[b], pending[b], shown[b], landed[b])
  /\ \A b \in Bandits : landed[b] \in {0, 1}
  /\ HitIsSeen

LEMMA Positive ==
  /\ Prefire \in Nat /\ Fire \in Nat /\ Recoil \in Nat /\ Contact \in Nat /\ FrameGap \in Nat
  /\ Prefire > 0 /\ Fire > 0 /\ Recoil > 0 /\ Contact > 0 /\ FrameGap > 0
  /\ StaminaMax \in Nat /\ Regen \in Nat /\ PlayCap \in Nat /\ DueCap \in Nat
  /\ AttackTotal \in Nat /\ AttackTotal = Prefire + Fire + Recoil
BY CombatAssumption DEF AttackTotal

LEMMA Entries ==
  ASSUME NEW s, s \in StamEntry
  PROVE  s # NoState
BY CombatAssumption

LEMMA Costs ==
  ASSUME weapon \in [Bandits -> Damages], NEW b \in Bandits
  PROVE  SwingCost(b) \in Int
<1>1. BaseCost \in Nat /\ RefDamage \in Nat /\ RefDamage > 0 /\ MinCost \in Nat /\ MaxCost \in Nat
  BY CombatAssumption
<1>2. weapon[b] # NoWeapon => weapon[b] \in Nat
  BY CombatAssumption
<1>3. weapon[b] # NoWeapon => (BaseCost * weapon[b]) \div RefDamage \in Int
  BY <1>1, <1>2
<1> QED
  BY <1>1, <1>3 DEF SwingCost, Least

\* Nobody is left out of an array with room for everybody.
LEMMA Everybody ==
  ASSUME NEW n \in Nat, Cardinality(Bandits) <= n, NEW S, S \subseteq Bandits, NEW T \in UpTo(n, S)
  PROVE  T = S
<1>1. IsFiniteSet(S) /\ Cardinality(S) <= Cardinality(Bandits) /\ Cardinality(S) \in Nat
      /\ Cardinality(Bandits) \in Nat
  BY CombatAssumption, FS_Subset, FS_CardinalityType
<1>2. T \subseteq S /\ Cardinality(T) = Cardinality(S)
  BY <1>1 DEF UpTo, Least
<1> QED
  BY <1>1, <1>2, FS_Subset

-----------------------------------------------------------------------------
\* A request commits a swing when the last one has landed, and changes nothing
\* of one that is under way.
LEMMA Asks ==
  ASSUME ShortFrames, CombatInv, NEW b \in Bandits, NEW req \in Requests, OnSetAnimation(b, req)
  PROVE  /\ CombatInv'
         /\ \A c \in Bandits : landed'[c] \in {0, landed[c]}
         /\ \A c \in Bandits : shown'[c][2] = "PREFIRE" /\ shown[c][2] # "PREFIRE" => landed[c] = 1
<1>1. /\ struck' = {} /\ UNCHANGED <<alive, weapon, pending>> /\ b \in alive
      /\ HitIsSeen'
  BY DEF OnSetAnimation, DropWhileLocked, RestWhileWinded, RequestAttack, RequestOther, HitIsSeen
<1>2. CASE DropWhileLocked(b, req)
  BY <1>1, <1>2 DEF DropWhileLocked, CombatInv, SwingOf
<1>3. ASSUME NEW f, shown' = [shown EXCEPT ![b] = f], f[2] = "NONE", UNCHANGED <<stam, landed>>, ~Locked(b)
      PROVE  /\ CombatInv'
             /\ \A c \in Bandits : shown'[c][2] = "PREFIRE" /\ shown[c][2] # "PREFIRE" => landed[c] = 1
  <2>1. SwingOf(b, stam[b], pending[b], f, landed[b])
    <3>1. stam[b] # NoState => stam[b].lock \in Nat /\ stam[b].age \in Nat /\ stam[b].lock = 0
      BY <1>3 DEF CombatInv, SwingOf, Locked, StamEntry
    <3> QED
      BY <3>1, Positive DEF CombatInv, SwingOf, ShortFrames
  <2> QED
    BY <1>1, <1>3, <2>1 DEF CombatInv, SwingOf
<1>4. CASE RestWhileWinded(b, req)
  BY <1>3, <1>4 DEF RestWhileWinded
<1>5. CASE RequestOther(b, req)
  BY <1>3, <1>5 DEF RequestOther
<1>6. CASE RequestAttack(b, req)
  <2>1. PICK s : s = IF stam[b] = NoState THEN FreshStam ELSE stam[b]
    OBVIOUS
  <2>2. FreshStam \in StamEntry
    BY Positive DEF FreshStam, StamEntry, SwingPhases, Requests
  <2>3. s \in StamEntry /\ SwingOf(b, s, pending[b], shown[b], landed[b])
    BY <1>1, <2>1, <2>2 DEF CombatInv, SwingOf, FreshStam
  <2>4. CASE CanCommit(b, s)
    <3>1. /\ stam' = [stam EXCEPT ![b] = Committed(b, s, req)]
          /\ shown' = [shown EXCEPT ![b] = <<req, "PREFIRE">>] /\ landed' = [landed EXCEPT ![b] = 0]
          /\ req # "Walk"
      BY <1>6, <2>1, <2>4 DEF RequestAttack
    <3>2. Committed(b, s, req) \in StamEntry
      BY <2>3, <3>1, Costs, Positive DEF Committed, StamEntry, CombatInv, SwingPhases
    <3>3. landed[b] = 1 /\ pending[b] = NoState
      BY <2>3, <2>4, Entries DEF CanCommit, SwingOf
    <3>4. SwingOf(b, Committed(b, s, req), pending[b], <<req, "PREFIRE">>, 0)
      BY <1>1, <3>2, <3>3, Entries, Positive DEF SwingOf, Committed
    <3> QED
      BY <1>1, <3>1, <3>3, <3>4 DEF CombatInv, SwingOf
  <2>5. CASE ~CanCommit(b, s)
    <3>1. stam' = [stam EXCEPT ![b] = s] /\ UNCHANGED <<shown, landed>>
      BY <1>6, <2>1, <2>5 DEF RequestAttack
    <3> QED
      BY <1>1, <2>3, <3>1 DEF CombatInv, SwingOf
  <2> QED
    BY <2>4, <2>5
<1> QED
  BY <1>1, <1>2, <1>4, <1>5, <1>6 DEF OnSetAnimation, DropWhileLocked, RestWhileWinded, RequestOther, CombatInv

\* What a frame makes of an entry.
LEMMA Advances ==
  ASSUME weapon \in [Bandits -> Damages], NEW b \in Bandits, NEW s \in StamEntry, NEW d \in 1..FrameGap,
         NEW t, t = Advanced(b, s, d)
  PROVE  /\ t \in StamEntry /\ t.type = s.type /\ t.phase = PhaseAfter(s, s.age + d)
         /\ t.age = IF t.phase # s.phase \/ t.phase = "NONE" THEN 0 ELSE s.age + d
         /\ t.lock = IF s.lock > d THEN s.lock - d ELSE 0
<1>1. d \in Nat /\ s.stamina \in Int /\ s.age \in Nat /\ s.swingAge \in Nat /\ s.lock \in Nat
      /\ s.type \in Requests \ {"Walk"} /\ s.phase \in SwingPhases
  BY Positive DEF StamEntry
<1>2. Regen * d \in Int
  BY <1>1, Positive
<1>3. Rested(s, d) \in Int
  BY <1>1, <1>2, Positive DEF Rested, Least
<1>4. PhaseAfter(s, s.age + d) \in SwingPhases
  BY <1>1 DEF PhaseAfter, SwingPhases
<1>5. (s.winded /\ ~CaughtBreath(b, Rested(s, d))) \in BOOLEAN
  BY DEF StamEntry
<1>6. Least(AttackTotal, s.swingAge + d) \in Nat
  BY <1>1, Positive DEF Least
<1> QED
  BY <1>1, <1>3, <1>4, <1>5, <1>6 DEF Advanced, StamEntry

\* What a frame makes of one bandit: t of its entry, q of its queued hit before it is
\* drained, g of its figure.
Turns(s, t) == s # NoState /\ s.phase # t.phase /\ t.phase \in {"FIRE", "RECOIL"}

FrameOf(b, d, s, p, f, t, q, g) ==
  /\ t = IF s = NoState THEN NoState ELSE Advanced(b, s, d)
  /\ q = IF s # NoState /\ s.phase # "FIRE" /\ t.phase = "FIRE" THEN Contact
         ELSE IF p = NoState THEN NoState ELSE IF p > d THEN p - d ELSE 0
  /\ g = IF Turns(s, t) THEN <<t.type, t.phase>> ELSE f

\* A queued hit lands inside FIRE.
LEMMA InFrame ==
  ASSUME ShortFrames, weapon \in [Bandits -> Damages], NEW d \in 1..FrameGap, NEW b \in Bandits,
         NEW s, NEW t, NEW p, NEW q, NEW f, NEW g, NEW n,
         SwingOf(b, s, p, f, n), FrameOf(b, d, s, p, f, t, q, g)
  PROVE  /\ q = 0 => t # NoState /\ n = 0 /\ g = <<t.type, "FIRE">>
                     /\ SwingOf(b, t, NoState, g, n + 1)
         /\ q # 0 => SwingOf(b, t, q, g, n)
         /\ g[2] = "PREFIRE" => f[2] = "PREFIRE"
<1>1. CASE s = NoState
  BY <1>1, CombatAssumption DEF SwingOf, FrameOf, Turns
<1>2. CASE s # NoState
  <2>1. s \in StamEntry /\ s.age \in Nat /\ s.lock \in Nat /\ s.phase \in SwingPhases /\ b \in alive
    BY <1>2 DEF SwingOf, StamEntry
  <2>2. /\ t \in StamEntry /\ t # NoState /\ t.type = s.type /\ t.phase = PhaseAfter(s, s.age + d)
        /\ t.age = IF t.phase # s.phase \/ t.phase = "NONE" THEN 0 ELSE s.age + d
        /\ t.lock = IF s.lock > d THEN s.lock - d ELSE 0
    BY <1>2, <2>1, Advances, Entries DEF FrameOf
  <2>3. d \in Nat /\ d > 0 /\ d <= FrameGap /\ 0 # NoState /\ Contact # NoState /\ Contact # 0
    BY Positive, CombatAssumption
  <2>4. CASE s.phase = "PREFIRE" /\ s.age + d >= Prefire
    <3>1. t.phase = "FIRE" /\ Turns(s, t) /\ q = Contact /\ g = <<t.type, "FIRE">> /\ t.age = 0
      BY <1>2, <2>2, <2>4 DEF PhaseAfter, Turns, FrameOf
    <3>2. n = 0 /\ p = NoState /\ s.age < Prefire /\ s.lock = AttackTotal - s.age
      BY <1>2, <2>4 DEF SwingOf
    <3>3. t.lock = AttackTotal - s.age - d
      BY <2>1, <2>2, <2>3, <3>2, Positive DEF ShortFrames
    <3>4. t.lock + t.age > Fire + Recoil - FrameGap
      BY <2>1, <2>3, <3>1, <3>2, <3>3, Positive
    <3> QED
      BY <2>1, <2>2, <2>3, <3>1, <3>2, <3>4, Positive DEF SwingOf
  <2>5. CASE s.phase = "PREFIRE" /\ ~(s.age + d >= Prefire)
    <3>1. t.phase = "PREFIRE" /\ ~Turns(s, t) /\ t.age = s.age + d /\ g = f
      BY <1>2, <2>2, <2>5 DEF PhaseAfter, Turns, FrameOf
    <3>2. n = 0 /\ p = NoState /\ s.age < Prefire /\ s.lock = AttackTotal - s.age /\ f = <<s.type, "PREFIRE">>
      BY <1>2, <2>5 DEF SwingOf
    <3>3. q = NoState
      BY <3>1, <3>2 DEF FrameOf
    <3>4. t.lock = AttackTotal - t.age /\ t.age < Prefire
      BY <2>1, <2>2, <2>3, <2>5, <3>1, <3>2, Positive
    <3> QED
      BY <2>1, <2>2, <2>3, <3>1, <3>2, <3>3, <3>4 DEF SwingOf
  <2>6. CASE s.phase = "FIRE" /\ p # NoState
    <3>1. /\ n = 0 /\ f = <<s.type, "FIRE">> /\ p \in Nat /\ p > 0 /\ p = Contact - s.age
          /\ s.lock + s.age > Fire + Recoil - FrameGap
      BY <1>2, <2>6 DEF SwingOf
    <3>2. ~(s.age + d >= Fire)
      BY <2>1, <2>3, <3>1, Positive DEF ShortFrames
    <3>3. t.phase = "FIRE" /\ ~Turns(s, t) /\ t.age = s.age + d /\ g = f
      BY <1>2, <2>2, <2>6, <3>2 DEF PhaseAfter, Turns, FrameOf
    <3>4. q = IF p > d THEN p - d ELSE 0
      BY <2>6, <3>3 DEF FrameOf
    <3>5. t.lock + t.age > Fire + Recoil - FrameGap
      BY <2>1, <2>2, <2>3, <3>1, <3>2, <3>3, Positive DEF ShortFrames
    <3>6. CASE p > d
      <4>1. q \in Nat /\ q # 0 /\ q = Contact - t.age
        BY <2>1, <2>3, <3>1, <3>3, <3>4, <3>6, Positive
      <4>2. t.phase = "FIRE" /\ g = <<t.type, "FIRE">> /\ g[2] # "PREFIRE"
        BY <2>2, <3>1, <3>3
      <4>3. SwingOf(b, t, q, g, n)
        BY <2>1, <2>2, <3>1, <3>5, <4>1, <4>2, CombatAssumption DEF SwingOf
      <4> QED
        BY <4>1, <4>2, <4>3
    <3>7. CASE ~(p > d)
      BY <2>1, <2>2, <2>3, <3>1, <3>3, <3>4, <3>7 DEF SwingOf
    <3> QED
      BY <3>6, <3>7
  <2>7. CASE s.phase \in {"RECOIL", "NONE"} \/ (s.phase = "FIRE" /\ p = NoState)
    <3>1. p = NoState /\ n = 1
      BY <1>2, <2>7 DEF SwingOf
    <3>2. t.phase \in {"RECOIL", "NONE"} \/ (t.phase = "FIRE" /\ s.phase = "FIRE")
      BY <2>2, <2>7 DEF PhaseAfter, Turns, FrameOf
    <3>3. q = NoState
      BY <3>1, <3>2 DEF FrameOf
    <3> QED
      BY <1>2, <2>1, <2>2, <2>3, <3>1, <3>2, <3>3 DEF SwingOf, FrameOf, Turns
  <2> QED
    BY <2>1, <2>4, <2>5, <2>6, <2>7 DEF SwingPhases
<1> QED
  BY <1>1, <1>2

LEMMA Frames ==
  ASSUME EnoughRoom, ShortFrames, CombatInv, NEW d \in 1..FrameGap, OnHitTick(d)
  PROVE  /\ CombatInv'
         /\ \A b \in Bandits : landed'[b] \in {landed[b], 1}
         /\ \A b \in Bandits : shown'[b][2] = "PREFIRE" => shown[b][2] = "PREFIRE"
<1> DEFINE new    == [b \in Bandits |-> IF stam[b] = NoState THEN NoState ELSE Advanced(b, stam[b], d)]
           turned == {b \in Bandits : Enters(b, new, "FIRE") \/ Enters(b, new, "RECOIL")}
           queue  == [b \in Bandits |->
                       IF Enters(b, new, "FIRE") THEN Contact
                       ELSE IF pending[b] = NoState THEN NoState
                       ELSE IF pending[b] > d THEN pending[b] - d ELSE 0]
           hits   == {b \in Bandits : queue[b] = 0}
<1>1. /\ stam' = new /\ UNCHANGED <<alive, weapon>>
      /\ \E plays \in UpTo(PlayCap, turned) :
           shown' = [b \in Bandits |-> IF b \in plays THEN <<new[b].type, new[b].phase>> ELSE shown[b]]
      /\ \E due \in UpTo(DueCap, hits) :
           /\ pending' = Drained(queue, due)
           /\ struck' = {b \in due : weapon[b] # NoWeapon}
           /\ landed' = [b \in Bandits |-> IF b \in due THEN landed[b] + 1 ELSE landed[b]]
  BY DEF OnHitTick
<1>2. shown' = [b \in Bandits |-> IF b \in turned THEN <<new[b].type, new[b].phase>> ELSE shown[b]]
  <2>1. turned \subseteq Bandits
    OBVIOUS
  <2> HIDE DEF turned, new
  <2> QED
    BY <1>1, <2>1, Everybody, Positive DEF EnoughRoom
<1>3. /\ pending' = Drained(queue, hits)
      /\ struck' = {b \in hits : weapon[b] # NoWeapon}
      /\ landed' = [b \in Bandits |-> IF b \in hits THEN landed[b] + 1 ELSE landed[b]]
  <2>1. hits \subseteq Bandits
    OBVIOUS
  <2> HIDE DEF hits, queue
  <2> QED
    BY <1>1, <2>1, Everybody, Positive DEF EnoughRoom
<1>4. ASSUME NEW b \in Bandits
      PROVE  /\ SwingOf(b, stam'[b], pending'[b], shown'[b], landed'[b])
             /\ landed'[b] \in {landed[b], 1}
             /\ shown'[b][2] = "PREFIRE" => shown[b][2] = "PREFIRE"
             /\ b \in hits => shown'[b] = <<stam'[b].type, "FIRE">>
  <2>1. PICK s, p, f, n : s = stam[b] /\ p = pending[b] /\ f = shown[b] /\ n = landed[b]
    OBVIOUS
  <2>2. PICK t : t = new[b] /\ t = IF s = NoState THEN NoState ELSE Advanced(b, s, d)
    BY <2>1
  <2>4. Turns(s, t) <=> b \in turned
    <3> HIDE DEF new
    <3> QED
      BY <2>1, <2>2 DEF Enters, Turns
  <2>5. PICK q : q = queue[b] /\ q = IF s # NoState /\ s.phase # "FIRE" /\ t.phase = "FIRE" THEN Contact
                     ELSE IF p = NoState THEN NoState ELSE IF p > d THEN p - d ELSE 0
    <3> HIDE DEF new
    <3> QED
      BY <2>1, <2>2 DEF Enters
  <2>6. PICK g : g = shown'[b] /\ g = IF Turns(s, t) THEN <<t.type, t.phase>> ELSE f
    <3> HIDE DEF new, turned
    <3> QED
      BY <1>2, <2>1, <2>2, <2>4
  <2>7. SwingOf(b, s, p, f, n)
    BY <2>1 DEF CombatInv
  <2>8. /\ q = 0 => t # NoState /\ n = 0 /\ g = <<t.type, "FIRE">> /\ SwingOf(b, t, NoState, g, n + 1)
        /\ q # 0 => SwingOf(b, t, q, g, n)
        /\ g[2] = "PREFIRE" => f[2] = "PREFIRE"
    <3>1. weapon \in [Bandits -> Damages]
      BY DEF CombatInv
    <3>2. FrameOf(b, d, s, p, f, t, q, g)
      BY <2>2, <2>5, <2>6 DEF FrameOf
    <3> HIDE DEF new, turned, queue, hits
    <3> QED
      BY <2>7, <3>1, <3>2, InFrame
  <2>9. /\ b \in hits <=> q = 0
        /\ stam'[b] = t /\ pending'[b] = (IF q = 0 THEN NoState ELSE q)
        /\ landed'[b] = IF q = 0 THEN n + 1 ELSE n
    <3>1. b \in hits <=> q = 0
      <4> HIDE DEF queue
      <4> QED
        BY <2>5
    <3> HIDE DEF new, hits, queue
    <3> QED
      BY <1>1, <1>3, <2>1, <2>2, <2>5, <3>1 DEF Drained
  <2> HIDE DEF hits
  <2> QED
    BY <2>1, <2>6, <2>8, <2>9 DEF SwingOf
<1>5. HitIsSeen'
  <2>1. struck' \subseteq hits /\ hits \subseteq Bandits
    BY <1>3
  <2> HIDE DEF hits
  <2> QED
    BY <1>4, <2>1 DEF HitIsSeen
<1>6. /\ DOMAIN stam' = Bandits /\ DOMAIN pending' = Bandits /\ DOMAIN shown' = Bandits
      /\ DOMAIN landed' = Bandits
  BY <1>1, <1>2, <1>3 DEF Drained
<1>7. \A b \in Bandits : SwingOf(b, stam[b], pending[b], shown[b], landed[b])'
  <2> HIDE DEF hits
  <2> QED
    BY <1>1, <1>4 DEF SwingOf
<1> HIDE DEF new, turned, queue, hits
<1> QED
  BY <1>1, <1>4, <1>5, <1>6, <1>7 DEF CombatInv

LEMMA CombatStep ==
  ASSUME EnoughRoom, ShortFrames, CombatInv, [CombatNext]_combatVars
  PROVE  /\ CombatInv'
         /\ \A b \in Bandits : landed'[b] = landed[b] \/ landed'[b] \in {0, 1}
         /\ \A b \in Bandits : shown'[b][2] = "PREFIRE" /\ shown[b][2] # "PREFIRE" => landed[b] = 1
<1>1. ASSUME NEW b \in Bandits, Forget(b)
      PROVE  CombatInv' /\ UNCHANGED <<shown, landed>>
  BY <1>1 DEF Forget, CombatInv, SwingOf, HitIsSeen
<1>2. CASE UNCHANGED combatVars
  BY <1>2 DEF combatVars, CombatInv, SwingOf, HitIsSeen
<1> QED
  BY <1>1, <1>2, Asks, Frames DEF CombatNext, CombatFrame

LEMMA CombatInvHolds ==
  ASSUME EnoughRoom, ShortFrames
  PROVE  CombatSpec => []CombatInv
<1>1. CombatInit => CombatInv
  BY DEF CombatInit, CombatInv, SwingOf, HitIsSeen
<1>2. CombatInv /\ [CombatNext]_combatVars => CombatInv'
  BY CombatStep
<1> QED
  BY <1>1, <1>2, PTL DEF CombatSpec

\* HitIsSeen, for as many bandits as due[] and plays[] have room for, and any
\* lengths of the phases whose FIRE outlasts the contact by a frame: a hit lands
\* while the strike it belongs to is shown (hook_setanimation.cpp).
THEOREM HitsSeen ==
  ASSUME EnoughRoom, ShortFrames
  PROVE  CombatSpec => []HitIsSeen
<1>1. CombatInv => HitIsSeen
  BY DEF CombatInv
<1> QED
  BY <1>1, CombatInvHolds, PTL

\* OneHitPerSwing, under the same conditions: a swing that was committed hits
\* once, and the next one is not committed before it has.
THEOREM OneHit ==
  ASSUME EnoughRoom, ShortFrames
  PROVE  CombatSpec => OneHitPerSwing
<1>1. CombatInv /\ [CombatNext]_combatVars =>
        [\A b \in Bandits :
           /\ landed'[b] <= 1
           /\ shown'[b][2] = "PREFIRE" /\ shown[b][2] # "PREFIRE" => landed[b] = 1]_combatVars
  <2> SUFFICES ASSUME CombatInv, [CombatNext]_combatVars, NEW b \in Bandits
               PROVE  /\ landed'[b] <= 1
                      /\ shown'[b][2] = "PREFIRE" /\ shown[b][2] # "PREFIRE" => landed[b] = 1
    OBVIOUS
  <2>1. landed'[b] \in {0, 1}
    BY CombatStep DEF CombatInv
  <2> QED
    BY <2>1, CombatStep
<1> QED
  BY <1>1, CombatInvHolds, PTL DEF CombatSpec, OneHitPerSwing

-----------------------------------------------------------------------------
(* The tombs.                                                               *)

Row == [tomb : Tombs, item : AllGear]

LootType ==
  [armed : BOOLEAN, snapshot : SUBSET AllGear, opened : SUBSET Tombs,
   memory : [Tombs -> SUBSET AllGear], freshest : Tombs \cup {NoTomb},
   writes : Seq(SUBSET Row), reloads : Nat, unlucky : SUBSET Corpses]

\* The one statement that puts items into a tomb.
Statement(items, t) == {[tomb |-> t, item |-> i] : i \in items}

\* The rows of bandit b, committed or in the statements of queue.
PlacedBy(queue) == rows \cup UNION {queue[i] : i \in 1..Len(queue)}
Sent(queue, b) == {r \in PlacedBy(queue) : r.item.of = b}

\* Of each bandit's gear, items holds all that hd says or nothing.
Whole(items, hd) == \A b \in Corpses : {i \in items : i.of = b} \in {{}, hd[b]}

\* A dead bandit that was not overtaken: while its tomb is not loaded, the fill
\* is armed with its gear and none of it is placed; then all of it is, in its
\* own tomb, and none is left to place.
Own(l, hd, b) ==
  /\ b \notin l.opened =>
       l.armed /\ (hd[b] = {} \/ l.snapshot = hd[b]) /\ Sent(l.writes, b) = {}
  /\ b \in l.opened \ l.unlucky =>
       Sent(l.writes, b) = Statement(hd[b], b) /\ \A i \in l.snapshot : i.of # b

\* What a snapshot and a statement can be.
Gears(l, hd, lf) ==
  /\ l.snapshot = {} \/ \E b \in Corpses : lf[b] = "tomb" /\ l.snapshot = hd[b]
  /\ \A n \in 1..Len(l.writes) : \E t \in Tombs, b \in Corpses :
       lf[b] = "tomb" /\ l.writes[n] = Statement(hd[b], t)

\* What the tables hold about the dead, with their lives lf, the overtaken ot.
LootInv(l, hd, lf, ot) ==
  /\ l \in LootType
  /\ l.freshest \in l.opened \cup {NoTomb}
  /\ \A t \in l.opened \cap Corpses : lf[t] = "tomb"
  /\ \A t \in Tombs : Whole(l.memory[t], hd)
  /\ Gears(l, hd, lf)
  /\ \A b \in Corpses : lf[b] = "tomb" /\ b \notin ot => Own(l, hd, b)

\* The dead keep what they wore, and the rows of a tomb hold whole gears.
DeadInv(hd, lf) ==
  /\ rows \subseteq Row
  /\ hd \in [Tombs -> SUBSET AllGear]
  /\ \A t \in Tombs : hd[t] # {} => t \in Corpses /\ lf[t] = "tomb"
  /\ \A t \in Tombs : \A i \in hd[t] : i.of = t
  /\ \A t \in Tombs : Whole(RowsOf(t), hd)

Lives == {"unborn", "alive", "carcass", "tomb"}

GravesInv ==
  /\ life \in [Corpses -> Lives] /\ worn \in [Corpses -> SUBSET AllGear]
  /\ \A b \in Corpses : \A i \in worn[b] : i.of = b
  /\ DeadInv(had, life)
  /\ LootInv(Loot, had, life, overtaken)

LEMMA WholeUnion ==
  ASSUME NEW hd, NEW s, NEW u, Whole(s, hd), Whole(u, hd)
  PROVE  Whole(s \cup u, hd)
<1> SUFFICES ASSUME NEW b \in Corpses PROVE {i \in s \cup u : i.of = b} \in {{}, hd[b]}
  BY DEF Whole
<1>1. {i \in s \cup u : i.of = b} = {i \in s : i.of = b} \cup {i \in u : i.of = b}
  OBVIOUS
<1> QED
  BY <1>1 DEF Whole

\* A container is read from the database.
LEMMA Reads ==
  ASSUME NEW hd, NEW lf, DeadInv(hd, lf), NEW l, NEW ot, LootInv(l, hd, lf, ot), NEW t \in Tombs,
         NEW m, m = [l.memory EXCEPT ![t] = l.memory[t] \cup RowsOf(t)]
  PROVE  m \in [Tombs -> SUBSET AllGear] /\ \A u \in Tombs : Whole(m[u], hd)
<1>1. l.memory \in [Tombs -> SUBSET AllGear] /\ \A u \in Tombs : Whole(l.memory[u], hd)
  BY DEF LootInv, LootType
<1>2. RowsOf(t) \in SUBSET AllGear /\ Whole(RowsOf(t), hd)
  BY DEF DeadInv, RowsOf, Row
<1>3. Whole(l.memory[t] \cup RowsOf(t), hd)
  BY <1>1, <1>2, WholeUnion
<1>4. m \in [Tombs -> SUBSET AllGear]
  BY <1>1, <1>2
<1>5. ASSUME NEW u \in Tombs PROVE Whole(m[u], hd)
  <2>1. m[u] = IF u = t THEN l.memory[t] \cup RowsOf(t) ELSE l.memory[u]
    BY <1>1
  <2> QED
    BY <1>1, <1>3, <2>1
<1> QED
  BY <1>4, <1>5

\* The tables are as they were computed, and the database is as it was.
LEMMA Keeps ==
  ASSUME NEW hd, NEW lf, DeadInv(hd, lf), NEW l, NEW ot, LootInv(l, hd, lf, ot),
         rows' = rows, had' = hd, life' = lf, Loot' = l, overtaken' = ot
  PROVE  DeadInv(had, life)' /\ LootInv(Loot, had, life, overtaken)'
<1>1. \A t : RowsOf(t)' = RowsOf(t)
  BY DEF RowsOf
<1>2. DeadInv(had, life)'
  BY <1>1 DEF DeadInv, Whole
<1>3. LootInv(Loot, had, life, overtaken)'
  <2>1. \A b : Own(Loot, had, b)' <=> Own(l, hd, b)
    BY DEF Own, Sent, PlacedBy
  <2> QED
    BY <2>1 DEF LootInv, Gears, Whole
<1> QED
  BY <1>2, <1>3

LEMMA Reloads ==
  ASSUME NEW hd, NEW lf, DeadInv(hd, lf), NEW l, NEW ot, LootInv(l, hd, lf, ot)
  PROVE  LootInv(ReloadFreshest(l), hd, lf, ot)
<1>1. CASE l.freshest = NoTomb
  BY <1>1 DEF ReloadFreshest
<1>2. CASE l.freshest # NoTomb
  <2>1. PICK f \in Tombs : f = l.freshest /\ f \in l.opened
    BY <1>2 DEF LootInv, LootType
  <2>2. PICK m : m = [l.memory EXCEPT ![f] = l.memory[f] \cup RowsOf(f)]
    OBVIOUS
  <2>3. m \in [Tombs -> SUBSET AllGear] /\ \A t \in Tombs : Whole(m[t], hd)
    BY <2>2, Reads
  <2>4. PICK k : k = [l EXCEPT !.opened = l.opened \cup {f}, !.memory = m, !.freshest = f]
    OBVIOUS
  <2>5. l \in LootType /\ l.opened \cup {f} = l.opened /\ l.opened \in SUBSET Tombs
    BY <2>1 DEF LootInv, LootType
  <2>6. /\ k \in LootType /\ k.opened = l.opened /\ k.memory = m /\ k.freshest = l.freshest
        /\ k.armed = l.armed /\ k.snapshot = l.snapshot /\ k.writes = l.writes
        /\ k.reloads = l.reloads /\ k.unlucky = l.unlucky
    <3>1. PICK o \in SUBSET Tombs : o = l.opened /\ o = l.opened \cup {f}
      BY <2>5
    <3>2. k = [l EXCEPT !.opened = o, !.memory = m, !.freshest = f]
      BY <2>4, <3>1
    <3>3. /\ k \in LootType /\ k.opened = o /\ k.memory = m /\ k.freshest = f
          /\ k.armed = l.armed /\ k.snapshot = l.snapshot /\ k.writes = l.writes
          /\ k.reloads = l.reloads /\ k.unlucky = l.unlucky
      BY <2>3, <2>5, <3>2 DEF LootType
    <3> QED
      BY <2>1, <3>1, <3>3
  <2>7. ReloadFreshest(l) = k
    <3>1. ReloadFreshest(l) = [l EXCEPT !.opened = @ \cup {f}, !.memory[f] = @ \cup RowsOf(f)]
      BY <1>2, <2>1 DEF ReloadFreshest
    <3>2. [l EXCEPT !.opened = @ \cup {f}, !.memory[f] = @ \cup RowsOf(f)]
            = [l EXCEPT !.opened = l.opened \cup {f}, !.memory = [l.memory EXCEPT ![f] = @ \cup RowsOf(f)]]
      OBVIOUS
    <3>3. [l EXCEPT !.opened = l.opened \cup {f}, !.memory = m]
            = [l EXCEPT !.opened = l.opened \cup {f}, !.memory = m, !.freshest = f]
      BY <2>1, <2>5 DEF LootType
    <3>4. [l.memory EXCEPT ![f] = @ \cup RowsOf(f)] = m
      BY <2>2
    <3> QED
      BY <2>4, <3>1, <3>2, <3>3, <3>4
  <2>8. \A b : Own(l, hd, b) => Own(k, hd, b)
    BY <2>6 DEF Own
  <2>9. Gears(k, hd, lf)
    BY <2>6 DEF LootInv, Gears
  <2> QED
    BY <2>3, <2>6, <2>7, <2>8, <2>9 DEF LootInv
<1> QED
  BY <1>1, <1>2

\* A statement that joins the queue places its rows.
LEMMA Queued ==
  ASSUME NEW q \in Seq(SUBSET Row), NEW s \in SUBSET Row, NEW b
  PROVE  Sent(Append(q, s), b) = Sent(q, b) \cup {r \in s : r.item.of = b}
<1> DEFINE w == Append(q, s)
<1>1. /\ Len(w) = Len(q) + 1 /\ Len(q) \in Nat /\ w[Len(w)] = s
      /\ \A i \in 1..Len(q) : w[i] = q[i]
  OBVIOUS
<1>2. /\ \A i \in 1..Len(w) : i \in 1..Len(q) \/ i = Len(w)
      /\ \A i \in 1..Len(q) : i \in 1..Len(w)
      /\ Len(w) \in 1..Len(w)
  <2> HIDE DEF w
  <2> QED
    BY <1>1
<1>3. PlacedBy(w) = PlacedBy(q) \cup s
  <2> HIDE DEF w
  <2> QED
    BY <1>1, <1>2 DEF PlacedBy
<1> QED
  BY <1>3 DEF Sent

\* The gear of a bandit that is not dead is nowhere.
LEMMA Unplaced ==
  ASSUME NEW hd, NEW lf, DeadInv(hd, lf), NEW l, NEW ot, LootInv(l, hd, lf, ot),
         NEW b \in Corpses, lf[b] # "tomb"
  PROVE  Sent(l.writes, b) = {}
<1>1. b \in Tombs /\ hd[b] = {}
  BY DEF Tombs, DeadInv
<1>2. \A r \in rows : r.item.of # b
  <2> SUFFICES ASSUME NEW r \in rows, r.item.of = b PROVE FALSE
    OBVIOUS
  <2>1. r.tomb \in Tombs /\ r.item \in RowsOf(r.tomb)
    BY DEF DeadInv, Row, RowsOf
  <2>2. {i \in RowsOf(r.tomb) : i.of = b} = {}
    BY <1>1, <2>1 DEF DeadInv, Whole
  <2> QED
    BY <2>1, <2>2
<1>3. ASSUME NEW n \in 1..Len(l.writes), NEW r \in l.writes[n] PROVE r.item.of # b
  <2>1. PICK t \in Tombs, c \in Corpses : lf[c] = "tomb" /\ l.writes[n] = Statement(hd[c], t)
    BY DEF LootInv, Gears
  <2>2. r.item \in hd[c]
    BY <2>1 DEF Statement
  <2> QED
    BY <2>1, <2>2 DEF DeadInv, Tombs
<1> QED
  BY <1>2, <1>3 DEF Sent, PlacedBy

\* The load of a container, which no dead but its own and the overtaken await.
LEMMA Inits ==
  ASSUME NEW hd, NEW lf, DeadInv(hd, lf), NEW l, NEW ot, LootInv(l, hd, lf, ot), NEW tomb \in Tombs,
         NEW conn \in BOOLEAN, tomb \in Corpses => lf[tomb] = "tomb",
         \A b \in Corpses : lf[b] = "tomb" /\ b \notin l.opened /\ b \notin ot => b = tomb
  PROVE  LootInv(TryInit(l, tomb, conn), hd, lf, ot)
<1>1. l \in LootType /\ l.opened \in SUBSET Tombs /\ l.memory \in [Tombs -> SUBSET AllGear]
      /\ \A t \in Tombs : Whole(l.memory[t], hd)
  BY DEF LootInv, LootType
<1>2. PICK m : /\ m = IF tomb \in l.opened THEN l.memory
                      ELSE [l.memory EXCEPT ![tomb] = l.memory[tomb] \cup RowsOf(tomb)]
               /\ m \in [Tombs -> SUBSET AllGear] /\ \A t \in Tombs : Whole(m[t], hd)
  <2> DEFINE read == [l.memory EXCEPT ![tomb] = l.memory[tomb] \cup RowsOf(tomb)]
  <2>1. read \in [Tombs -> SUBSET AllGear] /\ \A t \in Tombs : Whole(read[t], hd)
    BY Reads
  <2> HIDE DEF read
  <2>2. (IF tomb \in l.opened THEN l.memory ELSE read) \in [Tombs -> SUBSET AllGear]
    BY <1>1, <2>1
  <2>3. \A t \in Tombs : Whole((IF tomb \in l.opened THEN l.memory ELSE read)[t], hd)
    BY <1>1, <2>1
  <2> QED
    BY <2>2, <2>3 DEF read
<1>3. PICK k : k = [l EXCEPT !.opened = l.opened \cup {tomb}, !.memory = m, !.freshest = tomb]
  OBVIOUS
<1>4. /\ k \in LootType /\ k.opened = l.opened \cup {tomb} /\ k.memory = m /\ k.freshest = tomb
      /\ k.armed = l.armed /\ k.snapshot = l.snapshot /\ k.writes = l.writes
      /\ k.reloads = l.reloads /\ k.unlucky = l.unlucky
  <2>1. PICK o \in SUBSET Tombs : o = l.opened \cup {tomb}
    BY <1>1
  <2>2. k = [l EXCEPT !.opened = o, !.memory = m, !.freshest = tomb]
    BY <1>3, <2>1
  <2>3. /\ k \in LootType /\ k.opened = o /\ k.memory = m /\ k.freshest = tomb
        /\ k.armed = l.armed /\ k.snapshot = l.snapshot /\ k.writes = l.writes
        /\ k.reloads = l.reloads /\ k.unlucky = l.unlucky
    BY <1>1, <1>2, <2>2 DEF LootType
  <2> QED
    BY <2>1, <2>3
<1>0. TryInit(l, tomb, conn) = GraveContainerCaptured(k, tomb, conn)
  <2>1. CASE tomb \in l.opened
    <3>1. l.opened \cup {tomb} = l.opened /\ m = l.memory
      BY <1>2, <2>1
    <3>2. k = [l EXCEPT !.freshest = tomb]
      BY <1>1, <1>3, <3>1 DEF LootType
    <3> QED
      BY <2>1, <3>2 DEF TryInit
  <2>2. CASE tomb \notin l.opened
    <3>1. [l EXCEPT !.opened = @ \cup {tomb}, !.memory[tomb] = @ \cup RowsOf(tomb)]
            = [l EXCEPT !.opened = l.opened \cup {tomb}, !.memory = [l.memory EXCEPT ![tomb] = @ \cup RowsOf(tomb)]]
      OBVIOUS
    <3>2. [l.memory EXCEPT ![tomb] = @ \cup RowsOf(tomb)] = m
      BY <1>2, <2>2
    <3>3. [[l EXCEPT !.opened = l.opened \cup {tomb}, !.memory = m] EXCEPT !.freshest = tomb] = k
      BY <1>3
    <3> QED
      BY <2>2, <3>1, <3>2, <3>3 DEF TryInit
  <2> QED
    BY <2>1, <2>2
\* Whatever is filled, it remains to see what becomes of the dead.
<1>7. \A t \in k.opened \cap Corpses : lf[t] = "tomb"
  BY <1>4 DEF LootInv
<1>5. CASE ~l.armed
  <2>1. TryInit(l, tomb, conn) = k
    BY <1>0, <1>4, <1>5 DEF GraveContainerCaptured
  <2>2. \A b \in Corpses : lf[b] = "tomb" /\ b \notin ot => Own(k, hd, b)
    BY <1>4, <1>5 DEF LootInv, Own
  <2>3. Gears(k, hd, lf)
    BY <1>4 DEF LootInv, Gears
  <2>4. k.freshest \in k.opened \cup {NoTomb} /\ \A t \in Tombs : Whole(k.memory[t], hd)
    BY <1>2, <1>4
  <2>5. LootInv(k, hd, lf, ot)
    BY <1>4, <1>7, <2>2, <2>3, <2>4, ZenonT(30) DEF LootInv
  <2> QED
    BY <2>1, <2>5
<1>6. CASE l.armed
  <2>1. PICK snap : snap = l.snapshot
    OBVIOUS
  <2>2. PICK fired : fired = [k EXCEPT !.armed = FALSE]
    OBVIOUS
  <2>3. fired.snapshot = snap /\ fired.writes = l.writes /\ fired.reloads = l.reloads
    BY <1>4, <2>1, <2>2 DEF LootType
  <2>4. PICK taken : taken = [k EXCEPT !.armed = FALSE, !.snapshot = {}] /\ taken = [fired EXCEPT !.snapshot = {}]
    BY <2>2
  <2>5. /\ taken \in LootType /\ taken.armed = FALSE /\ taken.snapshot = {}
        /\ taken.opened = l.opened \cup {tomb} /\ taken.memory = m /\ taken.freshest = tomb
        /\ taken.writes = l.writes /\ taken.reloads = l.reloads /\ taken.unlucky = l.unlucky
    <3>1. taken = [k EXCEPT !.armed = FALSE, !.snapshot = {}] /\ k \in LootType
      BY <1>4, <2>4
    <3>2. /\ taken \in LootType /\ taken.armed = FALSE /\ taken.snapshot = {} /\ taken.opened = k.opened
          /\ taken.memory = k.memory /\ taken.freshest = k.freshest /\ taken.writes = k.writes
          /\ taken.reloads = k.reloads /\ taken.unlucky = k.unlucky
      BY <3>1 DEF LootType
    <3> QED
      BY <1>4, <3>2
  <2>6. TryInit(l, tomb, conn) = InsertMountedLoot(fired, tomb, conn)
    BY <1>0, <1>4, <1>6, <2>2 DEF GraveContainerCaptured
  <2>7. ASSUME NEW b \in Corpses, lf[b] = "tomb", b \notin ot
        PROVE  /\ b \in l.opened \/ b = tomb
               /\ b \in l.opened \ l.unlucky =>
                    Sent(l.writes, b) = Statement(hd[b], b) /\ \A i \in snap : i.of # b
               /\ b \notin l.opened => (hd[b] = {} \/ snap = hd[b]) /\ Sent(l.writes, b) = {}
    <3>1. Own(l, hd, b)
      BY <2>7 DEF LootInv
    <3> QED
      BY <2>1, <2>7, <3>1 DEF Own
  <2>8. Statement({}, tomb) = {} /\ \A b : Statement({}, b) = {}
    BY DEF Statement
  <2>11. snap = {} \/ \E c \in Corpses : lf[c] = "tomb" /\ snap = hd[c]
    BY <2>1 DEF LootInv, Gears
  <2>12. \A c \in Corpses : \A i \in hd[c] : i.of = c
    BY DEF DeadInv, Tombs
  <2>14. \A n \in 1..Len(l.writes) : \E t \in Tombs, b \in Corpses :
           lf[b] = "tomb" /\ l.writes[n] = Statement(hd[b], t)
    BY DEF LootInv, Gears
  <2>13. CASE snap = {}
    <3>1. TryInit(l, tomb, conn) = taken
      BY <2>3, <2>4, <2>6, <2>13 DEF InsertMountedLoot
    <3>2. \A b \in Corpses : lf[b] = "tomb" /\ b \notin ot => Own(taken, hd, b)
      <4> SUFFICES ASSUME NEW b \in Corpses, lf[b] = "tomb", b \notin ot PROVE Own(taken, hd, b)
        OBVIOUS
      <4>1. b \notin l.opened => hd[b] = {}
        BY <2>7, <2>13
      <4> QED
        BY <2>5, <2>7, <2>8, <4>1 DEF Own
    <3>3. Gears(taken, hd, lf)
      BY <2>5, <2>14 DEF Gears
    <3> QED
      BY <1>2, <1>4, <1>7, <2>5, <3>1, <3>2, <3>3 DEF LootInv
  <2>9. CASE snap # {} /\ ~conn
    <3>2. PICK u : u = l.unlucky \cup {i.of : i \in snap} /\ u \in SUBSET Corpses
      <4>1. l.unlucky \in SUBSET Corpses
        BY <1>1 DEF LootType
      <4>2. {i.of : i \in snap} \in SUBSET Corpses
        BY <2>11, <2>12
      <4> QED
        BY <4>1, <4>2
    <3>3. PICK n : n = [taken EXCEPT !.unlucky = u]
      OBVIOUS
    <3>4. TryInit(l, tomb, conn) = n
      BY <2>3, <2>4, <2>5, <2>6, <2>9, <3>2, <3>3 DEF InsertMountedLoot
    <3>5. /\ n \in LootType /\ n.unlucky = u /\ n.armed = FALSE /\ n.snapshot = {}
          /\ n.opened = l.opened \cup {tomb} /\ n.memory = m /\ n.freshest = tomb
          /\ n.writes = l.writes
      <4>1. n = [taken EXCEPT !.unlucky = u] /\ taken \in LootType /\ u \in SUBSET Corpses
        BY <2>5, <3>2, <3>3
      <4>2. /\ n \in LootType /\ n.unlucky = u /\ n.armed = taken.armed /\ n.snapshot = taken.snapshot
            /\ n.opened = taken.opened /\ n.memory = taken.memory /\ n.freshest = taken.freshest
            /\ n.writes = taken.writes
        BY <4>1 DEF LootType
      <4> QED
        BY <2>5, <4>2
    <3>6. \A b \in Corpses : lf[b] = "tomb" /\ b \notin ot => Own(n, hd, b)
      <4> SUFFICES ASSUME NEW b \in Corpses, lf[b] = "tomb", b \notin ot PROVE Own(n, hd, b)
        OBVIOUS
      <4>1. snap = hd[b] => b \in u
        BY <2>9, <2>12, <3>2
      <4>2. b \notin l.opened /\ b \notin u => hd[b] = {}
        BY <2>7, <4>1
      <4> QED
        BY <2>7, <2>8, <3>2, <3>5, <4>2 DEF Own
    <3>7. Gears(n, hd, lf)
      BY <3>5, <2>14 DEF Gears
    <3> QED
      BY <1>2, <1>4, <1>7, <3>4, <3>5, <3>6, <3>7 DEF LootInv
  <2>10. CASE snap # {} /\ conn
    <3>1. PICK w : w = Append(l.writes, Statement(snap, tomb))
      OBVIOUS
    <3>2. l.writes \in Seq(SUBSET Row) /\ Statement(snap, tomb) \in SUBSET Row
      BY <1>1, <2>1 DEF LootType, Statement, Row
    <3>3. /\ w \in Seq(SUBSET Row) /\ Len(w) = Len(l.writes) + 1 /\ Len(l.writes) \in Nat
          /\ w[Len(w)] = Statement(snap, tomb)
          /\ \A i \in 1..Len(l.writes) : w[i] = l.writes[i]
      BY <3>1, <3>2
    <3>4. PICK n : n = [taken EXCEPT !.writes = w, !.reloads = l.reloads + 1]
      OBVIOUS
    <3>5. TryInit(l, tomb, conn) = ReloadFreshest(n)
      <4>1. InsertRows(fired, tomb) = w
        BY <2>3, <3>1 DEF InsertRows, Statement
      <4>2. [taken EXCEPT !.writes = InsertRows(fired, tomb), !.reloads = @ + 1] = n
        BY <2>5, <3>4, <4>1
      <4> QED
        BY <2>3, <2>4, <2>6, <2>10, <4>2 DEF InsertMountedLoot
    <3>6. l.reloads + 1 \in Nat
      BY <1>1 DEF LootType
    <3>7. /\ n \in LootType /\ n.writes = w /\ n.armed = FALSE /\ n.snapshot = {}
          /\ n.opened = l.opened \cup {tomb} /\ n.memory = m /\ n.freshest = tomb
          /\ n.unlucky = l.unlucky
      <4>1. PICK r \in Nat : r = l.reloads + 1
        BY <3>6
      <4>2. n = [taken EXCEPT !.writes = w, !.reloads = r] /\ taken \in LootType /\ w \in Seq(SUBSET Row)
        BY <2>5, <3>3, <3>4, <4>1
      <4>3. /\ n \in LootType /\ n.writes = w /\ n.armed = taken.armed
            /\ n.snapshot = taken.snapshot /\ n.opened = taken.opened /\ n.memory = taken.memory
            /\ n.freshest = taken.freshest /\ n.unlucky = taken.unlucky
        BY <4>2 DEF LootType
      <4> QED
        BY <2>5, <4>3
    <3>8. Gears(n, hd, lf)
      <4>1. \A i \in 1..Len(w) : i \in 1..Len(l.writes) \/ i = Len(w)
        BY <3>3
      <4>2. PICK c \in Corpses : lf[c] = "tomb" /\ snap = hd[c]
        BY <2>10, <2>11
      <4>3. \A i \in 1..Len(w) : \E t \in Tombs, b \in Corpses :
              lf[b] = "tomb" /\ w[i] = Statement(hd[b], t)
        BY <2>14, <3>3, <4>1, <4>2
      <4> QED
        BY <3>7, <4>3 DEF Gears
    <3>9. \A b \in Corpses : lf[b] = "tomb" /\ b \notin ot => Own(n, hd, b)
      <4> SUFFICES ASSUME NEW b \in Corpses, lf[b] = "tomb", b \notin ot PROVE Own(n, hd, b)
        OBVIOUS
      <4>1. Sent(w, b) = Sent(l.writes, b) \cup {r \in Statement(snap, tomb) : r.item.of = b}
        <5>1. \A q \in Seq(SUBSET Row), s \in SUBSET Row :
                Sent(Append(q, s), b) = Sent(q, b) \cup {r \in s : r.item.of = b}
          BY Queued
        <5>2. Sent(Append(l.writes, Statement(snap, tomb)), b)
                = Sent(l.writes, b) \cup {r \in Statement(snap, tomb) : r.item.of = b}
          BY <3>2, <5>1
        <5> QED
          BY <3>1, <5>2
      <4>2. \A r \in Statement(snap, tomb) : r.item \in snap
        BY DEF Statement
      <4>3. CASE b \in l.opened
        <5>1. b \notin l.unlucky => Sent(w, b) = Statement(hd[b], b)
          BY <2>7, <4>1, <4>2, <4>3
        <5> QED
          BY <3>7, <4>3, <5>1 DEF Own
      <4>4. CASE b \notin l.opened
        <5>1. b = tomb /\ Sent(l.writes, b) = {} /\ (hd[b] = {} \/ snap = hd[b])
          BY <2>7, <4>4
        <5>2. {r \in Statement(snap, tomb) : r.item.of = b} = Statement(hd[b], b)
          <6>1. CASE snap = hd[b]
            <7>1. \A r \in Statement(snap, tomb) : r.item.of = b
              BY <2>12, <4>2, <6>1
            <7> QED
              BY <5>1, <6>1, <7>1
          <6>2. CASE snap # hd[b]
            <7>1. PICK c \in Corpses : snap = hd[c]
              BY <2>10, <2>11
            <7>2. \A r \in Statement(snap, tomb) : r.item.of # b
              BY <2>12, <4>2, <6>2, <7>1
            <7>3. hd[b] = {}
              BY <5>1, <6>2
            <7> QED
              BY <2>8, <7>2, <7>3
          <6> QED
            BY <6>1, <6>2
        <5> QED
          BY <3>7, <4>1, <4>4, <5>1, <5>2 DEF Own
      <4> QED
        BY <4>3, <4>4
    <3>10. LootInv(n, hd, lf, ot)
      BY <1>2, <1>4, <1>7, <3>7, <3>8, <3>9 DEF LootInv
    <3> QED
      BY <3>5, <3>10, Reloads
  <2> QED
    BY <2>9, <2>10, <2>13
<1> QED
  BY <1>5, <1>6

-----------------------------------------------------------------------------
LEMMA GearTypes ==
  ASSUME NEW b \in Corpses, NEW types \in SUBSET (Armor \cup {Sword})
  PROVE  Gear(b, types) \subseteq AllGear /\ \A i \in Gear(b, types) : i.of = b
BY DEF Gear, AllGear

\* The tables hold what is set in them.
LEMMA Set ==
  ASSUME NEW l \in LootType, SetLoot(l)
  PROVE  Loot' = l
BY DEF SetLoot, Loot, LootType

LEMMA Dies ==
  ASSUME GravesInv, NEW b \in Corpses, NEW sync \in BOOLEAN, NEW conn \in BOOLEAN,
         DieAsPlayer(b, sync, conn)
  PROVE  GravesInv'
<1> DEFINE l == ArmGraveFill(Loot, b)
<1>1. PICK hd, lf, ot : /\ hd = [had EXCEPT ![b] = worn[b]] /\ lf = [life EXCEPT ![b] = "tomb"]
                        /\ ot = overtaken \cup Waiting /\ overtaken' = ot
                        /\ had' = hd /\ life' = lf /\ life[b] = "alive"
  BY DEF DieAsPlayer
<1>2. /\ b \in Tombs /\ b \notin opened /\ had[b] = {} /\ Sent(writes, b) = {}
      /\ lf \in [Corpses -> Lives] /\ lf[b] = "tomb" /\ \A c \in Corpses : c # b => lf[c] = life[c]
      /\ hd \in [Tombs -> SUBSET AllGear] /\ hd[b] = worn[b] /\ \A t \in Tombs : t # b => hd[t] = had[t]
  <2>1. b \in Tombs /\ b \notin opened /\ had[b] = {}
    BY <1>1 DEF GravesInv, DeadInv, LootInv, Loot, Tombs
  <2>2. Sent(Loot.writes, b) = {}
    BY <1>1, Unplaced DEF GravesInv
  <2> QED
    BY <1>1, <2>1, <2>2 DEF GravesInv, DeadInv, Loot, Lives
<1>3. ASSUME NEW s, Whole(s, had) PROVE Whole(s, hd)
  BY <1>2, <1>3 DEF Whole, Tombs
<1>4. DeadInv(hd, lf)
  <2>1. \A t \in Tombs : hd[t] # {} => t \in Corpses /\ lf[t] = "tomb"
    BY <1>2 DEF GravesInv, DeadInv
  <2>2. \A t \in Tombs : \A i \in hd[t] : i.of = t
    BY <1>2 DEF GravesInv, DeadInv
  <2>3. \A t \in Tombs : Whole(RowsOf(t), hd)
    BY <1>3 DEF GravesInv, DeadInv
  <2> QED
    BY <1>2, <2>1, <2>2, <2>3 DEF DeadInv, GravesInv
<1>5. PICK snap : /\ snap = IF worn[b] = {} THEN snapshot ELSE worn[b]
                  /\ l = [armed |-> TRUE, snapshot |-> snap, opened |-> opened, memory |-> memory,
                          freshest |-> freshest, writes |-> writes, reloads |-> reloads, unlucky |-> unlucky]
  BY DEF ArmGraveFill, Loot
<1>6. LootInv(l, hd, lf, ot)
  <2> HIDE DEF l
  <2>1. /\ l.armed = TRUE /\ l.snapshot = snap /\ l.opened = opened /\ l.memory = memory
        /\ l.freshest = freshest /\ l.writes = writes /\ l.unlucky = unlucky
    BY <1>5
  <2>2. l \in LootType
    <3>1. Loot \in LootType /\ worn[b] \in SUBSET AllGear
      BY DEF GravesInv, LootInv
    <3> QED
      BY <1>5, <3>1 DEF Loot, LootType
  <2>3. freshest \in opened \cup {NoTomb} /\ \A t \in opened \cap Corpses : lf[t] = "tomb"
    BY <1>2 DEF GravesInv, LootInv, Loot
  <2>4. \A t \in Tombs : Whole(memory[t], hd)
    BY <1>3 DEF GravesInv, LootInv, Loot
  <2>5. Gears(l, hd, lf)
    <3>1. /\ snapshot = {} \/ \E c \in Corpses : life[c] = "tomb" /\ snapshot = had[c]
          /\ \A n \in 1..Len(writes) : \E t \in Tombs, c \in Corpses :
               life[c] = "tomb" /\ writes[n] = Statement(had[c], t)
      BY DEF GravesInv, LootInv, Gears, Loot
    <3>2. \A c \in Corpses : life[c] = "tomb" => lf[c] = "tomb" /\ hd[c] = had[c]
      BY <1>1, <1>2 DEF Tombs
    <3>3. snap = {} \/ \E c \in Corpses : lf[c] = "tomb" /\ snap = hd[c]
      BY <1>2, <1>5, <3>1, <3>2
    <3>4. \A n \in 1..Len(writes) : \E t \in Tombs, c \in Corpses :
               lf[c] = "tomb" /\ writes[n] = Statement(hd[c], t)
      BY <3>1, <3>2
    <3> QED
      BY <2>1, <3>3, <3>4 DEF Gears
  <2>6. ASSUME NEW c \in Corpses, lf[c] = "tomb", c \notin ot PROVE Own(l, hd, c)
    <3>1. CASE c = b
      BY <1>2, <1>5, <2>1, <3>1 DEF Own
    <3>2. CASE c # b
      <4>1. life[c] = "tomb" /\ c \in opened /\ c \notin overtaken /\ hd[c] = had[c]
        BY <1>1, <1>2, <2>6, <3>2 DEF Waiting, Tombs
      <4>2. Own(Loot, had, c)
        BY <4>1 DEF GravesInv, LootInv
      <4>3. c \notin unlucky =>
              Sent(writes, c) = Statement(hd[c], c) /\ \A i \in snapshot : i.of # c
        BY <4>1, <4>2 DEF Own, Loot
      <4>4. \A i \in worn[b] : i.of # c
        BY <3>2 DEF GravesInv
      <4> QED
        BY <1>5, <2>1, <4>1, <4>3, <4>4 DEF Own
    <3> QED
      BY <3>1, <3>2
  <2> QED
    BY <2>1, <2>2, <2>3, <2>4, <2>5, <2>6 DEF LootInv
<1>7. PICK k : k = ArmThenTrigger(b, sync, conn) /\ LootInv(k, hd, lf, ot)
  <2>1. \A c \in Corpses : lf[c] = "tomb" /\ c \notin l.opened /\ c \notin ot => c = b
    BY <1>1, <1>2, <1>5 DEF Waiting
  <2>2. ArmThenTrigger(b, sync, conn) \in {l, TryInit(l, b, conn)}
    BY DEF ArmThenTrigger
  <2> HIDE DEF l
  <2> QED
    BY <1>2, <1>4, <1>6, <2>1, <2>2, Inits
<1>8. Loot' = k
  BY <1>7, Set DEF DieAsPlayer, LootInv
<1>9. UNCHANGED rows /\ worn' = [worn EXCEPT ![b] = {}]
  BY DEF DieAsPlayer
<1>10. DeadInv(had, life)' /\ LootInv(Loot, had, life, overtaken)'
  BY <1>1, <1>4, <1>7, <1>8, <1>9, Keeps
<1> QED
  BY <1>1, <1>2, <1>9, <1>10 DEF GravesInv

LEMMA Accesses ==
  ASSUME GravesInv, NEW t \in Tombs, NEW conn \in BOOLEAN, AccessTomb(t, conn)
  PROVE  GravesInv'
<1>1. /\ t \in Corpses => life[t] = "tomb"
      /\ UNCHANGED <<life, worn, rows, had>> /\ SetLoot(TryInit(Loot, t, conn))
  BY GravesAssumption DEF AccessTomb, corpseVars
<1>2. PICK ot : ot = overtaken \cup (Waiting \ {t}) /\ overtaken' = ot
  BY DEF AccessTomb
<1>3. LootInv(Loot, had, life, ot)
  BY <1>2 DEF GravesInv, LootInv
<1>4. \A b \in Corpses : life[b] = "tomb" /\ b \notin Loot.opened /\ b \notin ot => b = t
  BY <1>2 DEF Waiting, Loot
<1>5. LootInv(TryInit(Loot, t, conn), had, life, ot)
  BY <1>1, <1>3, <1>4, Inits DEF GravesInv
<1>6. Loot' = TryInit(Loot, t, conn)
  BY <1>1, <1>5, Set DEF LootInv
<1>7. DeadInv(had, life)' /\ LootInv(Loot, had, life, overtaken)'
  BY <1>1, <1>2, <1>5, <1>6, Keeps DEF GravesInv
<1> QED
  BY <1>1, <1>7 DEF GravesInv

LEMMA Commits ==
  ASSUME GravesInv, CommitWrite
  PROVE  GravesInv'
<1>1. /\ writes # <<>> /\ rows' = rows \cup Head(writes) /\ writes' = Tail(writes)
      /\ UNCHANGED <<life, worn, had, armed, snapshot, opened, memory, freshest, reloads, unlucky, overtaken>>
  BY DEF CommitWrite, corpseVars
<1>2. Loot \in LootType /\ writes \in Seq(SUBSET Row)
  BY DEF GravesInv, LootInv, LootType, Loot
<1>3. /\ Tail(writes) \in Seq(SUBSET Row) /\ Len(writes) \in Nat /\ Len(writes) > 0
      /\ Len(Tail(writes)) = Len(writes) - 1 /\ Head(writes) = writes[1] /\ 1 \in 1..Len(writes)
      /\ \A i \in 1..Len(Tail(writes)) : Tail(writes)[i] = writes[i + 1] /\ i + 1 \in 1..Len(writes)
      /\ \A i \in 1..Len(writes) : i # 1 => i - 1 \in 1..Len(Tail(writes)) /\ writes[i] = Tail(writes)[i - 1]
  BY <1>1, <1>2
<1>4. PICK f \in Tombs, b \in Corpses : Head(writes) = Statement(had[b], f)
  BY <1>3 DEF GravesInv, LootInv, Gears, Loot
<1>5. had[b] \subseteq AllGear /\ \A i \in had[b] : i.of = b
  BY DEF GravesInv, DeadInv, Tombs
<1>6. rows' \subseteq Row
  BY <1>1, <1>4, <1>5 DEF GravesInv, DeadInv, Statement, Row
<1>7. ASSUME NEW t \in Tombs PROVE Whole(RowsOf(t)', had)
  <2>1. RowsOf(t)' = RowsOf(t) \cup {r.item : r \in {x \in Statement(had[b], f) : x.tomb = t}}
    BY <1>1, <1>4 DEF RowsOf
  <2>2. {r.item : r \in {x \in Statement(had[b], f) : x.tomb = t}} = IF t = f THEN had[b] ELSE {}
    <3>1. \A r \in Statement(had[b], f) : r.tomb = f /\ r.item \in had[b]
      BY DEF Statement
    <3>2. \A i \in had[b] : \E r \in Statement(had[b], f) : r.tomb = f /\ r.item = i
      <4>1. \A i \in had[b] : [tomb |-> f, item |-> i] \in Statement(had[b], f)
        BY DEF Statement
      <4> QED
        BY <4>1
    <3> QED
      BY <3>1, <3>2
  <2>3. Whole(had[b], had) /\ Whole({}, had)
    BY <1>5 DEF Whole
  <2>4. Whole(RowsOf(t), had)
    BY DEF GravesInv, DeadInv
  <2> QED
    BY <2>1, <2>2, <2>3, <2>4, WholeUnion
<1>8. DeadInv(had, life)'
  BY <1>1, <1>6, <1>7 DEF GravesInv, DeadInv, Whole
<1>9. PlacedBy(writes)' = PlacedBy(writes)
  <2>1. UNION {writes[i] : i \in 1..Len(writes)}
          = Head(writes) \cup UNION {Tail(writes)[i] : i \in 1..Len(Tail(writes))}
    <3> DEFINE tail == Tail(writes)
    <3>1. /\ Head(writes) = writes[1] /\ 1 \in 1..Len(writes)
          /\ \A i \in 1..Len(tail) : tail[i] = writes[i + 1] /\ i + 1 \in 1..Len(writes)
          /\ \A i \in 1..Len(writes) : i # 1 => i - 1 \in 1..Len(tail) /\ writes[i] = tail[i - 1]
      BY <1>3
    <3> HIDE DEF tail
    <3>2. ASSUME NEW x PROVE (\E i \in 1..Len(writes) : x \in writes[i])
                               <=> x \in Head(writes) \/ \E i \in 1..Len(tail) : x \in tail[i]
      BY <3>1
    <3> QED
      BY <3>2 DEF tail
  <2> QED
    BY <1>1, <2>1 DEF PlacedBy
<1>10. Loot' \in LootType
  <2>1. Loot' = [armed |-> armed, snapshot |-> snapshot, opened |-> opened, memory |-> memory,
                 freshest |-> freshest, writes |-> Tail(writes), reloads |-> reloads, unlucky |-> unlucky]
    BY <1>1 DEF Loot
  <2> QED
    BY <1>2, <1>3, <2>1 DEF Loot, LootType
<1>11. Gears(Loot, had, life)'
  <2>1. \A n \in 1..Len(Tail(writes)) : \E t \in Tombs, c \in Corpses :
          life[c] = "tomb" /\ Tail(writes)[n] = Statement(had[c], t)
    BY <1>3 DEF GravesInv, LootInv, Gears, Loot
  <2> QED
    BY <1>1, <2>1 DEF GravesInv, LootInv, Gears, Loot
<1>12. \A c \in Corpses : Own(Loot, had, c) => Own(Loot, had, c)'
  BY <1>1, <1>9 DEF Own, Sent, Loot
<1>13. LootInv(Loot, had, life, overtaken)'
  <2>1. /\ freshest \in opened \cup {NoTomb} /\ \A t \in Tombs : Whole(memory[t], had)
        /\ \A t \in opened \cap Corpses : life[t] = "tomb"
        /\ \A c \in Corpses : life[c] = "tomb" /\ c \notin overtaken => Own(Loot, had, c)
    BY DEF GravesInv, LootInv, Loot
  <2>2. /\ Loot'.opened = opened /\ Loot'.memory = memory /\ Loot'.freshest = freshest
    BY <1>1 DEF Loot
  <2>3. \A t \in Tombs : Whole(memory[t], had)'
    BY <1>1, <2>1 DEF Whole
  <2> QED
    BY <1>1, <1>10, <1>11, <1>12, <2>1, <2>2, <2>3 DEF LootInv
<1> QED
  BY <1>1, <1>8, <1>13 DEF GravesInv

LEMMA GravesStep ==
  ASSUME GravesInv, [GravesNext]_graveVars
  PROVE  GravesInv'
<1>1. ASSUME UNCHANGED <<rows, had, Loot, overtaken>>, life' \in [Corpses -> Lives],
             worn' \in [Corpses -> SUBSET AllGear], \A b \in Corpses : \A i \in worn'[b] : i.of = b,
             \A b \in Corpses : life'[b] = "tomb" <=> life[b] = "tomb"
      PROVE  GravesInv'
  <2>1. DeadInv(had, life')
    BY <1>1 DEF GravesInv, DeadInv, Tombs
  <2>2. LootInv(Loot, had, life', overtaken)
    BY <1>1 DEF GravesInv, LootInv, Gears
  <2>3. DeadInv(had, life)' /\ LootInv(Loot, had, life, overtaken)'
    BY <1>1, <2>1, <2>2, Keeps
  <2> QED
    BY <1>1, <2>3 DEF GravesInv
<1>2. ASSUME NEW b \in Corpses, NEW types \in SUBSET (Armor \cup {Sword}), worn' = Recorded(b, types)
      PROVE  worn' \in [Corpses -> SUBSET AllGear] /\ \A c \in Corpses : \A i \in worn'[c] : i.of = c
  BY <1>2, GearTypes DEF Recorded, GravesInv
<1>3. ASSUME NEW b \in Corpses, NEW ok \in BOOLEAN, CreateBandit(b, ok) PROVE GravesInv'
  <2>1. /\ UNCHANGED <<rows, had, Loot, overtaken>> /\ life' \in [Corpses -> Lives]
        /\ \A c \in Corpses : life'[c] = "tomb" <=> life[c] = "tomb"
    BY <1>3 DEF CreateBandit, Loot, GravesInv, Lives
  <2>2. worn' = Recorded(b, Armor) \/ worn' = worn
    BY <1>3 DEF CreateBandit
  <2>3. worn' \in [Corpses -> SUBSET AllGear] /\ \A c \in Corpses : \A i \in worn'[c] : i.of = c
    BY <1>2, <2>2 DEF GravesInv
  <2> QED
    BY <1>1, <2>1, <2>3
<1>4. ASSUME NEW b \in Corpses, MountWeaponOnce(b) PROVE GravesInv'
  <2>1. UNCHANGED <<rows, had, Loot, overtaken, life>> /\ worn' = Recorded(b, {Sword})
    BY <1>4 DEF MountWeaponOnce, Loot
  <2>2. worn' \in [Corpses -> SUBSET AllGear] /\ \A c \in Corpses : \A i \in worn'[c] : i.of = c
    BY <1>2, <2>1
  <2>3. life' \in [Corpses -> Lives]
    BY <2>1 DEF GravesInv
  <2> QED
    BY <1>1, <2>1, <2>2, <2>3
<1>5. ASSUME NEW b \in Corpses, DieAsCarcass(b) PROVE GravesInv'
  <2>1. /\ UNCHANGED <<rows, had, Loot, overtaken, worn>> /\ life' \in [Corpses -> Lives]
        /\ \A c \in Corpses : life'[c] = "tomb" <=> life[c] = "tomb"
    BY <1>5 DEF DieAsCarcass, Loot, GravesInv, Lives
  <2>2. worn' \in [Corpses -> SUBSET AllGear] /\ \A c \in Corpses : \A i \in worn'[c] : i.of = c
    BY <2>1 DEF GravesInv
  <2> QED
    BY <1>1, <2>1, <2>2
<1>6. CASE DeferredReload
  <2>1. PICK l : /\ l = [Loot EXCEPT !.reloads = @ - 1] /\ SetLoot(ReloadFreshest(l))
                 /\ UNCHANGED <<life, worn, rows, had, overtaken>> /\ reloads > 0
    BY <1>6 DEF DeferredReload, corpseVars
  <2>2. LootInv(l, had, life, overtaken)
    <3>1. reloads - 1 \in Nat /\ Loot \in LootType
      BY <2>1 DEF GravesInv, LootInv, LootType, Loot
    <3>2. l = [armed |-> armed, snapshot |-> snapshot, opened |-> opened, memory |-> memory,
               freshest |-> freshest, writes |-> writes, reloads |-> reloads - 1, unlucky |-> unlucky]
      BY <2>1 DEF Loot
    <3>3. l \in LootType
      BY <3>1, <3>2 DEF LootType, Loot
    <3> QED
      <4>1. \A b : Own(Loot, had, b) => Own(l, had, b)
        BY <3>2 DEF Own, Loot
      <4>2. Gears(l, had, life)
        BY <3>2 DEF GravesInv, LootInv, Gears, Loot
      <4>3. l.opened = opened /\ l.memory = memory /\ l.freshest = freshest
        BY <3>2
      <4> QED
        BY <3>3, <4>1, <4>2, <4>3 DEF GravesInv, LootInv, Loot
  <2>3. LootInv(ReloadFreshest(l), had, life, overtaken)
    BY <2>2, Reloads DEF GravesInv
  <2>4. Loot' = ReloadFreshest(l)
    BY <2>1, <2>3, Set DEF LootInv
  <2>5. DeadInv(had, life)' /\ LootInv(Loot, had, life, overtaken)'
    BY <2>1, <2>3, <2>4, Keeps DEF GravesInv
  <2> QED
    BY <2>1, <2>5 DEF GravesInv
<1>7. CASE UNCHANGED graveVars
  <2>1. UNCHANGED <<rows, had, Loot, overtaken, worn, life>>
    BY <1>7 DEF graveVars, Loot
  <2>2. /\ life' \in [Corpses -> Lives] /\ worn' \in [Corpses -> SUBSET AllGear]
        /\ \A c \in Corpses : \A i \in worn'[c] : i.of = c
    BY <2>1 DEF GravesInv
  <2> QED
    BY <1>1, <2>1, <2>2
<1> QED
  BY <1>3, <1>4, <1>5, <1>6, <1>7, Dies, Accesses, Commits DEF GravesNext

LEMMA GravesInvHolds == GravesSpec => []GravesInv
<1>1. GravesInit => GravesInv
  <2> SUFFICES ASSUME GravesInit PROVE GravesInv
    OBVIOUS
  <2>1. \A t : RowsOf(t) = {}
    BY DEF GravesInit, RowsOf
  <2>2. /\ life \in [Corpses -> Lives] /\ worn \in [Corpses -> SUBSET AllGear]
        /\ \A b \in Corpses : worn[b] = {} /\ life[b] # "tomb"
        /\ had \in [Tombs -> SUBSET AllGear] /\ \A t \in Tombs : had[t] = {} /\ memory[t] = {}
        /\ memory \in [Tombs -> SUBSET AllGear] /\ writes = <<>> /\ rows = {}
    BY DEF GravesInit, Lives
  <2>3. Whole({}, had)
    BY DEF Whole
  <2>4. DeadInv(had, life)
    BY <2>1, <2>2, <2>3 DEF DeadInv
  <2>5. Loot \in LootType
    <3>1. /\ armed \in BOOLEAN /\ snapshot \in SUBSET AllGear /\ opened \in SUBSET Tombs
          /\ freshest \in Tombs \cup {NoTomb} /\ writes \in Seq(SUBSET Row) /\ reloads \in Nat
          /\ unlucky \in SUBSET Corpses
      <4>1. <<>> \in Seq(SUBSET Row)
        OBVIOUS
      <4> QED
        BY <4>1 DEF GravesInit
    <3> QED
      BY <2>2, <3>1 DEF Loot, LootType
  <2>6. LootInv(Loot, had, life, overtaken)
    BY <2>2, <2>3, <2>5 DEF GravesInit, Loot, LootInv, Gears
  <2> QED
    BY <2>2, <2>4, <2>6 DEF GravesInv
<1>2. GravesInv /\ [GravesNext]_graveVars => GravesInv'
  BY GravesStep
<1> QED
  BY <1>1, <1>2, PTL DEF GravesSpec

\* NoPartialTomb, for any bandits and players, however deaths, captures, commits
\* and reloads overlap: of what a bandit wore, a container shows all or nothing
\* (lifx_hostile.cpp writes it as one statement).
THEOREM WholeTombs == GravesSpec => []NoPartialTomb
<1>1. GravesInv => NoPartialTomb
  BY DEF GravesInv, LootInv, Loot, NoPartialTomb, Whole
<1> QED
  BY <1>1, GravesInvHolds, PTL

\* OwnTombFilled, for any bandits and players: only another death or another tomb
\* between a death and the load of its tomb can lead its gear astray.
THEOREM TombsFilled == GravesSpec => []OwnTombFilled
<1>1. GravesInv => OwnTombFilled
  <2> SUFFICES ASSUME GravesInv, NEW b \in (opened \cap Corpses) \ (unlucky \cup overtaken)
               PROVE  had[b] \subseteq Content(b) /\ \A r \in Placed : r.item.of = b => r.tomb = b
    BY DEF OwnTombFilled
  <2>1. life[b] = "tomb" /\ Own(Loot, had, b)
    BY DEF GravesInv, LootInv, Loot
  <2>2. {r \in Placed : r.item.of = b} = Statement(had[b], b)
    BY <2>1 DEF Own, Loot, Sent, PlacedBy, Placed
  <2>3. \A r \in Placed : r.item.of = b => r.tomb = b
    BY <2>2 DEF Statement
  <2>4. \A i \in had[b] : \E r \in Placed : r.tomb = b /\ r.item = i
    <3>1. \A i \in had[b] : [tomb |-> b, item |-> i] \in Statement(had[b], b)
      BY DEF Statement
    <3> QED
      BY <2>2, <3>1
  <2> QED
    BY <2>3, <2>4 DEF Content
<1> QED
  BY <1>1, GravesInvHolds, PTL
=============================================================================
