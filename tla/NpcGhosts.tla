----------------------------- MODULE NpcGhosts -----------------------------
(***************************************************************************)
(* The decorative NPCs and the animals on their way to the clients: managed  *)
(* spawn nodes and re-scoping (api/lifx_hostile.cpp), the equipment block    *)
(* the server appends to ghost updates (hook_npcdec_pack.cpp) and the client *)
(* that reads it and skins the ghost (client/hook_equip_unpack.cpp).  Every  *)
(* table of the code is keyed by the address of an object, and the engine    *)
(* reuses addresses.                                                         *)
(***************************************************************************)
EXTENDS Integers, Sequences, FiniteSets

CONSTANTS
  Addrs,       \* addresses of objects in the server
  Players,     \* the clients that may connect
  Nodes,       \* the managed spawn nodes
  NodeLoadout, \* the loadout each node is registered with
  NoNode

Plate == 0                \* the default loadout
Bare  == -1               \* a ghost no loadout was applied to; no entry in a table
Loadouts == {Plate} \cup {NodeLoadout[n] : n \in Nodes}

ASSUME GhostsAssumption == NodeLoadout \in [Nodes -> Nat] /\ NoNode \notin Nodes

VARIABLES
  kind,      \* what lives at each address
  nodeOf,    \* the node an NPC was built for
  managed,   \* g_managed
  tracked,   \* g_ghostNpcs
  loadoutAt, \* g_loadouts; Bare without an entry
  hostile,   \* g_hostiles
  scope,     \* the clients each object is ghosted to
  inGame,    \* the clients whose player has entered the game
  applied,   \* g_applied of each client, at the address its ghost of an object has
  left,      \* g_applied at the addresses of ghosts that are gone
  shows,     \* the loadout a client shows an object in
  assigned   \* history: the loadouts assigned to the object at an address

ghostVars == <<kind, nodeOf, managed, tracked, loadoutAt, hostile, scope, inGame,
               applied, left, shows, assigned>>
clientSide == <<applied, left, shows>>

GhostsInit ==
  /\ kind      = [a \in Addrs |-> "free"]
  /\ nodeOf    = [a \in Addrs |-> NoNode]
  /\ managed   = {}
  /\ tracked   = {}
  /\ loadoutAt = [a \in Addrs |-> Bare]
  /\ hostile   = {}
  /\ scope     = [a \in Addrs |-> {}]
  /\ inGame    = {}
  /\ applied   = [c \in Players |-> [a \in Addrs |-> Bare]]
  /\ left      = [c \in Players |-> {}]
  /\ shows     = [c \in Players |-> [a \in Addrs |-> Bare]]
  /\ assigned     = [a \in Addrs |-> {}]

IsLiveNpc(a) == kind[a] \in {"npc", "stock"}   \* the vtable says no more than that

SlipStaleNode(n) == n \in managed /\ tracked # {}
HasNpc(n) == \E a \in Addrs : nodeOf[a] = n
-----------------------------------------------------------------------------
\* EnsureSpawnsImpl: one pass over the nodes ns, building an NPC where the last
\* one is gone: scoped (which resets its loadout to plate), then dressed.  at
\* gives the addresses the engine chose; a node without one failed to build.
EnsureSpawns(ns, at) ==
  LET new == {at[n] : n \in DOMAIN at}
      builtFor(a) == CHOOSE n \in DOMAIN at : at[n] = a IN
  /\ DOMAIN at \subseteq {n \in ns : ~HasNpc(n)}
  /\ \A a \in new : kind[a] = "free"
  /\ \A m, n \in DOMAIN at : at[m] = at[n] => m = n
  /\ kind'      = [a \in Addrs |-> IF a \in new THEN "npc" ELSE kind[a]]
  /\ nodeOf'    = [a \in Addrs |-> IF a \in new THEN builtFor(a) ELSE nodeOf[a]]
  /\ tracked'   = tracked \cup new
  /\ loadoutAt' = [a \in Addrs |-> IF a \in new THEN NodeLoadout[builtFor(a)] ELSE loadoutAt[a]]
  /\ scope'     = [a \in Addrs |-> IF a \in new THEN inGame ELSE scope[a]]
  /\ assigned'     = [a \in Addrs |-> IF a \in new THEN {NodeLoadout[builtFor(a)]} ELSE assigned[a]]

Chosen(ns) == UNION {[s -> Addrs] : s \in SUBSET ns}

\* Lifx::manageSpawn: registers the node and makes a pass.
ManageSpawn(n) ==
  /\ n \notin managed
  /\ managed' = managed \cup {n}
  /\ \E at \in Chosen(managed') : EnsureSpawns(managed', at)
  /\ UNCHANGED <<hostile, inGame, clientSide>>

\* The maintenance tick, every two seconds once a node is registered.
SpawnTick ==
  /\ \E at \in Chosen(managed) : EnsureSpawns(managed, at)
  /\ UNCHANGED <<managed, hostile, inGame, clientSide>>

\* The tick when the engine builds the NPC of node n.
SpawnTickOf(n) ==
  /\ \E at \in Chosen(managed) : n \in DOMAIN at /\ EnsureSpawns(managed, at)
  /\ UNCHANGED <<managed, hostile, inGame, clientSide>>

\* Lifx::spawnHostile, and OnCreateAnimal of a bandit: the animal is registered.
\* Stock NPCs and wild animals are the engine's own.  Bound: they leave memory
\* for the NPCs of the nodes.
Create(a, k) ==
  /\ kind[a] = "free"
  /\ Cardinality({b \in Addrs : kind[b] = "free"}) > Cardinality({n \in Nodes : ~HasNpc(n)})
  /\ kind'    = [kind EXCEPT ![a] = k]
  /\ hostile' = IF k = "bandit" THEN hostile \cup {a} ELSE hostile
  /\ scope'   = [scope EXCEPT ![a] = IF k = "stock" THEN {} ELSE inGame]
  /\ UNCHANGED <<nodeOf, managed, tracked, loadoutAt, inGame, clientSide, assigned>>

\* External: an animal dies or is removed; the engine reaps an NPC once its last
\* ghost is freed.  The tables keep what they have about the address; a client
\* keeps the entry of the ghost.
Vanish(a) ==
  /\ kind[a] # "free"
  /\ IsLiveNpc(a) => scope[a] = {}
  /\ kind'    = [kind EXCEPT ![a] = "free"]
  /\ nodeOf'  = [nodeOf EXCEPT ![a] = NoNode]
  /\ scope'   = [scope EXCEPT ![a] = {}]
  /\ assigned'   = [assigned EXCEPT ![a] = {}]
  /\ left'    = [c \in Players |-> left[c] \cup ({applied[c][a]} \ {Bare})]
  /\ applied' = [c \in Players |-> [applied[c] EXCEPT ![a] = Bare]]
  /\ shows'   = [c \in Players |-> [shows[c] EXCEPT ![a] = Bare]]
  /\ UNCHANGED <<managed, tracked, loadoutAt, hostile, inGame>>

\* %npc.lifxLoadout: takes effect with the next update.
LoadoutNpc(a, l) ==
  /\ nodeOf[a] # NoNode
  /\ loadoutAt' = [loadoutAt EXCEPT ![a] = l]
  /\ assigned'     = [assigned EXCEPT ![a] = @ \cup {l}]
  /\ UNCHANGED <<kind, nodeOf, managed, tracked, hostile, scope, inGame, clientSide>>

\* ReScopeGhostNpcs, when the player of a client enters the game: prunes what is
\* no NPC any more and ghosts the rest.  Animals are in scope by themselves.
EnterGame(c) ==
  LET live == {a \in tracked : IsLiveNpc(a)} IN
  /\ c \notin inGame
  /\ inGame'  = inGame \cup {c}
  /\ tracked' = live
  /\ scope'   = [a \in Addrs |->
                   IF a \in live THEN inGame'
                   ELSE IF kind[a] \in {"bandit", "animal"} THEN scope[a] \cup {c} ELSE scope[a]]
  /\ UNCHANGED <<kind, nodeOf, managed, loadoutAt, hostile, clientSide, assigned>>

\* External: a client disconnects and its ghosts are freed; its process ends.
Leave(c) ==
  /\ c \in inGame
  /\ inGame'  = inGame \ {c}
  /\ scope'   = [a \in Addrs |-> scope[a] \ {c}]
  /\ applied' = [applied EXCEPT ![c] = [a \in Addrs |-> Bare]]
  /\ left'    = [left EXCEPT ![c] = {}]
  /\ shows'   = [shows EXCEPT ![c] = [a \in Addrs |-> Bare]]
  /\ UNCHANGED <<kind, nodeOf, managed, tracked, loadoutAt, hostile, assigned>>
-----------------------------------------------------------------------------
IsHostile(a) == a \in hostile
LoadoutBits(a) == IF loadoutAt[a] = Bare THEN Plate ELSE loadoutAt[a]

\* The block OnPackUpdate (NPCs) and OnAnimalPackUpdate append: a marker bit,
\* then eight bits of loadout, as a sequence of fields.
PackNpc(a)    == <<1, LoadoutBits(a)>>
PackAnimal(a) == IF IsHostile(a) THEN <<1, LoadoutBits(a)>> ELSE <<0>>
Packed(a)     == IF IsLiveNpc(a) THEN PackNpc(a) ELSE PackAnimal(a)

SlipFixedBlock(a, block) == 2

\* The fields OnUnpackUpdate and OnAnimalUnpackUpdate take off such a block.
FieldsRead(a, block) ==
  IF IsLiveNpc(a) THEN 2 ELSE IF block[1] = 1 THEN 2 ELSE 1

\* An update of a reaches client c.  A ghost that is new may have got the
\* address, and so the entry, of one that is gone.  The loadout is applied when
\* it differs from the entry and the shape is loaded.
Update(c, a, ready) ==
  /\ c \in scope[a]
  /\ \E entry \in IF applied[c][a] = Bare THEN left[c] \cup {Bare} ELSE {applied[c][a]} :
       LET block == Packed(a)
           skin  == block[1] = 1 /\ entry # block[2] /\ ready IN
       /\ applied' = [applied EXCEPT ![c][a] = IF skin THEN block[2] ELSE entry]
       /\ shows'   = IF skin THEN [shows EXCEPT ![c][a] = block[2]] ELSE shows
  /\ UNCHANGED <<kind, nodeOf, managed, tracked, loadoutAt, hostile, scope, inGame, left, assigned>>

GhostsNext ==
  \/ \E n \in Nodes : ManageSpawn(n)
  \/ SpawnTick
  \/ \E a \in Addrs, k \in {"stock", "bandit", "animal"} : Create(a, k)
  \/ \E a \in Addrs : Vanish(a)
  \/ \E a \in Addrs, l \in Loadouts : LoadoutNpc(a, l)
  \/ \E c \in Players : EnterGame(c) \/ Leave(c)
  \/ \E c \in Players, a \in Addrs, ready \in BOOLEAN : Update(c, a, ready)

\* The script schedules the tick again and again; the engine does not refuse to
\* build an NPC for ever.
GhostsFairness == \A n \in Nodes : WF_ghostVars(SpawnTickOf(n))

GhostsSpec == GhostsInit /\ [][GhostsNext]_ghostVars /\ GhostsFairness
-----------------------------------------------------------------------------
GhostsTypeOK ==
  /\ kind \in [Addrs -> {"free", "npc", "stock", "bandit", "animal"}]
  /\ nodeOf \in [Addrs -> Nodes \cup {NoNode}]
  /\ managed \subseteq Nodes /\ tracked \subseteq Addrs /\ hostile \subseteq Addrs
  /\ loadoutAt \in [Addrs -> Loadouts \cup {Bare}]
  /\ scope \in [Addrs -> SUBSET Players] /\ inGame \subseteq Players
  /\ applied \in [Players -> [Addrs -> Loadouts \cup {Bare}]]
  /\ shows \in [Players -> [Addrs -> Loadouts \cup {Bare}]]
  /\ left \in [Players -> SUBSET Loadouts] /\ assigned \in [Addrs -> SUBSET Loadouts]

\* A managed NPC is ghosted to every client in the game, reconnected ones too,
\* and none shows it in a gear it was never given, whatever the tables kept about
\* its address; the client takes off an update what the server appended.
NpcsAreSeen ==
  /\ \A a \in Addrs, c \in inGame : nodeOf[a] # NoNode =>
       /\ c \in scope[a]
       /\ shows[c][a] \in assigned[a] \cup {Bare}
  /\ \A a \in Addrs : kind[a] # "free" => FieldsRead(a, Packed(a)) = Len(Packed(a))

\* A node whose NPC is gone gets a new one while there is room for one.
NodesRespawn == \A n \in Nodes : n \in managed ~> \E a \in Addrs : nodeOf[a] = n
=============================================================================
