---------------------------- MODULE MCFederation ----------------------------
(* A server that hands a payload over and a server that owns the sector; or *)
(* the daemon alone, with clients that send it whatever they like.  The two *)
(* share no state, so a behaviour moves one of them.                        *)
EXTENDS Federation, FiniteSets, TLC

CONSTANTS c1, c2, k1
CONSTANTS Lines, Payloads, BadPayloads

VARIABLES
  part,
  aloneWorlds, aloneSectors, aloneRegistry, aloneStage, aloneUuid, alonePeer,
  aloneAlive, aloneQueue, aloneWriting, alonePending, aloneTarget, aloneGoal

Alone == INSTANCE Daemon WITH
  Uuids <- Servers, Sessions <- Lines,
  worlds <- aloneWorlds, sectors <- aloneSectors, registry <- aloneRegistry,
  stage <- aloneStage, uuid <- aloneUuid, peer <- alonePeer, alive <- aloneAlive,
  queue <- aloneQueue, writing <- aloneWriting, pending <- alonePending,
  target <- aloneTarget, goal <- aloneGoal

aloneVars == <<aloneWorlds, aloneSectors, aloneRegistry, aloneStage, aloneUuid, alonePeer,
               aloneAlive, aloneQueue, aloneWriting, alonePending, aloneTarget, aloneGoal>>

DispatcherInit == part \in {"joined", "daemon"} /\ Init /\ Alone!Init

DispatcherNext ==
  \/ part = "joined" /\ Next /\ UNCHANGED <<part, aloneVars>>
  \/ part = "daemon" /\ Alone!Next /\ UNCHANGED <<part, vars>>

DispatcherSpec == DispatcherInit /\ [][DispatcherNext]_<<part, vars, aloneVars>>

\* What the tables of the daemon promise whoever its clients are.
TablesSound   == Alone!TablesSound
TablesDurable == Alone!TablesDurable
-----------------------------------------------------------------------------
OwnerClaims == [c \in Servers |-> IF c = c2 THEN <<k1>> ELSE <<>>]

\* No state has both sessions and lines in it that matter, so one permutation may
\* stand for both: that which swaps two sessions swaps the two lines as well.
Swapped == [l \in Lines |-> CHOOSE m \in Lines : m # l]
OfBoth(f) == IF Cardinality({s \in Sessions : f[s] = s}) = 1 THEN f @@ Swapped ELSE f
Symmetry == Permutations(PeerIds) \union {OfBoth(f) : f \in Permutations(Sessions)}
=============================================================================
