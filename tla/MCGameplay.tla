----------------------------- MODULE MCGameplay -----------------------------
(* The parts of the server plugin that touch the game, each with the engine  *)
(* around it, and its dispatcher client with an engine and a session thread. *)
(* They share no state, so a behaviour moves one of them.                    *)
EXTENDS DispatcherClient, BanditCombat, BanditGraves, NpcGhosts, NpcNodes, EncryptedFiles,
        DropHooks, CharacterHooks, Effects, Battlezones, HandoffEvent

CONSTANTS node1, w1, w2, c1, k1
VARIABLE part

Parts == {"client", "combat", "graves", "ghosts", "nodes", "files", "drops", "characters", "effects", "zones", "handoff"}

Sec(e, h, i)  == [enabled |-> e, head |-> h, items |-> i]
G(i, w)       == [id |-> i, weight |-> w]
T(i, c, l, h) == [id |-> i, chance |-> c, lo |-> l, hi |-> h]
Tree(t, i)    == [type |-> t, id |-> i]
Q(q, k)       == [quality |-> q, quantity |-> k]
Need(m, s)    == [material |-> m, skip |-> s]
Rec(t, needs) == [tool |-> t, skill |-> 1, needs |-> needs]

MCPlain == [gem    |-> Sec(TRUE, 5, <<G(7, 2), G(8, 1), G(7, 3), G(9, 1)>>),
            tunnel |-> Sec(TRUE, Unset, <<T(3, 50, 2, 3), T(4, 100, Unset, Unset), T(5, 0, 1, Unset)>>),
            tree   |-> Sec(TRUE, Unset, <<Tree(2, 6), Tree(0, 5)>>),
            tools  |-> Sec(TRUE, Unset, <<2>>)]

\* Where a part may start in several ways, the others start in one; of the four
\* sections of a drops file, which the code reads apart, one at a time is unusual.
GameInit ==
  /\ part \in Parts
  /\ Init /\ CombatInit /\ GravesInit /\ GhostsInit /\ NodesInit /\ FilesInit
  /\ DropsInit /\ CharacterInit /\ EffectsInit /\ ZonesInit /\ HandoffInit
  /\ part # "combat" => \A b \in Bandits : weapon[b] = NoWeapon
  /\ Cardinality({k \in DropKinds : xml[k] # MCPlain[k]}) <= IF part = "drops" THEN 1 ELSE 0
  /\ part # "effects" => everyone = 0
  /\ part # "handoff" => setup = CHOOSE s \in [Worlds -> Setups] : TRUE

Others(p) ==
  /\ IF p = "client" THEN TRUE ELSE UNCHANGED vars
  /\ IF p = "combat" THEN TRUE ELSE UNCHANGED combatVars
  /\ IF p = "graves" THEN TRUE ELSE UNCHANGED graveVars
  /\ IF p = "ghosts" THEN TRUE ELSE UNCHANGED ghostVars
  /\ IF p = "nodes" THEN TRUE ELSE UNCHANGED nodeVars
  /\ IF p = "files" THEN TRUE ELSE UNCHANGED fileVars
  /\ IF p = "drops" THEN TRUE ELSE UNCHANGED dropVars
  /\ IF p = "characters" THEN TRUE ELSE UNCHANGED characterVars
  /\ IF p = "effects" THEN TRUE ELSE UNCHANGED effectsVars
  /\ IF p = "zones" THEN TRUE ELSE UNCHANGED zonesVars
  /\ IF p = "handoff" THEN TRUE ELSE UNCHANGED handoffVars
  /\ UNCHANGED part

GameNext ==
  \/ part = "client" /\ Next /\ Others("client")
  \/ part = "combat" /\ CombatNext /\ Others("combat")
  \/ part = "graves" /\ GravesNext /\ Others("graves")
  \/ part = "ghosts" /\ GhostsNext /\ Others("ghosts")
  \/ part = "nodes" /\ NodesNext /\ Others("nodes")
  \/ part = "files" /\ FilesNext /\ Others("files")
  \/ part = "drops" /\ DropsNext /\ Others("drops")
  \/ part = "characters" /\ CharacterNext /\ Others("characters")
  \/ part = "effects" /\ EffectsNext /\ Others("effects")
  \/ part = "zones" /\ ZonesNext /\ Others("zones")
  \/ part = "handoff" /\ HandoffNext /\ Others("handoff")

gameVars == <<part, vars, combatVars, graveVars, ghostVars, nodeVars, fileVars, dropVars,
              characterVars, effectsVars, zonesVars, handoffVars>>

\* The fairness of each part, in its own behaviours.
GameSpec ==
  /\ GameInit /\ [][GameNext]_gameVars
  /\ WF_combatVars(part = "combat" /\ CombatFrame /\ Others("combat"))
  /\ \A k \in Nodes : WF_ghostVars(part = "ghosts" /\ SpawnTickOf(k) /\ Others("ghosts"))
  /\ \A h \in Calls :
       WF_vars(/\ part = "client" /\ Others("client")
               /\ ResolveRegister(h) \/ ResolveEnqueue(h) \/ ResolveRefused(h) \/ SendEnqueue(h))
  /\ \A s \in Servers : WF_vars(part = "client" /\ Session(s) /\ Others("client"))

\* Every part keeps to its types.
GameTypeOK ==
  /\ CombatTypeOK /\ GravesTypeOK /\ GhostsTypeOK /\ NodesTypeOK /\ FilesTypeOK
  /\ DropsTypeOK /\ CharacterTypeOK /\ EffectsTypeOK /\ ZonesTypeOK
  /\ HandoffTypeOK
-----------------------------------------------------------------------------
OneClaim == [s \in Servers |-> <<k1>>]

Loadout == [x \in {node1} |-> 1]

Content1(len, magic, header, key) == [len |-> len, magic |-> magic, header |-> header, key |-> key]
MCFiles == {Content1(4, TRUE, TRUE, TRUE), Content1(2, TRUE, TRUE, TRUE), Content1(3, TRUE, FALSE, TRUE),
            Content1(3, TRUE, TRUE, FALSE), Content1(3, FALSE, FALSE, FALSE), Content1(1, TRUE, FALSE, FALSE)}

MCGem == {MCPlain.gem, Sec(FALSE, Unset, <<>>),
          Sec(TRUE, Malformed, <<G(7, 2)>>), Sec(TRUE, Unset, <<G(9, 1)>>), Sec(TRUE, 5, <<G(7, 0)>>)}
MCTunnel == {MCPlain.tunnel,
             Sec(TRUE, 40, <<T(3, 50, Unset, 2)>>), Sec(TRUE, Unset, <<T(3, 50, 3, 2)>>)}
MCTree == {MCPlain.tree, Sec(FALSE, Unset, <<Tree(1, 6)>>),
           Sec(TRUE, Unset, <<Tree(2, 6), Tree(2, 5)>>)}
MCTools   == {MCPlain.tools, Sec(TRUE, Unset, <<>>)}
MCYields  == {<<>>, <<Q(0, 2)>>, <<Q(30, 1), Q(31, 1)>>, <<Q(255, 2), Q(10, 0)>>}
MCRecipes == <<Rec(2, <<Need(1, TRUE), Need(2, FALSE)>>), Rec(1, <<Need(1, FALSE)>>),
               Rec(2, <<Need(1, FALSE)>>)>>

\* A script function that has an answer for one duration only.
MCCallbacks == {[d \in {1} |-> 2]}

Setup(register, log, inject, target) ==
  [register |-> register, log |-> log, inject |-> inject, target |-> target]
MCSetups  == {Setup(TRUE, TRUE, TRUE, w1), Setup(TRUE, FALSE, TRUE, w2), Setup(FALSE, TRUE, TRUE, "")}
MCSample  == [char |-> 1, sector |-> 451, x |-> 8, y |-> 9]
MCErrands == {MCSample, [char |-> 2, sector |-> 442, x |-> 7, y |-> 6]}
=============================================================================
