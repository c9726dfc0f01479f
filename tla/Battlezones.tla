---------------------------- MODULE Battlezones ----------------------------
(***************************************************************************)
(* Zones that confine players: the commands that make, arm and delete them   *)
(* (api/lifx_battlezone.cpp), the two detours that let an exempt player out  *)
(* (hook_battlezone_containment.cpp) and the scripts that use them           *)
(* (dist/mods/Battlezones/battlezones.cs).                                   *)
(***************************************************************************)
EXTENDS Integers, Sequences, FiniteSets

CONSTANTS
  Fighters,     \* char ids of players
  NoChar,       \* char id zero: a creature, or no check under way
  GeoIds,
  MaxLand,      \* bound: zones made between two restarts, arenas under way
  MaxNested,    \* bound: checks of steps within one another
  Throttle      \* NOTIFY_THROTTLE_MS

ASSUME BattlezonesAssumption ==
  /\ NoChar \notin Fighters
  /\ {MaxLand, MaxNested, Throttle} \subseteq Nat

VARIABLES
  zones,     \* the engine's list: id -> where, of which type, armed or not
  lands,     \* the engine's id generator
  arenas,    \* ids of the zones whose end a script has scheduled
  exempt,    \* g_exempt
  checking,  \* g_currentCheckPlayer
  stack,     \* the checks under way: the player of each, and the saved value
  notified,  \* time since g_lastNotifyMs of a player, Throttle when longer or never
  told,      \* history: time since the player was really told
  verdict    \* history: what the last query answered

zonesVars == <<zones, lands, arenas, exempt, checking, stack, notified, told, verdict>>

NoVerdict == [who |-> NoChar, armed |-> FALSE, held |-> FALSE, waited |-> 0, notice |-> FALSE]

ZonesInit ==
  /\ zones    = <<>>
  /\ lands    = 0
  /\ arenas   = <<>>
  /\ exempt   = {}
  /\ checking = NoChar
  /\ stack    = <<>>
  /\ notified = [c \in Fighters |-> Throttle]
  /\ told     = [c \in Fighters |-> Throttle]
  /\ verdict  = NoVerdict

Greatest(ids) == CHOOSE i \in ids : \A j \in ids : i >= j

\* The engine's createBattleZone: the constructor sets the active flag.  It may
\* refuse ("Engine not initialized"), and says nothing.
EngineZones(type, geo, created) ==
  IF created THEN Append(zones, [geo |-> geo, type |-> type, armed |-> TRUE, gone |-> FALSE])
  ELSE zones

Live(list) == {i \in DOMAIN list : ~list[i].gone}

\* The read-back of CreateBattleZone: the greatest id at the place, else the
\* greatest of all, else -1.
ReadBack(list, geo) ==
  LET there == {i \in Live(list) : list[i].geo = geo} IN
  IF there # {} THEN Greatest(there)
  ELSE IF Live(list) # {} THEN Greatest(Live(list)) ELSE -1

\* SetBattleZoneActive: arming makes the zone of the type that confines.
Armed(list, id, active) ==
  IF id \notin Live(list) THEN list
  ELSE [list EXCEPT ![id] = [geo |-> @.geo, gone |-> @.gone, armed |-> active,
                             type |-> IF active THEN 1 ELSE @.type]]

\* DeleteBattleZone
Deleted(list, id) ==
  IF id \in Live(list) THEN [list EXCEPT ![id] = [@ EXCEPT !.gone = TRUE]] ELSE list

Quiet == verdict' = NoVerdict /\ UNCHANGED <<checking, stack, notified, told>>

\* Lifx::createBattleZone followed by what its callers do with the id: a plain
\* command, the seeder of a boot, or lifxArenaStart, which schedules the end.
CreateBattleZone(type, geo, arm, arena, created) ==
  LET list == EngineZones(type, geo, created)
      id   == ReadBack(list, geo) IN
  /\ lands < MaxLand /\ Len(arenas) < MaxLand
  /\ zones'  = IF arm /\ id >= 0 THEN Armed(list, id, TRUE) ELSE list
  /\ lands'  = IF created THEN lands + 1 ELSE lands
  /\ arenas' = IF arena /\ id >= 0 THEN Append(arenas, [id |-> id, geo |-> geo]) ELSE arenas
  /\ UNCHANGED exempt /\ Quiet

\* lifxArenaEnd: disarm, then delete.
ArenaEnd(n) ==
  /\ n \in DOMAIN arenas
  /\ zones'  = Deleted(Armed(zones, arenas[n].id, FALSE), arenas[n].id)
  /\ arenas' = SubSeq(arenas, 1, n - 1) \o SubSeq(arenas, n + 1, Len(arenas))
  /\ UNCHANGED <<lands, exempt>> /\ Quiet

\* Lifx::setBattleZoneActive and deleteBattleZone.
SetBattleZoneActive(id, active) ==
  /\ zones' = Armed(zones, id, active)
  /\ UNCHANGED <<lands, arenas, exempt>> /\ Quiet

DeleteBattleZone(id) ==
  /\ zones' = Deleted(zones, id)
  /\ UNCHANGED <<lands, arenas, exempt>> /\ Quiet

SetExempt(c, on) ==
  /\ exempt' = IF on THEN exempt \cup {c} ELSE exempt \ {c}
  /\ UNCHANGED <<zones, lands, arenas>> /\ Quiet
IsExempt(c) == c # NoChar /\ c \in exempt

SlipCleared(call) == NoChar
Restored(call) == call.prev

\* CheckStepsCall around the engine's check of a player's steps; a script the
\* check runs may move another player, whose steps are then checked within.
CheckSteps(c) ==
  /\ Len(stack) < MaxNested
  /\ stack'    = Append(stack, [who |-> c, prev |-> checking])
  /\ checking' = c
  /\ verdict'  = NoVerdict
  /\ UNCHANGED <<zones, lands, arenas, exempt, notified, told>>
CheckStepsReturn ==
  /\ stack # <<>>
  /\ checking' = Restored(stack[Len(stack)])
  /\ stack'    = SubSeq(stack, 1, Len(stack) - 1)
  /\ verdict'  = NoVerdict
  /\ UNCHANGED <<zones, lands, arenas, exempt, notified, told>>

ShouldNotify(c) == notified[c] >= Throttle

\* Whom the engine is really checking.
Walker == IF stack = <<>> THEN NoChar ELSE stack[Len(stack)].who

\* IsActiveStartingZoneCall
IsActiveStartingZone(id) ==
  LET armed  == id \in Live(zones) /\ zones[id].type = 1 /\ zones[id].armed
      held   == armed /\ ~IsExempt(checking)
      notice == held /\ checking # NoChar /\ ShouldNotify(checking) IN
  /\ verdict' = [who |-> Walker, armed |-> armed, held |-> held, notice |-> notice,
                 waited |-> IF Walker = NoChar THEN 0 ELSE told[Walker]]
  /\ notified' = IF notice THEN [notified EXCEPT ![checking] = 0] ELSE notified
  /\ told'     = IF notice THEN [told EXCEPT ![checking] = 0] ELSE told
  /\ UNCHANGED <<zones, lands, arenas, exempt, checking, stack>>

Pass ==
  /\ stack = <<>> /\ \E c \in Fighters : notified[c] < Throttle
  /\ notified' = [c \in Fighters |-> IF notified[c] < Throttle THEN notified[c] + 1 ELSE Throttle]
  /\ told'     = [c \in Fighters |-> IF told[c] < Throttle THEN told[c] + 1 ELSE Throttle]
  /\ verdict'  = NoVerdict
  /\ UNCHANGED <<zones, lands, arenas, exempt, checking, stack>>

\* The server restarts: zones are not persisted, and everything else is memory.
Reboot ==
  /\ zones' = <<>> /\ lands' = 0 /\ arenas' = <<>> /\ exempt' = {}
  /\ checking' = NoChar /\ stack' = <<>> /\ verdict' = NoVerdict
  /\ notified' = [c \in Fighters |-> Throttle] /\ told' = [c \in Fighters |-> Throttle]

ZonesNext ==
  \/ \E type \in 0..1, geo \in GeoIds, arm, created \in BOOLEAN : CreateBattleZone(type, geo, arm, FALSE, created)
  \/ \E geo \in GeoIds, created \in BOOLEAN : CreateBattleZone(1, geo, TRUE, TRUE, created)
  \/ \E n \in DOMAIN arenas : ArenaEnd(n)
  \* scripts leave the zone of an arena to the arena
  \/ \E id \in DOMAIN zones :
       /\ \A n \in DOMAIN arenas : arenas[n].id # id
       /\ DeleteBattleZone(id) \/ \E on \in BOOLEAN : SetBattleZoneActive(id, on)
  \/ \E c \in Fighters \cup {NoChar} : CheckSteps(c) \/ \E on \in BOOLEAN : SetExempt(c, on)
  \/ \E id \in DOMAIN zones : IsActiveStartingZone(id)
  \/ CheckStepsReturn \/ Pass \/ Reboot

ZonesSpec == ZonesInit /\ [][ZonesNext]_zonesVars
-----------------------------------------------------------------------------
ZonesTypeOK ==
  /\ zones \in Seq([geo : GeoIds, type : 0..1, armed : BOOLEAN, gone : BOOLEAN])
  /\ Len(zones) = lands /\ lands \in 0..MaxLand
  /\ \A n \in DOMAIN arenas : arenas[n].id \in DOMAIN zones
  /\ exempt \subseteq Fighters \cup {NoChar} /\ checking \in Fighters \cup {NoChar}
  /\ {notified, told} \subseteq [Fighters -> 0..Throttle]

\* "Let this player walk out: report not active for this check only": however the
\* checks nest, an armed zone holds the player being checked unless that very
\* player is exempt, and whom it holds is told so, at most once in the throttle.
HoldsTheRightPlayer ==
  /\ verdict.held <=> verdict.armed /\ (verdict.who = NoChar \/ verdict.who \notin exempt)
  /\ verdict.notice <=> verdict.held /\ verdict.who # NoChar /\ verdict.waited >= Throttle

\* "Reads the new zone's id back; -1 on failure": the id a script gets is the zone
\* it made, so no two arenas run in one zone, and the zone of each is at its place,
\* armed, until its own end.
ArenasOwnTheirZones ==
  \A n \in DOMAIN arenas :
    LET id == arenas[n].id IN
    /\ \A k \in DOMAIN arenas : arenas[k].id = id => k = n
    /\ id \in Live(zones) /\ zones[id].geo = arenas[n].geo
    /\ zones[id].armed /\ zones[id].type = 1
=============================================================================
