---------------------------- MODULE BanditGraves ----------------------------
(***************************************************************************)
(* What a bandit wears, from its creation to the tombstone that drops it:    *)
(* hooks/character/hook_animal_create.cpp, hook_animal_death.cpp,            *)
(* hook_container_init.cpp and the loot half of api/lifx_hostile.cpp.  The   *)
(* engine runs the hooks on its main thread; the rows of the database are    *)
(* committed by a thread of its own.  All bandits are bound to one shared    *)
(* character, so every map the code keys by its id has at most one entry.    *)
(***************************************************************************)
EXTENDS Integers, Sequences, FiniteSets

CONSTANTS
  Corpses,      \* the bandits (addresses of animals)
  PlayerTombs,  \* tombstones of players, type 1070 as well
  Armor, Sword, \* the item types of the kit, and the mounted weapon
  NoTomb

ASSUME GravesAssumption ==
  /\ Sword \notin Armor
  /\ NoTomb \notin PlayerTombs \cup Corpses
  /\ PlayerTombs \cap Corpses = {}

VARIABLES
  life,      \* of each bandit
  bound,     \* the bandits whose charStats carry the shared character
  mounted,   \* g_mounted
  worn,      \* g_mountedItems; {} where there is no entry
  armed,     \* g_pendingLootCharId # 0
  snapshot,  \* g_pendingMountedLoot of the shared character; {} if none
  opened,    \* the tombs whose container has been initialised
  memory,    \* the items each container holds in memory
  freshest,  \* g_freshestGrave
  writes,    \* INSERTs handed to the database thread
  rows,      \* the rows committed: a container and an item of a bandit
  reloads,   \* deferred reloads that are scheduled
  unlucky,   \* history: bandits whose tomb was captured without a database
  had,       \* history: what each bandit wore when it died
  overtaken  \* history: the dead that another death or tomb came before

graveVars == <<life, bound, mounted, worn, armed, snapshot, opened, memory,
               freshest, writes, rows, reloads, unlucky, had, overtaken>>
corpseVars == <<life, bound, mounted>>

\* The tomb of a bandit is named like the bandit.
Tombs == PlayerTombs \cup Corpses

\* An item is told apart by the bandit that wore it.
Gear(b, types) == {[of |-> b, type |-> t] : t \in types}

GravesInit ==
  /\ life     = [b \in Corpses |-> "unborn"]
  /\ bound    = {}
  /\ mounted  = {}
  /\ worn     = [b \in Corpses |-> {}]
  /\ armed    = FALSE
  /\ snapshot = {}
  /\ opened   = {}
  /\ memory   = [t \in Tombs |-> {}]
  /\ freshest = NoTomb
  /\ writes   = <<>>
  /\ rows     = {}
  /\ reloads  = 0
  /\ unlucky  = {}
  /\ had      = [t \in Tombs |-> {}]
  /\ overtaken = {}

-----------------------------------------------------------------------------
\* RecordMountedItem for a set of items; what is there already stays once.
Recorded(b, types) == [worn EXCEPT ![b] = @ \cup Gear(b, types)]

\* OnCreateAnimal of the bandit type; ok says whether BindAnimalChar could
\* bind the animal, which gives it the kit.
CreateBandit(b, ok) ==
  /\ life[b] = "unborn"
  /\ life'  = [life EXCEPT ![b] = "alive"]
  /\ bound' = IF ok THEN bound \cup {b} ELSE bound
  /\ worn'  = IF ok THEN Recorded(b, Armor) ELSE worn
  /\ UNCHANGED <<mounted, armed, snapshot, opened, memory, freshest, writes,
                 rows, reloads, unlucky, had, overtaken>>

\* MountWeaponOnce, at the first animation of the bandit.
MountWeaponOnce(b) ==
  /\ life[b] = "alive"
  /\ b \notin mounted
  /\ mounted' = mounted \cup {b}
  /\ worn'    = Recorded(b, {Sword})
  /\ UNCHANGED <<life, bound, armed, snapshot, opened, memory, freshest, writes,
                 rows, reloads, unlucky, had, overtaken>>

-----------------------------------------------------------------------------
\* The fields a death and the load of a container work on, as one record.
Loot == [armed |-> armed, snapshot |-> snapshot, opened |-> opened, memory |-> memory,
         freshest |-> freshest, writes |-> writes, reloads |-> reloads, unlucky |-> unlucky]

SetLoot(l) ==
  /\ armed' = l.armed       /\ snapshot' = l.snapshot /\ opened'  = l.opened
  /\ memory' = l.memory     /\ freshest' = l.freshest /\ writes'  = l.writes
  /\ reloads' = l.reloads   /\ unlucky' = l.unlucky

\* External: the engine reads the rows of a container from the database.
RowsOf(t) == {r.item : r \in {x \in rows : x.tomb = t}}

\* ReloadFreshestGraveContainer: clears the guard of the container captured
\* last, whichever was expected, and runs the original load again.
ReloadFreshest(l) ==
  IF l.freshest = NoTomb THEN l
  ELSE [l EXCEPT !.opened = @ \cup {l.freshest},
                 !.memory[l.freshest] = @ \cup RowsOf(l.freshest)]

\* The INSERT of a snapshot: all rows in one statement.
SlipRowByRow(l, tomb) ==
  LET order == CHOOSE s \in [1..Cardinality(l.snapshot) -> l.snapshot] :
                 \A i \in l.snapshot : \E k \in DOMAIN s : s[k] = i
  IN l.writes \o [k \in DOMAIN order |-> {[tomb |-> tomb, item |-> order[k]]}]
InsertRows(l, tomb) == Append(l.writes, {[tomb |-> tomb, item |-> i] : i \in l.snapshot})

\* InsertMountedLootCore: takes the snapshot, writes it as one INSERT, reloads
\* the container at once and again after a delay.
InsertMountedLoot(l, tomb, conn) ==
  LET taken == [l EXCEPT !.snapshot = {}] IN
  IF l.snapshot = {} THEN taken
  ELSE IF ~conn THEN [taken EXCEPT !.unlucky = @ \cup {i.of : i \in l.snapshot}]
  ELSE ReloadFreshest([taken EXCEPT !.writes = InsertRows(l, tomb), !.reloads = @ + 1])

\* OnGraveContainerCaptured: no-op unless a fill is armed.
GraveContainerCaptured(l, tomb, conn) ==
  IF l.armed THEN InsertMountedLoot([l EXCEPT !.armed = FALSE], tomb, conn) ELSE l

\* OnTryInit of a container of type 1070: the original loads it once.
TryInit(l, tomb, conn) ==
  LET loaded == IF tomb \in l.opened THEN l
                ELSE [l EXCEPT !.opened = @ \cup {tomb}, !.memory[tomb] = @ \cup RowsOf(tomb)]
  IN GraveContainerCaptured([loaded EXCEPT !.freshest = tomb], tomb, conn)

\* ArmGraveFill: remembers the character and what its bandit wears.
ArmGraveFill(l, b) ==
  IF worn[b] = {} THEN [l EXCEPT !.armed = TRUE]
  ELSE [l EXCEPT !.armed = TRUE, !.snapshot = worn[b]]

\* The dead whose tomb the engine has not loaded yet.
Waiting == {b \in Corpses : life[b] = "tomb" /\ b \notin opened}

\* OnCreateCorpse of an unbound bandit: the stock carcass.  Forget has cleared
\* its combat state, the list of what it wears stays.
DieAsCarcass(b) ==
  /\ life[b] = "alive"
  /\ b \notin bound
  /\ life' = [life EXCEPT ![b] = "carcass"]
  /\ mounted' = mounted \ {b}
  /\ UNCHANGED <<bound, worn, armed, snapshot, opened, memory, freshest, writes,
                 rows, reloads, unlucky, had, overtaken>>

\* The fill is armed before the trigger, within which the engine may load the
\* container (sync).
SlipTriggerFirst(b, sync, conn) ==
  ArmGraveFill(IF sync THEN TryInit(Loot, b, conn) ELSE Loot, b)
ArmThenTrigger(b, sync, conn) ==
  LET l == ArmGraveFill(Loot, b) IN IF sync THEN TryInit(l, b, conn) ELSE l

\* OnCreateCorpse of a bound bandit: arms the fill, then fires the trigger that
\* makes the tomb.
DieAsPlayer(b, sync, conn) ==
  /\ life[b] = "alive"
  /\ b \in bound
  /\ life'    = [life EXCEPT ![b] = "tomb"]
  /\ mounted' = mounted \ {b}
  /\ worn'    = [worn EXCEPT ![b] = {}]
  /\ had'     = [had EXCEPT ![b] = worn[b]]
  /\ overtaken' = overtaken \cup Waiting
  /\ SetLoot(ArmThenTrigger(b, sync, conn))
  /\ UNCHANGED <<bound, rows>>

\* A tomb that exists is scoped or accessed: the engine initialises its
\* container every time.
AccessTomb(t, conn) ==
  /\ t \in PlayerTombs \/ (t \in Corpses /\ life[t] = "tomb")
  /\ overtaken' = overtaken \cup (Waiting \ {t})
  /\ SetLoot(TryInit(Loot, t, conn))
  /\ UNCHANGED <<corpseVars, worn, rows, had>>

\* The database thread commits the oldest statement.
CommitWrite ==
  /\ writes # <<>>
  /\ rows'   = rows \cup Head(writes)
  /\ writes' = Tail(writes)
  /\ UNCHANGED <<corpseVars, worn, armed, snapshot, opened, memory, freshest, reloads,
                 unlucky, had, overtaken>>

\* The reload scheduled 1.2 s later, of the container captured last; it waits
\* for no statement.
DeferredReload ==
  /\ reloads > 0
  /\ SetLoot(ReloadFreshest([Loot EXCEPT !.reloads = @ - 1]))
  /\ UNCHANGED <<corpseVars, worn, rows, had, overtaken>>

GravesNext ==
  \/ \E b \in Corpses, ok \in BOOLEAN : CreateBandit(b, ok)
  \/ \E b \in Corpses : MountWeaponOnce(b)
  \/ \E b \in Corpses : DieAsCarcass(b)
  \/ \E b \in Corpses, sync, conn \in BOOLEAN : DieAsPlayer(b, sync, conn)
  \/ \E t \in Tombs, conn \in BOOLEAN : AccessTomb(t, conn)
  \/ CommitWrite
  \/ DeferredReload

GravesSpec == GravesInit /\ [][GravesNext]_graveVars

-----------------------------------------------------------------------------
AllGear == UNION {Gear(b, Armor \cup {Sword}) : b \in Corpses}

GravesTypeOK ==
  /\ life \in [Corpses -> {"unborn", "alive", "carcass", "tomb"}]
  /\ bound \subseteq Corpses /\ mounted \subseteq Corpses
  /\ \A b \in Corpses : worn[b] \subseteq Gear(b, Armor \cup {Sword})
  /\ armed \in BOOLEAN /\ snapshot \subseteq AllGear
  /\ opened \subseteq Tombs /\ freshest \in Tombs \cup {NoTomb}
  /\ \A t \in Tombs : memory[t] \subseteq AllGear /\ had[t] \subseteq AllGear
  /\ rows \subseteq [tomb : Tombs, item : AllGear]
  /\ \A i \in 1..Len(writes) : writes[i] \subseteq [tomb : Tombs, item : AllGear]
  /\ reloads \in Nat /\ unlucky \subseteq Corpses /\ overtaken \subseteq Corpses

\* The rows of the database, those on their way to it included.
Placed == rows \cup UNION {writes[i] : i \in 1..Len(writes)}
Content(t) == {r.item : r \in {x \in Placed : x.tomb = t}}

\* "All rows commit together, so a later reload can never see a partial set":
\* of what a bandit wore, a container shows all or nothing, whichever tomb the
\* gear ended in and however the reloads fall between the commits.
NoPartialTomb ==
  \A t \in Tombs, b \in Corpses : {i \in memory[t] : i.of = b} \in {{}, had[b]}

\* A bandit whose tomb the engine loads before another bandit dies and before
\* any other tomb is scoped finds all it wore there, and no other tomb gets any
\* of it, unless there was no database at the capture.
OwnTombFilled ==
  \A b \in (opened \cap Corpses) \ (unlucky \cup overtaken) :
    /\ had[b] \subseteq Content(b)
    /\ \A r \in Placed : r.item.of = b => r.tomb = b

\* "The tomb now contains exactly what the bandit visibly had": a tomb gets
\* the gear of its own bandit, all of it once its container has been
\* captured, and a player's tomb gets none.
TombHasItsGear ==
  \A t \in Tombs :
    /\ Content(t) \subseteq had[t]
    /\ t \in opened \ unlucky => Content(t) = had[t]

\* "The DEFERRED pass is authoritative: by then the async INSERT has landed, so
\* tryInit re-reads ALL rows": with no reload left to run, each container shows
\* the rows that are committed for it.
DeferredShowsAll == reloads = 0 => \A t \in Tombs : RowsOf(t) \subseteq memory[t]
=============================================================================
