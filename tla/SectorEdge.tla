----------------------------- MODULE SectorEdge -----------------------------
(***************************************************************************)
(* The driver that hands a player over when he steps off this world's grid  *)
(* (hooks/sector/sector_edge_trigger.cpp), with the player it watches       *)
(* (hook_set_control_object.cpp) and the redirect of the client             *)
(* (client_redirect.cpp).  The engine runs all of it on its main thread.    *)
(***************************************************************************)
EXTENDS WorldGrid

CONSTANTS
  Players,   \* Player objects
  Worlds,    \* the <worldGrid> and <worldNeighbours> a server may be given
  Coords,    \* bound: the coordinates a player walks over
  None

Neighbours == [dir : {"north", "south", "east", "west"}, grid : GridSpec, host : BOOLEAN]

\* Only a neighbour's grid is checked when it is read.
ASSUME SectorEdgeAssumption ==
  /\ Coords \subseteq Int
  /\ None \notin Players \union [sector : Nat, x : Int, y : Int, world : Nat]
  /\ \A w \in Worlds :
       /\ w.self \in GridSpec
       /\ w.neighbours \in Seq(Neighbours)
       /\ \A i \in 1..Len(w.neighbours) :
            Configured(w.neighbours[i].grid) /\ w.neighbours[i].grid.first > 0

VARIABLES
  world,       \* g_self and g_neighbours
  pos,         \* Player_WorldPos of each player
  lastPlayer,  \* g_lastPlayer: the player that was given control last
  due,         \* have 250 ms passed since g_lastTick?
  lastSelf,    \* g_lastSelfSector
  lastFired,   \* g_lastFiredSector
  resolved,    \* what the last tick resolved (g_lastResolvedSector, g_lastIsSelf)
  handoff,     \* the call of ForwardToSector the last tick made, or None
  redirect,    \* the slot of the GoToServer it sent, or None
  stay,        \* history: the neighbour's sector each player was last found in, 0 at home
  overruled    \* history: the players since whose last tick another's moved the latch

latch == <<lastSelf, lastFired, resolved>>
calls == <<handoff, redirect>>
seen  == <<stay, overruled>>

NoCalls == handoff' = None /\ redirect' = None
vars  == <<world, pos, lastPlayer, due, lastSelf, lastFired, resolved,
           handoff, redirect, stay, overruled>>

Resolve(p) == SectorForPos(world.self, world.neighbours, pos[p][1], pos[p][2])

\* g_lastIsSelf is initially true.
Init ==
  /\ world \in Worlds
  /\ pos \in [Players -> Coords \X Coords]
  /\ lastPlayer = None
  /\ due        = TRUE
  /\ lastSelf   = 0
  /\ lastFired  = 0
  /\ resolved   = [sector |-> 0, isSelf |-> TRUE]
  /\ handoff    = None
  /\ redirect   = None
  /\ stay       = [p \in Players |-> 0]
  /\ overruled  = {}

-----------------------------------------------------------------------------
\* GameConnection::setControlObject with a Player; clearing control (a null
\* object) leaves the captured player as it is.
SetControlObject(p) ==
  /\ lastPlayer' = p
  /\ UNCHANGED <<world, pos, due, latch, calls, seen>>

\* External: a player moves one unit.
Walk(p) ==
  /\ \E d \in {<<1, 0>>, <<-1, 0>>, <<0, 1>>, <<0, -1>>} :
       LET q == <<pos[p][1] + d[1], pos[p][2] + d[2]>> IN
       q \in Coords \X Coords /\ pos' = [pos EXCEPT ![p] = q]
  /\ UNCHANGED <<world, lastPlayer, due, latch, calls, seen>>

IntervalPasses ==
  /\ ~due
  /\ due' = TRUE
  /\ UNCHANGED <<world, pos, lastPlayer, latch, calls, seen>>

\* A tick within the interval returns at once; without a captured player the
\* tick only restarts the interval.
TickNoPlayer ==
  /\ due
  /\ lastPlayer = None
  /\ due' = FALSE
  /\ NoCalls
  /\ UNCHANGED <<world, pos, lastPlayer, latch, seen>>

\* What every other tick does first.
Tick ==
  LET r == Resolve(lastPlayer) IN
  /\ due
  /\ lastPlayer # None
  /\ due' = FALSE
  /\ resolved' = [sector |-> r.sector, isSelf |-> r.isSelf]

\* The latch is the server's, not a player's.
Found(sector) ==
  /\ stay' = [stay EXCEPT ![lastPlayer] = sector]
  /\ overruled' = (IF lastFired' = lastFired THEN overruled ELSE Players) \ {lastPlayer}

\* Off every grid: only the status is updated, the latch stays.
TickOffWorld ==
  /\ Tick
  /\ resolved'.sector = 0
  /\ NoCalls
  /\ UNCHANGED <<world, pos, lastPlayer, lastSelf, lastFired, seen>>

SlipLatchKept == lastFired

\* On our own grid the latch is cleared.
Unlatched == 0

TickSelf ==
  /\ Tick
  /\ resolved'.sector # 0
  /\ resolved'.isSelf
  /\ lastSelf'  = resolved'.sector
  /\ lastFired' = Unlatched
  /\ NoCalls
  /\ Found(0)
  /\ UNCHANGED <<world, pos, lastPlayer>>

\* Still in the sector that was forwarded to last.
TickLatched ==
  /\ Tick
  /\ resolved'.sector # 0
  /\ ~resolved'.isSelf
  /\ resolved'.sector = lastFired
  /\ NoCalls
  /\ UNCHANGED <<world, pos, lastPlayer, lastSelf, lastFired>>
  /\ Found(resolved'.sector)

\* An assumed nine sectors per world.
PeerWorldId(sector) == (sector - 1) \div 9 + 1

\* RedirectCapturedClient clamps the id to the client's slots 1..49.
Slot(id) == IF id > 49 THEN 49 ELSE id

SlipNoLatch(sector, queued) == IF queued THEN sector ELSE lastFired

\* The latch is set before ForwardToSector has said whether it was queued.
Latched(sector, queued) == sector

\* A neighbour's sector that is not latched: latch it, forward, redirect.  What
\* ForwardToSector returned is logged and has no other effect.
TickFire(queued) ==
  LET r == Resolve(lastPlayer) IN
  /\ Tick
  /\ r.sector # 0
  /\ ~r.isSelf
  /\ r.sector # lastFired
  /\ lastFired' = Latched(r.sector, queued)
  /\ handoff'   = [sector |-> r.sector, x |-> r.x, y |-> r.y, world |-> r.world]
  /\ redirect'  = IF r.host THEN Slot(PeerWorldId(r.sector)) ELSE None
  /\ Found(r.sector)
  /\ UNCHANGED <<world, pos, lastPlayer, lastSelf>>

OnTick ==
  \/ TickNoPlayer
  \/ TickOffWorld
  \/ TickSelf
  \/ TickLatched
  \/ \E queued \in BOOLEAN : TickFire(queued)

Next ==
  \/ \E p \in Players : SetControlObject(p) \/ Walk(p)
  \/ IntervalPasses
  \/ OnTick

Spec == Init /\ [][Next]_vars

-----------------------------------------------------------------------------
(* Properties.                                                              *)

\* Every variable has its type.
TypeOK ==
  /\ world \in Worlds
  /\ pos \in [Players -> Coords \X Coords]
  /\ lastPlayer \in Players \union {None}
  /\ due \in BOOLEAN
  /\ lastSelf \in Nat /\ lastFired \in Nat
  /\ resolved \in [sector : Nat, isSelf : BOOLEAN]
  /\ handoff = None \/ handoff \in [sector : Nat \ {0}, x : Int, y : Int, world : Nat \ {0}]
  /\ redirect \in (1..49) \union {None}
  /\ stay \in [Players -> Nat] /\ overruled \subseteq Players

\* world_grid.h on cells and ids, for every position a player stands on: a
\* position of our own grid is in the sector SectorForPos returns and in no
\* other, a position handed to a neighbour lies in that sector of the
\* neighbour, in the neighbour's coordinates, and no position of our own grid
\* is taken for a neighbour's.
SectorsAsDeclared ==
  \A p \in Players :
    LET r == Resolve(p)
        own == SectorsAt(world.self, pos[p][1], pos[p][2]) IN
    /\ own # {} <=> r.isSelf
    /\ r.isSelf => own = {r.sector}
    /\ r.world # 0 => SectorsAt(world.neighbours[r.world].grid, r.x, r.y) = {r.sector}

\* "the neighbour's grid is stitched directly against ours at the named edge":
\* a position beyond an edge that stitching puts inside a neighbour is resolved
\* to a neighbour, and to the stitched coordinates of that neighbour, so a
\* player who leaves our grid by one of its edges comes in at the other side.
StitchedAtEdge ==
  \A p \in Players :
    LET x == pos[p][1]
        y == pos[p][2]
        r == Resolve(p)
        Leads(i) == LET nb == world.neighbours[i]
                        l == Stitched(world.self, nb, x, y)
                    IN  Beyond(world.self, nb, x, y) /\ Covers(nb.grid, l[1], l[2]) IN
    ~r.isSelf =>
      /\ r.world = 0 => \A i \in 1..Len(world.neighbours) : ~Leads(i)
      /\ r.world # 0 => /\ Leads(r.world)
                        /\ <<r.x, r.y>> = Stitched(world.self, world.neighbours[r.world], x, y)

\* "Fire once per entry": a tick that finds a player in a neighbour's sector hands
\* him over to it if his last one found him elsewhere, whether or not an earlier
\* forward was queued, and not if he was there already, however long he stands or
\* strays off every grid.  So it is while no other player's tick has moved the
\* latch since his last one; after that, anything may happen.
FiresOncePerEntry ==
  [][Tick /\ lastPlayer \notin overruled /\ resolved'.sector # 0 /\ ~resolved'.isSelf
       => IF stay[lastPlayer] = resolved'.sector THEN handoff' = None
          ELSE handoff' # None /\ handoff'.sector = resolved'.sector]_vars
=============================================================================
