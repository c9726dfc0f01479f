# A verification project for LiF:x Plus

LiF:x Plus adds hooks to the server of *Life is Feudal: Your Own* (a DLL, C++)
and a small daemon, `lifxd` (Rust), through which several game servers hand
players over to one another.  This directory holds TLA+ models of that code, the
TLC runs that check them on small instances and TLAPS proofs for every instance.
The source is the reference: `PROJECT.json` maps each definition to the lines it
was translated from.

## Inventory

| Component | State it keeps | Operations | Hard behaviour |
|---|---|---|---|
| `lifxd` (`daemon/src/main.rs`) | tables `dispatcher_worlds`, `dispatcher_sectors`; registry `peer_id -> sender`; per connection a reader task, a writer task, a bounded queue | hello and registration, ping, forward, claim, resolve, clean-up | tasks interleave at every await; reconnects overtake clean-ups; bounded queues; restart keeps only the tables |
| Dispatcher client (`hooks/dispatcher`) | `g_queue`, `g_sessionUp`, `g_resolveCbs`, the socket | `SendTo`, `ResolveSector` (engine thread); session loop, reconnect (session thread) | two threads and two locks; the queue and callbacks outlive a session; partial failure when the queue is full |
| Sector handoff (`hooks/netevent/sector_handoff_event.cpp`) | engine net event, queue of injected events | `ForwardToSector`, `TriggerSampleForward`, pack/unpack, inject | a resolve and a send chained by a callback; no acknowledgement |
| World grid, edge driver, client redirect (`hooks/sector`), captured player (`hook_set_control_object.cpp`) | the configured grids, the latch, the last captured player | `SectorForPos`, `OnTick`, `RedirectCapturedClient` | half-open edges, coordinate changes, one latch for everybody |
| Server lifecycle and config (`dllmain.cpp`, `cm_server.cpp`, `hooks_engine.cpp`, `cm_aux.h`) | parsed configuration, Detours transactions, attached hooks, byte patches | attach, `ConsoleInit`, detach, parsing of claims and grids | which transaction an attach falls into; one function attached twice; partial failure; a lock that is not recursive |
| Outposts (`api/lifx_outpost.cpp`, `hooks/outpost`) | five distances, two patched call sites | set and get, the getters the engine asks | two distances share one engine getter |
| Bandit combat (`hook_setanimation.cpp`) | `g_stam`, `g_pendingHit` | animation requests, the frame tick | a tree that asks in the middle of a swing; capped arrays per frame |
| Bandit spawns, ghosts and graves (`api/lifx_hostile.cpp`, `hook_animal_*.cpp`, `hook_container_init.cpp`, `hook_npcdec_pack.cpp`, client `hook_equip_unpack.cpp`) | managed nodes, ghosted NPCs, loadouts, armed grave fill | spawn, re-scope, pack and unpack, death, fill, reload | tables keyed by addresses that are used again; state armed by one engine callback and consumed by the next; rows committed by another thread |
| AI behaviour nodes (`hook_behavior_node.cpp`) | node memory, `g_npcState` | load and process of nine nodes | parameters and destinations in the same words; cooldowns of reused ids |
| Damage to players (`hook_vital_process_tick.cpp`, `hook_onepunchman.cpp`, `hook_apply_damage.cpp`, `api/lifx_character.cpp`) | the registry of players' objects, the pacifist flag, the staged override | tick, blow, admin commands | objects freed and reused behind the registry |
| Effects and timers (`api/lifx_effects.cpp`, `api/lifx_timers.cpp`, `hooks/effect`) | overrides of a duration, the players' rows | apply, edit, clear, broadcast | 32-bit times; an edited row passes the hook again |
| Battlezones (`api/lifx_battlezone.cpp`, `hook_battlezone_containment.cpp`, `battlezones.cs`) | zones, exemptions, the player being checked | create, arm, delete, containment, arenas | nested checks; ids read back from a list |
| Drops and recipes (`hook_gem_drop.cpp`, `hook_tunnel_drop.cpp`, `hook_tree_drop.cpp`, `hook_recipe_starting_tools.cpp`) | weighted tables, attached flags | configure, attach, answer | malformed sections, a transaction that fails for all |
| Encrypted files (`core/crypto`, `hook_filestream.cpp`) | table of decrypted streams by address | open, read, seek, size, destroy | a stream object reopened or reused |
| Configuration documents (`core/tinyxml2`) | pools, node lists, strings rewritten in place | edit, parse, print, read and set values | pointer edits; who owns a node; escaping and line ends over a save |
| Furnace and working-object hooks, client DLL, loader, memory patching, cipher | almost none | pass-through | - |

**How they interact.**  A vital-params tick calls `SectorEdge::OnTick`, which asks
`WorldGrid::SectorForPos` where the captured player stands.  In a neighbour's
sector it calls `SectorHandoff::ForwardToSector`; that calls
`Dispatcher::ResolveSector`, whose callback, run by the session thread when the
daemon replies, calls `Dispatcher::SendTo` with the owner's peer id.  The session
thread writes the forward frame to `lifxd`, which looks the target up in the
registry and pushes a delivery on its queue; the target's session thread passes it
to the delivery callback.

**What makes each correct.**  Daemon: the registry holds exactly the live sessions,
frames reach the addressed peer and never return, peer ids and claims last, broken
sessions are reaped.  Client: an accepted call is sent once or lost with its
session, never twice; callbacks belong to calls that are waiting.  Together: a
handoff reaches at most one server, the right one, at most once.  Grid: each
position has one sector, and a player who leaves by an edge comes in at the other
side.  Driver: one fire per entry, none for standing still,
for a player whom no other takes turns with.  Plugin: a call of a
hooked function returns; a distance moves no other.  Bandits: a hit is seen and
lands once per swing, a winded one recovers, the tomb of each holds what it wore,
every player sees every NPC, nodes act on players who are there and swing no more
often than they say.  Character hooks: a pacifist harms no player.  Effects: an
applied resurrection lasts as configured, on server and clients.  Zones hold who is
not exempt.  Drops come from the file where a section is right and from the engine
elsewhere.  A decrypted stream behaves like a plain one.  A document is a tree at
all times, the tree that was written, and what is saved reads as what was meant.

## Modules

| Module | What it is |
|---|---|
| `Daemon` | `lifxd`: tables, registry, reader and writer task per session |
| `DaemonProofs` | its theorems |
| `DispatcherClient`, `ClientProofs` | the client of every game server with its two threads; its theorems |
| `Handoff` | abstract specification: what the federation promises about a payload |
| `Federation`, `FederationProofs` | `DispatcherClient` and `Daemon` (by `INSTANCE`) joined by TCP streams; refines `Handoff`; its theorems, built on those of its sides |
| `Numbers` | lemmas on quotients, least elements, sums over the first numbers and places in an order |
| `WorldGrid`, `PluginProofs` | the pure geometry, with reference definitions taken from the comments; its theorems |
| `SectorEdge`, `PluginProofs` | the edge driver, the captured player and the redirect, on top of `WorldGrid`; its theorem |
| `BanditCombat`, `NpcProofs` | charged attack, stamina and hits of the bandits; their theorems |
| `BanditGraves`, `NpcProofs` | gear from creation to the tomb, the database thread included; its theorems |
| `NpcGhosts`, `NpcProofs` | managed spawns, re-scoping, the loadout block between server and client; their theorem |
| `NpcNodes`, `NpcProofs` | registration and process functions of the behaviour nodes; their theorems |
| `EncryptedFiles`, `PlainStreams`, `EventProofs` | hooked file streams, the plain streams they implement, and the proof that they do |
| `DropHooks`, `EventProofs` | the gem, tunnel, tree and recipe tables and their hooks; their theorem |
| `CharacterHooks`, `PluginProofs` | identity, pacifists, the damage override; its theorem |
| `Effects`, `PluginProofs` | rows of timed effects and the overridden resurrection; its theorem |
| `Battlezones`, `PluginProofs` | zones, exemptions, containment, arenas; their theorems |
| `HandoffEvent`, `EventProofs` | registration, senders, layout and delivery of a handoff; its theorem |
| `ServerHooks`, `PluginProofs` | life of the plugin's hooks, the dumper's lock, the outposts' distances; its theorems |
| `XmlForest`, `XmlDom`, `DomProofs` | ordered trees with moves, the pools and pointers that implement them, and the proof that these stay whole |
| `XmlReader` | `XMLDocument::Parse` over lexemes, on top of `XmlDom` |
| `XmlPrinter` | `XMLPrinter` over the documents of `XmlReader` |
| `XmlText` | the strings and numbers of an element, byte by byte |
| `MCGameplay` | composition of `DispatcherClient` and the ten modules `BanditCombat` to `HandoffEvent` |
| `MCPlugin` | composition of `SectorEdge`, `ServerHooks`, `XmlDom`, `XmlReader`/`XmlPrinter` and `XmlText` |
| `MCFederation`, `MCClient`, `MCSectorEdge` | instances for TLC (`MCFederation` also lets the daemon of `Federation` run alone; the worlds of `MCSectorEdge` are used by `MCPlugin` too) |

An operator whose name starts with `Slip` is a bug one could plausibly write in
place of the operator that follows it.  Nothing uses it; replacing the real
operator by it must break a property, which shows that the property says something.

### Daemon

`stage[s]` is where `handle_peer`, `reader_loop` and `forward` stand for
connection `s`.  Between two stages lies one await at which another task may run:
the round trips to MySQL inside `upsert_world` (`UpsertExisting`, `UpsertMissing`,
`UpsertInsert`), the registration (`Register`), a send to the own queue
(`Answer` sets `pending`, `SendReply` completes it), the look-up and the `try_send`
of a forward (`ForwardLookup`, then `ForwardDeliver` or `ForwardFailed`), and the
two halves of the clean-up (`Cleanup`, `Close`).  `queue` and `writing` are the mpsc
channel and its receiver; `WriterEnds` needs every clone of the sender gone
(`HasSender`), including the clone a forward of another session holds.  `alive` is
the TCP connection, `ConnectionLost` breaks it at any moment, and `Restart` keeps
only the two tables.  `touch_peer` (a time stamp) and log lines are left out; a
payload is a name, some names being invalid base64; a database error ends the
session like any other error (`ReaderError`, `HelloRejected`).

A server may connect while the daemon still holds its previous session: `RunForever`
reconnects after a second, the daemon notices a dead connection when TCP does.

### DispatcherClient

A call is a `SendTo` or a `ForwardToSector` of the engine thread, with `pc` at the
locks it still has to take; the check of `g_sessionUp` is the first step and takes
no lock.  `phase` is where `runSession` stands.  `cbs` is `g_resolveCbs`, `running`
the callback the session thread has moved out of it.  A session ends in any phase
that touches the socket; what it leaves behind (`queue`, `cbs`) is kept, as in the
code.  `asked` counts the resolve frames of the current session that are not
answered; `ReceiveReply` needs one, which is an assumption on the daemon that
`Federation` discharges (`RepliesWereAsked`).

### Federation and Handoff

The two components are instances over shared variables; the proofs are in `FederationProofs`.  A step is a step of one
side alone, or a joint one: a frame written (`ClientSends`, `DaemonWrites`) or read
(`DaemonReads`, `ClientReads`, `ClientReadsAck`).  A connection is a pair of frame
streams.  After a client has closed its socket the daemon may still read what it
had written; a write to a connection whose other end is gone may succeed and be
lost.  The refinement maps a payload to `travelling` while a copy of it is in the
client's queue or batch, on a stream, in a daemon queue or in a reader's hand;
the servers it was delivered to are `received`, so a second delivery is no step of it:
`Handoff` allows it to be delivered once or dropped, and nothing after that.
A select that times out with an empty send queue is left out: it changes nothing.
`MCFederation` also has behaviours of the daemon alone, in which clients connect and send
as they like, bad payloads included, and connections break any number of times; and
`MCGameplay` has the client alone, with a daemon that owes it nothing.

### WorldGrid and SectorEdge

A cell is `2 * half` wide so that half a cell is an integer; rounding of floats is
left out.  `SectorsAt` and `Stitched` are reference definitions written from the
comments in `world_grid.h` rather than from the code: the square around a cell's
centre, and equal distance on both sides of a shared edge.  As in the code, the
coordinate along the edge is not translated.  `SectorEdge` has one action per way
through `OnTick`; `handoff` and `redirect` are the calls the last tick made.  Two
histories are for the property: `stay` is where each player's own ticks last found him,
and `overruled` are the players since whose last tick the latch was moved by another's.
`FiresOncePerEntry` compares a tick with the player's own last one, and says nothing of an
overruled player: the latch is one for everybody.

### The gameplay parts

The ten modules of this section run on the engine's main thread unless they say
otherwise.  The engine is external: what it may call, when it may free an object and
give its address to another, is the nondeterminism of each module, taken from what
the hooks are written against.

**`BanditCombat`** (`hook_setanimation.cpp`).  `OnSetAnimation` is the hook the
behaviour tree's requests go through; its four ways out (locked, winded, an attack,
anything else) are its disjuncts.  `OnHitTick` is the frame tick: phases, stamina, the
queue of hits, each capped array filled in the order of a hash table and hence with an
arbitrary choice.  `Forget` is the death.  Clocks are ages, so that behaviours are
finite.

**`BanditGraves`** (`hook_animal_create.cpp`, `hook_animal_death.cpp`,
`hook_container_init.cpp`, the loot half of `lifx_hostile.cpp`).  A death arms a fill
for the shared character, then fires the trigger that makes the tomb, inside which the
engine may load the container at once (`sync`) or later (`AccessTomb`).  The load of a
container takes what is armed, writes the rows as one statement to the database
thread, which commits it at any time (`CommitWrite`), reloads the container captured last
and schedules another reload of whichever that is then (`DeferredReload`).  `had` is what
each bandit wore, and `overtaken` the dead that another death or another tomb came before:
`OwnTombFilled` is about the others, `NoPartialTomb` about all.

**`NpcGhosts`** (`lifx_hostile.cpp`, `hook_npcdec_pack.cpp`, the client's
`hook_equip_unpack.cpp`).  Managed nodes, the tick that rebuilds what is gone, the
re-scoping of everything when a player enters, and the block of loadout bits that the
server appends to an update and the client takes off it.  All tables are keyed by
address; addresses are freed and used again on both sides.

**`NpcNodes`** (`hook_behavior_node.cpp`).  Registration of the node classes when a
tree is loaded, and the process functions of the nodes as operators on one record, the
NPC; `Tick` is one evaluation of a selector whose first branch attacks.  The words
`+0x40` and `+0x44` of a node are `w0` and `w1`: parameter and destination at once,
as in the code.

**`EncryptedFiles`** (`core/crypto`, `hook_filestream.cpp`) and **`PlainStreams`**.
The table of decrypted streams by address against the engine's own streams.  Contents
are a file, whether it is deciphered, and a length; the cipher is left out.
`PlainStreams` is a stream over one content from open to close; the refinement maps
what the engine sees through the hooks.

**`DropHooks`** (`hook_gem_drop.cpp`, `hook_tunnel_drop.cpp`, `hook_tree_drop.cpp`,
`hook_recipe_starting_tools.cpp`).  Each section of the file through its parser
(`Configure…`), the diversion of the engine's code, and the answer of each hook to a
call.  `DropsAsConfigured` reads the promises off the XML again, not off the parsed
tables: `Promised` are the calls the file has an answer for, because the section is
enabled and right in every attribute; such a call gets that answer (a dig by its own
entry, a recipe by its tool, skill and materials), and every other call, those of a hook
whose code was not the expected one (`refused`) included, the engine's.  `FairTickets`
counts the tickets that lead to each item.  The cumulative weights,
the sums of a dig and the comparisons of the trampoline are folds; the sort of the tree
table is stated by its result (`ByType`: an item's place is the number of smaller types).
An attribute is a number, missing or malformed (`Attribute`).

**`CharacterHooks`** (`hook_vital_process_tick.cpp`, `hook_onepunchman.cpp`,
`hook_apply_damage.cpp`, `lifx_character.cpp`).  The registry from characters to
objects that is filled by the vital tick and pruned by nobody, the pacifist flag, the
staged override and every command that applies a packet.  `ticked` is a ghost: the
objects the tick has seen since they were made.

**`Effects`** (`lifx_effects.cpp`, `lifx_timers.cpp`, `hooks/effect`).  One row per
player and effect on the server, the same on the clients; engine and commands alike go
through the hooked broadcaster, which gives Resurrected another expiry and mirrors it
into the row.  Times wrap at `Word`.

**`Battlezones`** (`lifx_battlezone.cpp`, `hook_battlezone_containment.cpp`,
`battlezones.cs`).  The engine's zone list, the read-back of an id, arming and deletion,
the arenas a script ends later, exemptions, and the player being checked, saved and
restored around nested checks.  A zone is made armed, as `docs/battlezones.md:40` and `:58`
have it, so one that a script makes confines before it is armed; and the engine may
refuse to make one.

**`HandoffEvent`** (`sector_handoff_event.cpp`, the end of `AttachHooks`).  The order
of registration, callback and session, the three ways a handoff is written (event,
payload, text), and the two receivers (log, inject) that read it at their own offsets.
Payloads are functions from word numbers to words.  The transport is reduced to
"carried or dropped", which `Federation` is about.

**`MCGameplay`** puts these ten and the client side by side: they share no state, so `part` says which
of them a behaviour moves, and a state of one run is a state of one part.  Each
property is about one part; each part's fairness is stated for its own behaviours.

### The plugin parts

**`ServerHooks`** (`dllmain.cpp`, `cm_server.cpp`, `hooks_engine.cpp`, `cm_aux.h`,
`hook_netclassrep_dumper.cpp`, `lifx_outpost.cpp`, `hooks/outpost`).  A Detours
transaction is a record; beginning one inside another changes nothing, and an attach
outside of one does nothing, which decides what `DllAttach`, `ConsoleInit` and
`DllDetach` really do.  `hooked[e]` counts how often a function is diverted: a function
attached twice in a transaction leads back to its own hook.  The threads of the engine
then go through the two functions the dumper diverts, step by step where the log's lock
is taken, and `Consulted(k)` is what the engine compares with for each of the five
distances.

**`XmlDom`** and **`XmlForest`** (`core/tinyxml2`).  A document is one value `dom`
and every call an operator from document to document: the pools with their free
lists, the list of nodes nobody has inserted, the four pointers of a node, attributes,
deletion in the order of the destructors.  The loops of `DeleteChildren` and `Clear` are
functions of the number of rounds (`DeleteFirstLeaf`, `DeleteFirstUnlinked`), with as many
rounds as there are nodes, and a round with nothing left to do does nothing.  `XmlForest` is the abstract specification
from the header: ordered trees, in which an inserted node is moved.  `crashed` is the
null pointer `InsertAfterChild` writes through in one case (see below); `LastAfterPrev`
says whether a caller may cause it.

**`XmlReader`** extends it with `XMLDocument::Parse`: the recursion is the stack
`open`, a text is a sequence of lexemes chosen while it is read, and the property
compares the document with `WrittenTree`, which counts tags and knows no stack.
**`XmlPrinter`** adds the printer as operators on a record; a document that was read is
printed in both forms and compared with its own text.

**`XmlText`** is the strings: `StrPair` rewriting its buffer in place at the first
read, character references, white space, what a program sets, the numbers, a deep
copy, and saving and loading again.  Characters are bytes here because the properties
are about escaping.  `Denoted` is the reference: what a text stands for, front to back
without a buffer.

**`MCPlugin`** puts `SectorEdge`, `ServerHooks`, the edits of `XmlDom`, `XmlReader` with
`XmlPrinter`, and `XmlText` side by side in the same way as `MCGameplay`.

## Runs

| Run | Instance | States | Shows |
|---|---|---|---|
| `federation` | 2 servers, 1 call, 1 sector, 3 sessions, 1 fault; and the daemon alone with 2 servers, 2 sessions, 1 sector, queue of 1, a good and a bad payload | 1368k | the daemon's tables within a state and across restarts; replies were asked for, the addressee gets it, refinement of `Handoff` |
| `daemon_live` | 2 servers, 2 sessions, 1 payload, queue of 1, fairness | 218k | types and queue bound, registry, routing; broken sessions are reaped, the reader is never stuck |
| `plugin` | the five parts of `MCPlugin` | 275k | sectors and their edges, one fire per entry; hooked calls return, distances are independent; a document stays whole under edits and refines `XmlForest`, is the one that was written, is printed as it was written; its strings mean what was meant |
| `gameplay` | the eleven parts of `MCGameplay` | 190k | one forward per call, no dangling callback, accepted payloads are written; swings, graves, ghosts, nodes, decrypted streams (refinement of `PlainStreams`), drops, pacifists, effects, zones, handoff events |

Expected violations, each a disagreement of the code with its own documentation
(details and quotations in `PROJECT.json`, `findings`):

| Run | What TLC shows |
|---|---|
| `daemon_reconnect` | a server reconnects before its old session is cleaned up; the registry has one entry for both, whichever of them wrote it last, and the clean-up of the one (`main.rs:276`) removes it; the other, live, is `unknown_peer` from then on |
| `daemon_hello` | a delivery can be queued before `hello_ack`; the client then takes it for the ack and it is lost |
| `client_rollback` | a `ResolveSector` refused by a full queue erases the callback of an accepted one |
| `sector_edge_west` | off the west or south edge no neighbour is found |
| `tomb_mixup` | a tomb loaded between a bandit's death and the load of the bandit's own tomb gets its gear |
| `tomb_reload` | the deferred reload runs before the rows are committed, or on another container than the one that was filled: a tomb whose rows are in the database shows none of them and no reload is left |
| `zone_refused` | the engine refuses a zone, `createBattleZone` reads back the id of another one, and an arena runs in a zone that is not its own |
| `chase_radius` | `ChaseTarget` keeps its destination in the word of its radius, and chases over any distance from the second move on |

A run asks one question of one family of parts.  `plugin` and `gameplay` take a few
minutes and so are runs of many parts: a state of `gameplay` belongs to one of its eleven
parts while the other ten stay in one initial state.

**Type invariants.**  `Daemon!DaemonTypeOK` and the conjunction `GameTypeOK` are checked (the
first is proved as well).  `DispatcherClient!TypeOK`, `Federation!TypeOK` and
`SectorEdge!TypeOK` document the shape of the states and are checked by no run; the
first is proved (`ClientTypes`), and so is `NoSelfDelivery` (`NoEcho`).

**Disagreements no run is spent on.**  The models contain them, or leave them out
where it says so.

- Dispatcher: `SendTo` can return true for a session that is over, the frame then goes
  out in a later session (`dispatcher_client.cpp:518`); sector claims beyond the room
  of the queue are skipped while the log counts them as queued (`:437`).
- Edges: players who take turns break "fire once per entry, standing still must NOT
  re-fire" (`sector_edge_trigger.cpp:87-90`).  The latch is one for all: a player at home
  who is captured and ticked opens it, and one who stands in a neighbour's sector fires
  again; a player who enters the sector that another has just fired for does not fire at
  all.  `FiresOncePerEntry` without its condition `lastPlayer \notin overruled` is
  violated, by the second form, in six states.  An unset `<worldGrid>` does not disable handoffs to a configured neighbour, which
  `lifxpluss.xml:93` promises.
- Handoff events: `InjectFromWire` asks for the size of a payload and not for its
  version, so a text of 104 bytes is processed; `ourPack` writes 26 words of which
  `ourUnpack` reads none.
- Hooks: on unload the transaction `Server::DetachHooks` begins is the one of `DllMain`,
  which it commits; the core hooks, detached after that, stay.  It also leaves out
  `OnePunchMan`, the two battlezone detours, the drop hooks, the dumper's two and the
  patched slot of `Animal`.  The `attached` flags of drop hooks stay set when a later
  attach makes the commit fail.  `docs/outposts.md` calls the distances independent;
  where a call site was not patched, its check follows the default radius.
- NPCs: nothing is ever erased from `g_hostiles`, `g_loadouts`, `g_applied` and
  `g_stam` but by a death, so a reused address inherits the entry until it is
  overwritten.  `ReturnToHomePosition` keeps its moving flag when another branch takes
  over.  `FleeFromTarget` stores its destination over its radius like `ChaseTarget`.
  A `CooldownGate` named "attack" shares its clock with `AttackTarget`.
- Damage: `g_pendingOverride` of `hook_onepunchman.cpp` is set by nobody.  An override
  staged for the next hit is taken by whichever command hits first.  The registry is
  never pruned: a command for a character who left writes to a freed object.  That
  write is excluded in the model (`Command`), not excused.
- Effects: where an override of Resurrected (47) is configured, the broadcaster puts it
  back (`hook_broadcast_effects.cpp:40-50`), counted from the time the row was applied.
  `lifxSetEffectExpiry(47, ..)` and `lifxExtendEffect(47, ..)`, which are the examples of
  `docs/effects.md:19-21` and `:29-34` and of `lifx_effects.cpp:656` and `:673`, then
  change nothing, and `lifxBroadcastEffect`, documented to broadcast without modifying
  (`lifx_effects.cpp:690`), may change the row.  `ResurrectionAsConfigured` therefore
  promises a time for what the engine gives only, and of edits of 47 no more than
  that server and clients agree.  A resurrection whose end wraps past the word is taken
  for a removal and passed on as it is.
- Graves: the gear of a bandit that is overtaken by another death or tomb goes where the
  next load is; `tomb_mixup` and `tomb_reload` show two of the forms.  A second fill
  replaces a first that was not taken, whose rows are then nowhere.
- Documents: a text that no tag follows, or only a lone `<` at the end of the file, is
  dropped with an error (`tinyxml2.cpp:1217-1224`); a closing tag with nothing open ends a parse without an error and without
  the rest of the file; `</a/>` closes nothing and reads as `<a/>`; a parse of a file that fails leaves the pools'
  untracked counts too high, which an assertion of `Clear` would meet in a debug build;
  moving the last child behind the child before it writes through a null pointer,
  while `tinyxml2.h:857-864` calls it a move (`LastAfterPrev = FALSE` keeps the run from
  it).
- Strings: an ampersand that begins no entity is passed without being written, so after
  an entity that made the text shorter a stale byte is read (`&lt;&foo;` reads `<lfoo;`;
  such texts are not among `MCFiles`); `&#` at the end of a text loses its ampersand;
  `GetText` looks behind comments while `SetText` and `QueryIntText` do not; a carriage
  return that was written `&#13;` is saved unescaped and read as a line feed.

**Bounds.**  Two servers and two sessions suffice for an old and a new session of
one server, for two sessions of a new server racing through `upsert_world`, and for
a sender and a target; the third session of `federation` combines them.  A queue of
one frame is full as soon as it is not empty, so back-pressure and refusals are
everywhere; in the client of `gameplay` two frames leave room for a claim and a resolve, and a third
call finds the queue full.  `MaxFaults` bounds the failures of one behaviour of
`Federation`: with one, a server has a broken and a new connection, or everybody
reconnects to a restarted daemon.  With the fault used up and the payload settled
nothing can happen any more, hence no deadlock check there.  `WireMax` bounds a TCP
buffer.  The positions of `SectorEdge` reach one cell beyond each edge with a
neighbour, with cells as wide as ours and twice as wide.  Servers, sessions and peer
ids are symmetric in the safety runs whose definitions name none of them.

In `gameplay`: two bandits and `DueCap = 1` make hits compete for a frame; `FrameGap`
is shorter than what is left of the fire phase after the contact, as a frame is in the
code (tens against hundreds of milliseconds).  Two bandits and one player's tomb give every
order of two deaths, loads, commits and reloads, those that overlap included.  Two addresses and one client are the least with a reused
address; a line of four positions has places in and out of every radius.  Six files
cover the header checks and both sides of the end of the plaintext; two streams are a
reused object and another.  Sections of a drop table: off, malformed, the chance alone,
items alone, duplicates, a range; at most one section of the file is unusual at a time,
since the sections share nothing but the transaction.  `Word = 8` makes the clock wrap in a window.
`MaxLand` and `MaxNested` of two are two arenas and a check within a check; one place
makes them compete for it, and `zone_refused` has two places, so that a wrong zone can be
elsewhere.  `MaxWire`
of two lets payloads overtake one another.  Health bottoms out with death, so
behaviours of `CharacterHooks` are finite.

In `plugin`: blocks of two items and three nodes make a pool take a second block;
`MaxDepth = 4` is reached by five lexemes, and five lexemes hold two elements closed,
mismatched, or stray, and text that ends in a tag, in a lone `<` or in nothing.  One of
the two players walks everywhere, the other along the southern row: both are at
home and in the eastern neighbour, in either order.  Numbers of 8 and 16 bits have the wrap and the signs of 32 and
64.  `MCTexts` are the texts in which line ends, white space, entities and broken
references meet.  `BuiltMax` and `DumpedAdds` of one separate the first from the next.
Neither run checks for deadlock: a parse ends, bandits die, a plugin is unloaded for
good.

**Fairness.**  Tokio polls every ready task, so each task's step is weakly fair.
`SendReply` is strongly fair: a waiting `send` of an mpsc channel owns the next free
slot before any later `try_send`, because its semaphore is first-in first-out.
`ReaderEof` is strongly fair: a broken connection holds finitely many unread frames, and
TCP tells the reader of the break.  That is taken for granted: the daemon sets no
keepalive and no read timeout, so a peer that vanishes without a word is noticed by the
next write to it at best, and `BrokenSessionReaped` is about breaks that TCP reports.
`WriteFrame \/ WriterFails` is weakly fair: a write completes or its socket fails,
which the client's socket timeouts bring about.  Nothing is assumed about clients
connecting, about errors or restarts.  In the client the session thread and a call
that has begun keep running; the daemon owes it nothing, a `select` that times out
is progress enough.

The server calls the frame tick every frame (`CombatFrame`); the tree's requests are
not fair, and `WindedRecovers` holds against them.  `SpawnTickOf(n)`: the script schedules
the tick for ever, and the engine does not refuse to build an NPC for ever.
`HookStep(t)`: a thread of the engine keeps running; the log's lock is held only for
the first entries, so that it is free in the end.

## Proofs

`DaemonProofs` proves, for every choice of the constants that `DaemonAssumption`
allows (`None` is a value of its own, the queue depth is positive):

| Theorem | Result |
|---|---|
| `TypeCorrect` | `[]DaemonTypeOK`, queue bounds included |
| `RegistryFresh` | `[]NoStaleRegistration` |
| `ForwardAddressed` | `[]ForwardReachesAddressee` |
| `NoEcho` | `[]NoSelfDelivery` |
| `TablesConsistent` | `[]TablesSound`: peer ids distinct, sessions under the id of the table, claims have owners |
| `TablesKept` | `TablesDurable`: claims and peer ids last, across restarts too |

*The argument.*  The properties are not inductive by themselves.  The invariant
`IInv` adds what each stage implies about a session's own variables (a serving
session has a peer, a forwarding one a target, a frame and a goal, a free one
nothing), what the tables imply, and the key to routing: a sender that is in the
registry **or held as a clone** belongs to a session of that very peer which has not
been closed, since `Close` waits for the last clone.  `TypeStep`, `SessionStep`,
`TableStep` and `RoutingStep` prove one part each, action by action; `Invariance` combines them.

`ClientProofs` proves three theorems about the client, for any number of servers, calls,
sectors and claims and any depth of the queue (`ClientAssumption`): `ClientTypes`,
`CallbacksNeverDangle` and `ForwardedOnce`, the last two for `NoDanglingCallback` and
`OneForwardPerCall`.  A payload moves from the call
to the queue and from there to a batch, which is written or lost with its session, so
neither property is inductive by itself.  The invariant `IInv` says that every forward
in a queue or batch carries the payload of an accepted call of this very server
(`FramesAreMine`), that no payload is in two frames (`FramesApart`), and that what is
accepted is in one (`AcceptedCarried`); a call that has not registered its callback yet,
or sends without one, is in no table (`CallInv`); and a session holds a batch only it sends (`SessionInv`).

`FederationProofs` proves what the composition promises, for any number of servers, calls,
sectors, peer ids and connections, any depth of queues and buffers and any number of faults
(`FederationAssumption`; `NoneIsNoFrame` says that `None` is no frame):

| Theorem | Result |
|---|---|
| `WholeHolds` | `[]Whole`: the inductive invariant of the composition |
| `Addressed` | `[]DeliveredToAddressee` |
| `Implements` | `ImplementsHandoff`, the refinement of `Handoff` |
| `Asked` | `[]RepliesWereAsked`, what `DispatcherClient` assumes of a daemon |

*The argument.*  Each step of the federation is a step of the client or a stutter, and a step
of the daemon or a stutter (`ClientStep`, `DaemonStep`), so that the invariants of
`ClientProofs` and `DaemonProofs` carry over, and with them what they say of a call, a
callback and a session.  `Whole` adds the types of the streams, that both ends agree on who is
connected (`Connections`), and where a payload is (`Paths`): a payload that has been written
is in at most one place of the four legs (a stream up, a reader's hand, a daemon queue, a
stream down), once, has been delivered to nobody yet, and its leg leads to the addressee: the
frame names the destination, the queue belongs to a session of that peer, the connection ends
at its server (`Right`).  A delivered one is at the server of its destination's id, once
(`Arrived`).  This gives `Addressed` at once; peer ids never change (`DaemonProofs!PeerIdDurable`),
which is why the id a sender resolved long ago still names the server that gets the payload.

For the refinement every step is one of four kinds: it puts no payload anywhere it was not
(`Quiet`: a payload may vanish, which is a drop), it accepts one into the client's queue
(`Put`), it moves one from a place to the next, or it delivers one, which `Paths` says was the
only copy.  For `Asked` an account is kept for each connection and sector: the resolve
frames on the way up, the answer the reader holds, and the answers in the daemon's queue and on the
way down are together no more than the questions the client still counts (`Ledger`).  No step
makes an account grow but the writing of a question, which `asked` counts, and a
new session starts with an empty account because its connection is a fresh one.


`PluginProofs` proves `PacifistsHarmless`, `CharacterSpec => []PacifistsHarmNoPlayer`,
for every set of characters and addresses and every scale.  The property speaks of the
last blow only; what makes it hold is the relation between the registry and the
objects: an object that the tick has seen since it was made is a player's, holds its
character's id, and is the one the registry has for that character, although the
registry keeps entries of objects that are gone and addresses are used again.  The
invariant adds that no two objects hold the same character, which is what the engine
keeps to (`Embody`).

`EventProofs` proves `HooksReadAsPlain`, the refinement `FilesSpec => ReadsAsPlain`, for
every set of files, stream objects and sizes of reads.  The invariant behind it: an
entry of the table is about the very file that the engine has open at that address,
one that deciphers, and its position lies within the plaintext; a stream without an
entry is at the position the engine knows.  Each hooked call then is a call of a plain
stream at its own address, and leaves the others where they are, in particular the
entry that a reused address leaves behind is gone before the new stream is read.

`PluginProofs` also proves `ZonesHoldRight`, `ZonesSpec => []HoldsTheRightPlayer`,
for every number of players and zones and every depth of nesting.  What makes it hold is
that the player being checked is the one on top of the stack of checks and every check
remembers the one below it (`Nested`); and that the throttle's clock is the time since the
player was told (`ThrottleTrue`).  That the id a script gets is the zone it made is false
(`zone_refused`); what is true of it is `ReadsBackItsOwn`: a zone that the engine does
make is the greatest at its place, so the read-back finds it.

In the same module is `ResurrectionsLast`, `EffectsSpec => ResurrectionAsConfigured`, for
any words, windows and script functions that answer with a time (`EffectsAssumption`).
The invariant is that what the clients hold is what the server holds.  `Wraps` is the
arithmetic, that a time later by less than a word wraps at most once; `Resolving` finds
the first of the four that asks for something; `Applying` puts both together for an
application by the engine, and `OthersKeep` says that the other effects pass the hook as
they are.

`EventProofs` also proves `HandoffsWhole`, `HandoffSpec => []HandoffsArriveWhole`, for every set
of worlds, configurations, handoffs and any number of payloads under way.  The invariant
is the layout that the builder, the engine's pack and the decoder must agree on, for
each kind of message on the wire (`WellFormed`), and what a server has that got past a
step of `AttachHooks` (`Prepared`).

The third theorem of `EventProofs` is `DropsFollowTheFile`, `DropsSpec => []DropsAsConfigured`,
for any sections, yields and recipes of the types in `DropAssumption`.  The invariant
(`DropsInv`) is short: a hook runs if its section is right in every attribute and its
code was the expected one, and only then; its table is the parsed section, and the
last answer is as configured.  The work is in what the parsers accept and the tables compute:

- *folds.*  The library's fold is a function chosen by an equation.  `Folds` shows that
  such a function exists, `SumsAdd` and `DropsGo` that it takes one value after the
  other.  What holds of all places is shown without induction over data: `Climb`, in
  `Numbers`, says that a set of numbers that has 0 and the next of each has all, because
  otherwise the others would have a least one (`LeastOf`);
- *tickets.*  The parts of the items are intervals that follow one another (`Grows`), a
  ticket in an item's part selects that item (`Selects`), every ticket is in some part
  (`Reached`), and so the tickets of an id number the weights of its entries (`Shares`),
  in whatever order they come and however often an id is repeated;
- *quality.*  `MeanQuality`: the rounded quotient, within the limits, misses the mean by
  half at most;
- *trees.*  Types differ, so their ranks are one to one and onto (`Ranks`); the sorted table
  has the items of the section and no other (`Sorted`), and the trampoline finds the one
  of the tree's type, or leaves the engine's choice (`Dropped`).

`NpcProofs` proves what the runs check of the hostile NPCs, except liveness:

| Theorem | Result |
|---|---|
| `NpcsSeen` | `[]NpcsAreSeen`, any number of players, nodes and addresses |
| `TargetsLive` | `[]TargetsAreLive` |
| `Spaced` | `SwingsSpaced` |
| `HitsSeen` | `[]HitIsSeen`, if `EnoughRoom` and `ShortFrames` |
| `OneHit` | `OneHitPerSwing`, under the same conditions |
| `WholeTombs` | `[]NoPartialTomb` |
| `TombsFilled` | `[]OwnTombFilled` |

*Ghosts.*  The NPC of a node is of the kind NPC, tracked, scoped to everybody
in the game, and its loadout is one it was given (`NpcAt`); an address that is free is
seen by nobody (`FreeAt`), which is what lets it be used again.

*Nodes.*  `g_npcState` keeps a target across ticks and across NPCs with the same id, and
players leave in between.  The proof follows one evaluation of the tree through its
process functions: the scan sets the target to a player who is there, or to nobody, before
a node reads it (`Npc` is what each function finds and leaves).  `AttackTarget` alone
starts the clock of the attack, and only when it has run out.

*Combat.*  For each bandit the invariant relates four pieces of state that the code keeps
apart: the entry of `g_stam`, the queued hit, the figure on the screen and the hits since
the last commit.  A hit is queued while FIRE is shown, for as long as it takes from the
start of that phase (its delay and the age of the phase add up to `Contact`), the swing
lock outlasts it, and a bandit that is not locked has landed its hit.  `EnoughRoom` says
that no more bandits fight than `plays[16]` and `due[8]` have room for
(`hook_setanimation.cpp:441`), `ShortFrames` that a frame is no longer than what is left
of FIRE after the contact (300 ms).  The run has two bandits and `DueCap = 1`,
so that hits that wait for a later frame are checked there, and not proved.

*Graves.*  The fill is armed by a death and consumed by whichever container is loaded
next.  The invariant (`LootInv`, in named parts) says that a fill holds what one dead
bandit wore, who has no rows yet; that a statement on its way to the database is the whole
outfit of one bandit, in one tomb, and so are the rows of the database and the items in a
container's memory; and that a dead bandit that nobody has overtaken is the one the armed
fill expects, until its own tomb is loaded and has everything.  Nothing is assumed about
deaths and loads that overlap.  What becomes of the others is `tomb_mixup` and
`tomb_reload`.

`PluginProofs` also proves the grid, the driver and two facts about the hooks:

| Theorem | Result |
|---|---|
| `Declared` | `[]SectorsAsDeclared`, any grids, positions and players |
| `Stitches` | `[]StitchedAtEdge` if `EastAndNorth` |
| `FiresOnce` | `FiresOncePerEntry`, any worlds and players |
| `Independent` | `KnobsIndependent` |
| `LogNotRecursive` | `[]NoSelfWait`: no thread waits for the log's lock while it has it |

*The argument.*  The code finds a cell by a division, `SectorsAt` by searching for the square
a position is in.  `Division` and `Quotient` (in `Numbers`) say that the quotient is the one number
whose multiple is not above and whose next multiple is above; so a covered position
is in one cell, the one `SectorOf` numbers, and a position that is not covered in none.
`SectorForPos` takes the first neighbour that covers; that there is a first one is `LeastOf`,
a set of numbers has a least element.  `Stitches` is about neighbours to the east and north
only: for the west and the south it is false, which is the finding of `sector_edge_west`.
`FiresOnce` rests on what the latch knows of a player that nobody has overruled: it is
closed for the very sector his last tick found him in, or open if that was at home
(`LatchInv`, `FoundHolds`).

`DomProofs` proves `DomIsSound`, `DomSpec => []DomSound`: for any size of a block, any kinds
and names and any number of nodes and attributes, pointers lead to nodes that exist and
back, the list of unlinked nodes is exact, and every item of a pool is free or in use once.
The assumption is `DomAssumption`: a block holds an item, and null is no item's name.

*The argument.*  The invariant is `DomInv`: a document that has not written through the null
pointer of `InsertAfterChild` is `Whole`, that is

- `Tree`: the links are whole, the last child included, and nothing loops.  `DomSound` says
  nothing about loops, yet without that a deletion need not end; `Lower` and `Before` number
  the nodes so that a parent is higher and the next sibling later;
- `Store`: every item of a pool is listed free or is the place of one thing, and no two
  attributes, of whatever elements, share one;
- `Tally`: a node without a parent is in the list once, and a pool's untracked items are
  those of such nodes, except for the nodes `F` that are on their way out of the list or
  back to it, and the nodes `G` out of the count.

Between calls both sets are empty.  Within a call they are not: `Unlink` leaves a node that
is in no list, `InsertChildPreamble` takes one out of list and count before it has a parent,
`DeleteNode` corrects the count before `MarkInUse` corrects the list.  So each call is a
chain of small steps, and each step has a lemma that says which node it takes or gives back
(`Unlinking`, `Appending`, `Prepending`, `Following` for the links alone, then the same for
the document).  A node that moves below `p` keeps the numbering because `p` is
outside a set that has the node and all below it (`Moving`, `Lowers`): the caller's promise that no
node is inserted below itself.  The way down to a first leaf ends because each step goes
lower (`Descended`), and the children are gone after as many rounds as there are nodes because
each round frees one (`Emptied`).  The swap in `SwapRemove` is why the list is
known as a set without repetitions (`Lists`), never by its order.

The assumptions are the `ASSUME`s of the modules, which every run evaluates for its
instance.  A theorem that needs more names it: `EastAndNorth` excludes what
`sector_edge_west` shows; `EnoughRoom` and `ShortFrames` are limits the code takes for
granted; `NoThread` is no thread.

Only model-checked:

- liveness and everything under fairness (`BrokenSessionReaped`, `ReaderNotStuck`,
  `AcceptedIsWritten`, `WindedRecovers`, `NodesRespawn`, `SendReturns`),
  which is beyond the prover;
- the rest of the documents.  That what was read, printed and understood is what was written
  (`XmlReader`, `XmlPrinter`, `XmlText`) compares the program with recursive references, and
  what a recursive definition computes is an induction over data, which is beyond the
  prover.  `ImplementsForest` is model-checked too: it needs the children of a node in
  order, which a walk along the next pointers collects; the proof of `DomIsSound` has the
  numbering of siblings such a proof would start from;
- `GameTypeOK`, the types of the gameplay modules at once; what each proof needs of them is part of
  its invariant;
- more fighting bandits than a frame has room for.

## Not modelled

- *Back-pressure between a client and the daemon* (`main.rs:304`): a client writes its
  batch before it reads, the daemon stops reading while its own queue is full.  The
  models have a bounded queue and a session that may end at any time, in which such a
  stand-still is the guard of `SendReply` and its end a `SessionEnds` by the socket's
  timeout; how long it lasts is not expressed.
- *The `<sectorClaims>` parser*: arithmetic on one line of text.
- *Furnace and working-object hooks*: each passes its call on; the reimplementation beside
  it is switched off at compile time (`kUseLifxReimplementation = false`).
- *Client DLL and loader*: rendering hooks, a proxy DLL and process start.  The parts of
  the client that belong to a protocol are in `NpcGhosts` and `EncryptedFiles`.
- *Memory patching, console glue, cipher, diagnostics*: byte patterns, formatting, and
  printing; the console filter and the dumper's contents.  What they decide (whether a
  site was patched, whether a file deciphers) is an input of the models.
- *Construction and equipping of NPCs* in `lifx_hostile.cpp`: sequences of engine calls
  at fixed offsets; only what they leave in the plugin's tables is modelled.
- *The rest of tinyxml2*: handles and sibling queries (read-only), `ShallowEqual`,
  floating-point conversion, the byte order mark, `XMLUnknown` beyond its pool.
- *Vendored code, scripts for reverse engineering, mods but for the arenas*: no part of
  the system's own logic.
