------------------------------- MODULE Daemon -------------------------------
(***************************************************************************)
(* lifxd, the dispatcher daemon (daemon/src/main.rs): the two MySQL tables, *)
(* the registry of live peers, and for every TCP connection the task that   *)
(* reads and handles frames and the task that drains its bounded queue to   *)
(* the socket.  Every await at which another task can run is a separate     *)
(* step.  A session name stands for a connection; it is used again once     *)
(* both tasks of the connection are gone and no sender of its queue is left.*)
(***************************************************************************)
EXTENDS Naturals, Sequences

CONSTANTS
  Uuids,           \* server_uuid of the game servers
  PeerIds,         \* ids upsert_world hands out
  Sessions,        \* TCP connections
  Sectors,         \* world_sector_id
  Payloads,        \* payload_b64 of a forward
  BadPayloads,     \* the payloads that are not valid base64
  QueueDepth,      \* WRITER_QUEUE_DEPTH
  None

ASSUME DaemonAssumption ==
  /\ QueueDepth \in Nat \ {0}
  /\ None \notin Uuids \union PeerIds \union Sessions \union Sectors
  /\ BadPayloads \subseteq Payloads

VARIABLES
  worlds,     \* dispatcher_worlds: server_uuid -> peer_id
  sectors,    \* dispatcher_sectors: world_sector_id -> peer_id
  registry,   \* Registry.peers: peer_id -> sender of that session's queue
  stage,      \* where handle_peer / reader_loop / forward stands
  uuid,       \* server_uuid of the hello
  peer,       \* peer_id of the session
  alive,      \* is the TCP connection intact?
  queue,      \* the mpsc channel
  writing,    \* is the writer task there, so that the channel is open?
  pending,    \* the frame the reader task is about to send
  target,     \* clone of the sender that forward looked up
  goal        \* target_peer_id of the forward

db   == <<worlds, sectors>>
task == <<stage, pending, target, goal>>
vars == <<worlds, sectors, registry, stage, uuid, peer, alive, queue,
          writing, pending, target, goal>>

-----------------------------------------------------------------------------
Reasons == {"unknown_peer", "self_route_refused", "target_buffer_full"}

HelloAck           == [kind |-> "hello_ack"]
Pong               == [kind |-> "pong"]
Delivery(p, d)     == [kind |-> "delivery", from |-> p, payload |-> d]
ForwardError(p, r) == [kind |-> "forward_error", to |-> p, reason |-> r]
SectorClaimed(k)   == [kind |-> "sector_claimed", sector |-> k]
SectorReply(k, p)  == IF p = None
                        THEN [kind |-> "sector_unknown", sector |-> k]
                        ELSE [kind |-> "sector_resolved", sector |-> k, peer |-> p]

Deliveries == [kind : {"delivery"}, from : PeerIds, payload : Payloads]

OutFrames ==
       {HelloAck, Pong}
  \union Deliveries
  \union [kind : {"forward_error"}, to : PeerIds, reason : Reasons]
  \union [kind : {"sector_claimed", "sector_unknown"}, sector : Sectors]
  \union [kind : {"sector_resolved"}, sector : Sectors, peer : PeerIds]

\* "hello": waits for the hello; "insert": upsert_world found no row;
\* "register": has its peer_id; "reply": sending pending on its own queue;
\* "read": waits for a frame; "forward": holds a clone of the target's sender;
\* "ended": reader_loop is over; "drain": dropped its sender, awaits the writer.
Stages == {"free", "hello", "insert", "register", "reply", "read",
           "forward", "ended", "drain"}

\* The stages in which the session's sender is meant to be in the registry.
Serving == {"reply", "read", "forward"}

Init ==
  /\ worlds   = [u \in Uuids |-> None]
  /\ sectors  = [k \in Sectors |-> None]
  /\ registry = [p \in PeerIds |-> None]
  /\ stage    = [s \in Sessions |-> "free"]
  /\ uuid     = [s \in Sessions |-> None]
  /\ peer     = [s \in Sessions |-> None]
  /\ alive    = [s \in Sessions |-> FALSE]
  /\ queue    = [s \in Sessions |-> <<>>]
  /\ writing  = [s \in Sessions |-> FALSE]
  /\ pending  = [s \in Sessions |-> None]
  /\ target   = [s \in Sessions |-> None]
  /\ goal     = [s \in Sessions |-> None]

-----------------------------------------------------------------------------
(* The registry and the tables.  An operator called a Slip is a bug someone *)
(* could write in place of the operator that follows it; nothing here uses  *)
(* it, it is there to show that the properties would notice.                *)

RegistryInsert(p, s) == [registry EXCEPT ![p] = s]

SlipRemoveNothing(p) == registry

\* By peer_id, whoever's sender is there.
RegistryRemove(p) == [registry EXCEPT ![p] = None]

InsertWorld(u, p) == [worlds EXCEPT ![u] = p]

SlipNoUniqueKey(u) == TRUE

\* uq_server_uuid: no second row for the same server_uuid.
UniqueServer(u) == worlds[u] = None

FreshPeerId(p) == \A u \in Uuids : worlds[u] # p

SlipNoSelfCheck(s, p) == FALSE

\* forward() refuses a frame from a peer to itself, whichever session sends it.
SelfRoute(s, p) == p = peer[s]

SlipUnbounded(s) == TRUE
SlipReceiverKept(s) == writing[s] /\ Len(queue[s]) < QueueDepth

\* A send completes when there is room, or when the receiver is gone.
SendCompletes(s) == ~writing[s] \/ Len(queue[s]) < QueueDepth

-----------------------------------------------------------------------------
(* The connection and its hello.                                            *)

\* accept_loop spawns handle_peer.  A game server runs one session at a time
\* (RunForever), so it connects when it has no intact connection; the daemon
\* may well still hold the old session.
Accept(s, u) ==
  /\ stage[s] = "free"
  /\ \A t \in Sessions : uuid[t] = u => ~alive[t]
  /\ stage' = [stage EXCEPT ![s] = "hello"]
  /\ uuid'  = [uuid EXCEPT ![s] = u]
  /\ alive' = [alive EXCEPT ![s] = TRUE]
  /\ UNCHANGED <<db, registry, peer, queue, writing, pending, target, goal>>

\* The client closed the socket, gave up after a timeout, or the network did.
ConnectionLost(s) ==
  /\ alive[s]
  /\ alive' = [alive EXCEPT ![s] = FALSE]
  /\ UNCHANGED <<db, registry, task, uuid, peer, queue, writing>>

\* handle_peer returns an error before it has registered anything: a bad or
\* missing hello, an empty server_uuid, a database error.
HelloRejected(s) ==
  /\ stage[s] \in {"hello", "insert"}
  /\ stage' = [stage EXCEPT ![s] = "free"]
  /\ uuid'  = [uuid EXCEPT ![s] = None]
  /\ alive' = [alive EXCEPT ![s] = FALSE]
  /\ UNCHANGED <<db, registry, peer, queue, writing, pending, target, goal>>

\* SELECT ... FOR UPDATE finds the row; its UPDATE and the commit follow under
\* the row lock.
UpsertExisting(s) ==
  /\ stage[s] = "hello"
  /\ worlds[uuid[s]] # None
  /\ peer'  = [peer EXCEPT ![s] = worlds[uuid[s]]]
  /\ stage' = [stage EXCEPT ![s] = "register"]
  /\ UNCHANGED <<db, registry, uuid, alive, queue, writing, pending, target, goal>>

\* The SELECT finds no row; the INSERT is a later round trip to the database.
UpsertMissing(s) ==
  /\ stage[s] = "hello"
  /\ worlds[uuid[s]] = None
  /\ stage' = [stage EXCEPT ![s] = "insert"]
  /\ UNCHANGED <<db, registry, uuid, peer, alive, queue, writing, pending, target, goal>>

\* The INSERT of a fresh peer_id.  uq_server_uuid refuses a second row for the
\* same server_uuid; that session then ends in HelloRejected.
UpsertInsert(s, p) ==
  /\ stage[s] = "insert"
  /\ UniqueServer(uuid[s])
  /\ FreshPeerId(p)
  /\ worlds' = InsertWorld(uuid[s], p)
  /\ peer'   = [peer EXCEPT ![s] = p]
  /\ stage'  = [stage EXCEPT ![s] = "register"]
  /\ UNCHANGED <<sectors, registry, uuid, alive, queue, writing, pending, target, goal>>

\* Registry::insert (which drops the sender it replaces) and the spawn of the
\* writer task; hello_ack is sent only after that, as an ordinary frame.
Register(s) ==
  /\ stage[s] = "register"
  /\ registry' = RegistryInsert(peer[s], s)
  /\ writing'  = [writing EXCEPT ![s] = TRUE]
  /\ pending'  = [pending EXCEPT ![s] = HelloAck]
  /\ stage'    = [stage EXCEPT ![s] = "reply"]
  /\ UNCHANGED <<db, uuid, peer, alive, queue, target, goal>>

-----------------------------------------------------------------------------
(* The reader task.                                                         *)

\* The reader is going to send f on its own queue.
Answer(s, f) ==
  /\ pending' = [pending EXCEPT ![s] = f]
  /\ stage'   = [stage EXCEPT ![s] = "reply"]
  /\ UNCHANGED <<target, goal>>

\* self_tx.send(..).await: waits for room; once the writer task is gone the
\* channel is closed and the frame is silently dropped.
SendReply(s) ==
  /\ stage[s] = "reply"
  /\ SendCompletes(s)
  /\ queue'   = [queue EXCEPT ![s] = IF writing[s] THEN Append(@, pending[s]) ELSE @]
  /\ pending' = [pending EXCEPT ![s] = None]
  /\ stage'   = [stage EXCEPT ![s] = "read"]
  /\ UNCHANGED <<db, registry, uuid, peer, alive, writing, target, goal>>

Ping(s) ==
  /\ stage[s] = "read"
  /\ Answer(s, Pong)
  /\ UNCHANGED <<db, registry, uuid, peer, alive, queue, writing>>

ClaimSector(s, k) ==
  /\ stage[s] = "read"
  /\ sectors' = [sectors EXCEPT ![k] = peer[s]]
  /\ Answer(s, SectorClaimed(k))
  /\ UNCHANGED <<worlds, registry, uuid, peer, alive, queue, writing>>

ResolveSector(s, k) ==
  /\ stage[s] = "read"
  /\ Answer(s, SectorReply(k, sectors[k]))
  /\ UNCHANGED <<db, registry, uuid, peer, alive, queue, writing>>

\* The refusals of forward() that precede the try_send.
ForwardRefused(s, p, d) ==
  /\ stage[s] = "read"
  /\ \/ SelfRoute(s, p) /\ Answer(s, ForwardError(p, "self_route_refused"))
     \/ /\ ~SelfRoute(s, p)
        /\ d \in BadPayloads \/ registry[p] = None
        /\ Answer(s, ForwardError(p, "unknown_peer"))
  /\ UNCHANGED <<db, registry, uuid, peer, alive, queue, writing>>

\* sender_for clones the target's sender under the registry lock and lets the
\* lock go.
ForwardLookup(s, p, d) ==
  /\ stage[s] = "read"
  /\ ~SelfRoute(s, p)
  /\ d \notin BadPayloads
  /\ registry[p] # None
  /\ target'  = [target EXCEPT ![s] = registry[p]]
  /\ goal'    = [goal EXCEPT ![s] = p]
  /\ pending' = [pending EXCEPT ![s] = Delivery(peer[s], d)]
  /\ stage'   = [stage EXCEPT ![s] = "forward"]
  /\ UNCHANGED <<db, registry, uuid, peer, alive, queue, writing>>

\* try_send on the clone: delivered, or a forward_error to the sender.
ForwardDeliver(s) ==
  LET t == target[s] IN
  /\ stage[s] = "forward"
  /\ writing[t]
  /\ Len(queue[t]) < QueueDepth
  /\ queue'   = [queue EXCEPT ![t] = Append(@, pending[s])]
  /\ pending' = [pending EXCEPT ![s] = None]
  /\ target'  = [target EXCEPT ![s] = None]
  /\ goal'    = [goal EXCEPT ![s] = None]
  /\ stage'   = [stage EXCEPT ![s] = "read"]
  /\ UNCHANGED <<db, registry, uuid, peer, alive, writing>>

ForwardFailed(s) ==
  LET t == target[s] IN
  /\ stage[s] = "forward"
  /\ \/ /\ ~writing[t]
        /\ pending' = [pending EXCEPT ![s] = ForwardError(goal[s], "unknown_peer")]
     \/ /\ writing[t] /\ Len(queue[t]) >= QueueDepth
        /\ pending' = [pending EXCEPT ![s] = ForwardError(goal[s], "target_buffer_full")]
  /\ target'  = [target EXCEPT ![s] = None]
  /\ goal'    = [goal EXCEPT ![s] = None]
  /\ stage'   = [stage EXCEPT ![s] = "reply"]
  /\ UNCHANGED <<db, registry, uuid, peer, alive, queue, writing>>

\* reader_loop returns: end of file, ...
ReaderEof(s) ==
  /\ stage[s] = "read"
  /\ ~alive[s]
  /\ stage' = [stage EXCEPT ![s] = "ended"]
  /\ UNCHANGED <<db, registry, uuid, peer, alive, queue, writing, pending, target, goal>>

\* ... or a frame it cannot parse, an oversized or empty frame, a second hello,
\* a database error.  An intact connection can end this way too.
ReaderError(s) ==
  /\ stage[s] = "read"
  /\ alive[s]
  /\ stage' = [stage EXCEPT ![s] = "ended"]
  /\ UNCHANGED <<db, registry, uuid, peer, alive, queue, writing, pending, target, goal>>

SlipClaimsLost(s) ==
  /\ stage[s] = "ended"
  /\ registry' = RegistryRemove(peer[s])
  /\ sectors'  = [k \in Sectors |-> IF sectors[k] = peer[s] THEN None ELSE sectors[k]]
  /\ stage'    = [stage EXCEPT ![s] = "drain"]
  /\ UNCHANGED <<worlds, uuid, peer, alive, queue, writing, pending, target, goal>>

\* Registry::remove, then drop(tx).
Cleanup(s) ==
  /\ stage[s] = "ended"
  /\ registry' = RegistryRemove(peer[s])
  /\ stage'    = [stage EXCEPT ![s] = "drain"]
  /\ UNCHANGED <<db, uuid, peer, alive, queue, writing, pending, target, goal>>

-----------------------------------------------------------------------------
(* The writer task.                                                         *)

\* One frame to the socket.  On a broken connection the kernel may still take it.
WriteFrame(s) ==
  /\ writing[s]
  /\ queue[s] # <<>>
  /\ queue' = [queue EXCEPT ![s] = Tail(@)]
  /\ UNCHANGED <<db, registry, task, uuid, peer, alive, writing>>

\* A socket error breaks the loop; the receiver and what it holds are dropped.
WriterFails(s) ==
  /\ writing[s]
  /\ queue[s] # <<>>
  /\ ~alive[s]
  /\ writing' = [writing EXCEPT ![s] = FALSE]
  /\ queue'   = [queue EXCEPT ![s] = <<>>]
  /\ UNCHANGED <<db, registry, task, uuid, peer, alive>>

\* Some sender of s's channel is still held: by its own reader task, by the
\* registry, or by another session's forward.
HasSender(s) ==
  \/ stage[s] \in Serving \union {"ended"}
  \/ \E p \in PeerIds : registry[p] = s
  \/ \E t \in Sessions : target[t] = s

\* recv() returns None: drained, and every sender is gone.
WriterEnds(s) ==
  /\ writing[s]
  /\ queue[s] = <<>>
  /\ ~HasSender(s)
  /\ writing' = [writing EXCEPT ![s] = FALSE]
  /\ alive'   = [alive EXCEPT ![s] = FALSE]
  /\ UNCHANGED <<db, registry, task, uuid, peer, queue>>

\* handle_peer returns.  The name is used again when no clone refers to it.
Close(s) ==
  /\ stage[s] = "drain"
  /\ ~writing[s]
  /\ ~HasSender(s)
  /\ stage' = [stage EXCEPT ![s] = "free"]
  /\ uuid'  = [uuid EXCEPT ![s] = None]
  /\ peer'  = [peer EXCEPT ![s] = None]
  /\ alive' = [alive EXCEPT ![s] = FALSE]
  /\ UNCHANGED <<db, registry, queue, writing, pending, target, goal>>

\* The daemon process dies and is started again: only the tables survive.
Restart ==
  /\ \E s \in Sessions : stage[s] # "free"
  /\ registry' = [p \in PeerIds |-> None]
  /\ stage'    = [s \in Sessions |-> "free"]
  /\ uuid'     = [s \in Sessions |-> None]
  /\ peer'     = [s \in Sessions |-> None]
  /\ alive'    = [s \in Sessions |-> FALSE]
  /\ queue'    = [s \in Sessions |-> <<>>]
  /\ writing'  = [s \in Sessions |-> FALSE]
  /\ pending'  = [s \in Sessions |-> None]
  /\ target'   = [s \in Sessions |-> None]
  /\ goal'     = [s \in Sessions |-> None]
  /\ UNCHANGED db

-----------------------------------------------------------------------------
Connection(s) ==
  \/ \E u \in Uuids : Accept(s, u)
  \/ ConnectionLost(s)
  \/ HelloRejected(s)
  \/ UpsertExisting(s)
  \/ UpsertMissing(s)
  \/ \E p \in PeerIds : UpsertInsert(s, p)
  \/ Register(s)

Reader(s) ==
  \/ SendReply(s)
  \/ Ping(s)
  \/ \E k \in Sectors : ClaimSector(s, k) \/ ResolveSector(s, k)
  \/ \E p \in PeerIds, d \in Payloads : ForwardRefused(s, p, d) \/ ForwardLookup(s, p, d)
  \/ ForwardDeliver(s)
  \/ ForwardFailed(s)
  \/ ReaderEof(s)
  \/ ReaderError(s)
  \/ Cleanup(s)

Writer(s) == WriteFrame(s) \/ WriterFails(s) \/ WriterEnds(s)

Next ==
  \/ \E s \in Sessions : Connection(s) \/ Reader(s) \/ Writer(s) \/ Close(s)
  \/ Restart

Spec == Init /\ [][Next]_vars

\* The executor runs every ready task.  Writes complete or fail (the game
\* server drains its socket or its socket dies).  A waiting send of an mpsc
\* channel gets the next free slot before any try_send does, and a broken
\* connection holds finitely many unread frames: hence strong fairness for
\* SendReply and for the end of file.
Fairness ==
  \A s \in Sessions :
    /\ SF_vars(SendReply(s))
    /\ WF_vars(ForwardDeliver(s) \/ ForwardFailed(s))
    /\ WF_vars(Cleanup(s))
    /\ WF_vars(WriteFrame(s) \/ WriterFails(s))
    /\ WF_vars(WriterEnds(s))
    /\ WF_vars(Close(s))
    /\ WF_vars(UpsertExisting(s) \/ UpsertMissing(s) \/ HelloRejected(s))
    /\ WF_vars(Register(s))
    /\ SF_vars(ReaderEof(s))

FairSpec == Spec /\ Fairness

-----------------------------------------------------------------------------
(* Properties.                                                              *)

\* Every variable has its type; queues stay within WRITER_QUEUE_DEPTH.
DaemonTypeOK ==
  /\ worlds \in [Uuids -> PeerIds \union {None}]
  /\ sectors \in [Sectors -> PeerIds \union {None}]
  /\ registry \in [PeerIds -> Sessions \union {None}]
  /\ stage \in [Sessions -> Stages]
  /\ uuid \in [Sessions -> Uuids \union {None}]
  /\ peer \in [Sessions -> PeerIds \union {None}]
  /\ alive \in [Sessions -> BOOLEAN]
  /\ queue \in [Sessions -> Seq(OutFrames)]
  /\ \A s \in Sessions : Len(queue[s]) <= QueueDepth
  /\ writing \in [Sessions -> BOOLEAN]
  /\ pending \in [Sessions -> OutFrames \union {None}]
  /\ target \in [Sessions -> Sessions \union {None}]
  /\ goal \in [Sessions -> PeerIds \union {None}]

\* Registry::insert, Registry::remove and the cleanup of handle_peer together
\* keep the registry free of stale senders: an entry under peer_id p belongs
\* to a session of p whose reader task has not yet cleaned up, whatever the
\* order in which an old and a new session of p end.
NoStaleRegistration ==
  \A p \in PeerIds, s \in Sessions :
    registry[p] = s => peer[s] = p /\ stage[s] \in Serving \union {"ended"}

\* forward(): between sender_for and try_send the target may disconnect,
\* reconnect and be replaced, yet the clone still leads to a session of the
\* peer the frame is addressed to, and never back to the sender.
ForwardReachesAddressee ==
  \A s \in Sessions : stage[s] = "forward" =>
    /\ target[s] # None
    /\ peer[target[s]] = goal[s]
    /\ goal[s] # peer[s]

\* self_route_refused: no peer finds a delivery from itself in its queue, not
\* even one that an older session of the same peer forwarded.
NoSelfDelivery ==
  \A s \in Sessions : \A i \in 1..Len(queue[s]) :
    queue[s][i] \in Deliveries => queue[s][i].from # peer[s]

\* upsert_world and uq_server_uuid: two servers never share a peer_id.
PeerIdsDistinct ==
  \A u, v \in Uuids : u # v /\ worlds[u] # None => worlds[u] # worlds[v]

\* A session serves under the peer_id the table holds for its server_uuid,
\* also when two sessions of a new server raced through upsert_world.
SessionHasTablePeer ==
  \A s \in Sessions : peer[s] # None => peer[s] = worlds[uuid[s]]

\* Every claimed sector is owned by a peer the worlds table knows.
ClaimsHaveOwners ==
  \A k \in Sectors : sectors[k] # None => \E u \in Uuids : worlds[u] = sectors[k]

\* The two tables and the sessions agree, also after two sessions of one new
\* server raced through upsert_world, and after restarts: no peer_id is shared,
\* each session serves under the row of its server, each claim has an owner.
TablesSound == PeerIdsDistinct /\ SessionHasTablePeer /\ ClaimsHaveOwners

\* The comment on SECTORS_SCHEMA: a disconnect (or a restart of the daemon)
\* does not lose a claim; only another claim of the sector changes its owner,
\* and the new owner is the peer of a session that is being served.
ClaimsSurvive ==
  [][\A k \in Sectors : sectors'[k] # sectors[k] =>
       \E s \in Sessions : stage[s] = "read" /\ sectors'[k] = peer[s] /\ peer[s] # None]_vars

\* A server keeps its peer_id for ever.
PeerIdStable ==
  [][\A u \in Uuids : worlds[u] # None => worlds'[u] = worlds[u]]_vars

\* What the tables hold outlives sessions and daemons: a claim changes only by
\* the claim of a served session, a peer_id never.
TablesDurable == ClaimsSurvive /\ PeerIdStable

\* "Each live connection has an mpsc sender owned here" (the comment on
\* Registry): the peer of a session that is served on an intact connection has an
\* entry.  Whether the entry is this session's is not asked: an older session of
\* the peer that registers late may have put its own there.
LiveConnectionRegistered ==
  \A s \in Sessions :
    alive[s] /\ writing[s] /\ stage[s] \in Serving => registry[peer[s]] # None

\* The tests and the DLL take the first frame of a session for the hello_ack:
\* nothing is queued on a session whose hello_ack is still to be sent.
HelloAckFirst ==
  \A s \in Sessions : pending[s] = HelloAck => queue[s] = <<>>

\* A broken connection is reaped: its reader ends, its registry entry goes,
\* its writer drains or fails and handle_peer returns.
BrokenSessionReaped ==
  \A s \in Sessions :
    (stage[s] # "free" /\ ~alive[s]) ~> (stage[s] = "free")

\* The reader never waits for ever on its own full queue.
ReaderNotStuck ==
  \A s \in Sessions : (stage[s] = "reply") ~> (stage[s] # "reply")
=============================================================================
