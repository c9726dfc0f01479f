--------------------------- MODULE FederationProofs ---------------------------
(***************************************************************************)
(* That the federation delivers a payload to the server it is meant for and *)
(* at most once, for any number of servers, calls, connections and faults:  *)
(* it implements Handoff.  Its steps are steps of the clients and of the    *)
(* daemon, so that all that is proved of those holds here as well.          *)
(***************************************************************************)
EXTENDS Federation, SequenceTheorems, FiniteSetTheorems, FunctionTheorems, TLAPS

CP == INSTANCE ClientProofs
DP == INSTANCE DaemonProofs WITH Uuids <- Servers, Payloads <- Calls, BadPayloads <- {},
                                 queue <- mpsc

-----------------------------------------------------------------------------
(* The two sides.                                                           *)

\* C and CP are one client, D and DP one daemon.
LEMMA SameClient == (C!Init => CP!Init) /\ ([C!Next]_C!vars => [CP!Next]_CP!vars)
BY DEF C!Init, CP!Init, C!Next, CP!Next, C!Engine, CP!Engine, C!Session, CP!Session,
       C!StartResolve, CP!StartResolve, C!StartSend, CP!StartSend, C!Begin, CP!Begin,
       C!EngineFree, CP!EngineFree, C!Becomes, CP!Becomes, C!ResolveRegister,
       CP!ResolveRegister, C!RegisterCallback, CP!RegisterCallback, C!ResolveEnqueue,
       CP!ResolveEnqueue, C!HasRoom, CP!HasRoom, C!Enqueue, CP!Enqueue, C!ResolveFrame,
       CP!ResolveFrame, C!Return, CP!Return, C!ResolveRefused, CP!ResolveRefused, C!Rollback,
       CP!Rollback, C!SendEnqueue, CP!SendEnqueue, C!PutForward, CP!PutForward, C!ForwardFrame,
       CP!ForwardFrame, C!Connect, CP!Connect, C!ReceiveAck, CP!ReceiveAck, C!AutoClaim,
       CP!AutoClaim, C!ClaimFrame, CP!ClaimFrame, C!ClaimsDone, CP!ClaimsDone, C!Drain,
       CP!Drain, C!Taken, CP!Taken, C!Emptied, CP!Emptied, C!SendFront, CP!SendFront,
       C!BatchDone, CP!BatchDone, C!RecvIdle, CP!RecvIdle, C!ReceiveOther, CP!ReceiveOther,
       C!ReceiveReply, CP!ReceiveReply, C!PopCallback, CP!PopCallback, C!CallbackSends,
       CP!CallbackSends, C!SessionEnds, CP!SessionEnds, C!BatchLost, CP!BatchLost,
       C!sessionVars, CP!sessionVars, C!callVars, CP!callVars, C!vars, CP!vars

LEMMA SameDaemon == (D!Init => DP!Init) /\ ([D!Next]_D!vars => [DP!Next]_DP!vars)
BY DEF D!Init, DP!Init, D!Next, DP!Next, D!Connection, DP!Connection, D!Accept, DP!Accept,
       D!ConnectionLost, DP!ConnectionLost, D!HelloRejected, DP!HelloRejected, D!UpsertExisting,
       DP!UpsertExisting, D!UpsertMissing, DP!UpsertMissing, D!UpsertInsert, DP!UpsertInsert,
       D!UniqueServer, DP!UniqueServer, D!FreshPeerId, DP!FreshPeerId, D!InsertWorld,
       DP!InsertWorld, D!Register, DP!Register, D!RegistryInsert, DP!RegistryInsert, D!Reader,
       DP!Reader, D!SendReply, DP!SendReply, D!SendCompletes, DP!SendCompletes, D!Ping, DP!Ping,
       D!ClaimSector, DP!ClaimSector, D!Answer, DP!Answer, D!ResolveSector, DP!ResolveSector,
       D!SectorReply, DP!SectorReply, D!SectorClaimed, DP!SectorClaimed, D!HelloAck,
       DP!HelloAck, D!Pong, DP!Pong, D!Delivery, DP!Delivery, D!ForwardError, DP!ForwardError,
       D!ForwardRefused, DP!ForwardRefused, D!SelfRoute, DP!SelfRoute, D!ForwardLookup,
       DP!ForwardLookup, D!ForwardDeliver, DP!ForwardDeliver, D!ForwardFailed, DP!ForwardFailed,
       D!ReaderEof, DP!ReaderEof, D!ReaderError, DP!ReaderError, D!Cleanup, DP!Cleanup,
       D!RegistryRemove, DP!RegistryRemove, D!Writer, DP!Writer, D!WriteFrame, DP!WriteFrame,
       D!WriterFails, DP!WriterFails, D!HasSender, DP!HasSender, D!Serving, DP!Serving,
       D!WriterEnds, DP!WriterEnds, D!Close, DP!Close, D!Restart, DP!Restart, D!db, DP!db,
       D!task, DP!task, D!vars, DP!vars

\* The two sides have the types of their modules, in either name.
LEMMA SameTypes ==
  /\ CP!TypeOK => C!TypeOK
  /\ DP!DaemonTypeOK => D!DaemonTypeOK
<1>1. CP!TypeOK => C!TypeOK
  BY DEF C!TypeOK, CP!TypeOK, C!Phases, CP!Phases, C!Places, CP!Places, C!Statuses, CP!Statuses,
         C!QueueFrames, CP!QueueFrames
<1>2. DP!DaemonTypeOK => D!DaemonTypeOK
  BY DEF D!DaemonTypeOK, DP!DaemonTypeOK, D!Stages, DP!Stages, D!OutFrames, DP!OutFrames, D!HelloAck,
         DP!HelloAck, D!Pong, DP!Pong, D!Deliveries, DP!Deliveries, D!Reasons, DP!Reasons
<1> QED
  BY <1>1, <1>2

\* The streams and the history have their types.
StreamTypes ==
  /\ cur \in [Servers -> Sessions \union {None}]
  /\ up \in [Sessions -> Seq(C!QueueFrames)]
  /\ down \in [Sessions -> Seq(D!OutFrames)]
  /\ received \in [Calls -> Seq(Servers)]

\* Who is connected to what.  A connection that the daemon still serves is its
\* client's own, and a session holds a frame only while it is sending it.
Connections ==
  /\ \A c \in Servers : cur[c] = None <=> phase[c] = "down"
  /\ \A c, d \in Servers : c # d /\ cur[c] = cur[d] => cur[c] = None
  /\ \A c \in Servers, s \in Sessions : cur[c] = s /\ stage[s] # "free" => uuid[s] = c
  /\ \A s \in Sessions : alive[s] => stage[s] # "free"
  /\ \A s \in Sessions : stage[s] \notin {"reply", "forward"} => pending[s] = None

\* What a frame says, by its kind.
LEMMA UpFrames ==
  ASSUME NEW f \in C!QueueFrames
  PROVE  /\ f.kind \in {"claim", "resolve", "forward"}
         /\ f.kind \in {"claim", "resolve"} => f.sector \in Sectors
         /\ f.kind = "forward" => f.to \in PeerIds /\ f.payload \in Calls
BY DEF C!QueueFrames

LEMMA DownFrames ==
  ASSUME NEW f \in D!OutFrames
  PROVE  /\ f.kind \in {"hello_ack", "pong", "delivery", "forward_error", "sector_claimed",
                        "sector_unknown", "sector_resolved"}
         /\ f.kind \in {"sector_unknown", "sector_resolved"} => f.sector \in Sectors
         /\ f.kind = "sector_resolved" => f.peer \in PeerIds
         /\ f.kind = "delivery" => f.from \in PeerIds /\ f.payload \in Calls
         /\ f # None
BY NoneIsNoFrame DEF D!OutFrames, D!Deliveries, D!HelloAck, D!Pong, D!Reasons

\* What a client that reads reads, and does with it.
ReadsOf(c, s, f) ==
  /\ s \in Sessions /\ s = cur[c] /\ f = Head(down[s]) /\ f \in D!OutFrames
  /\ down[s] # <<>> /\ Tail(down[s]) \in Seq(D!OutFrames) /\ down' = Consume(s)
  /\ phase[c] = "recv"
  /\ C!ReceiveOther(c) \/ \E k \in Sectors, p \in PeerIds \union {None} : C!ReceiveReply(c, k, p)
  /\ UNCHANGED <<daemonVars, cur, up>>
  /\ \/ UNCHANGED received
     \/ /\ f.kind = "delivery" /\ C!ReceiveOther(c)
        /\ received' = [received EXCEPT ![f.payload] = Append(@, c)]

LEMMA Reading ==
  ASSUME StreamTypes, Connections, NEW c \in Servers, ClientReads(c)
  PROVE  \E s, f : ReadsOf(c, s, f)
<1>1. PICK s, f : s = cur[c] /\ f = Head(down[s])
  OBVIOUS
<1>2. phase[c] = "recv" /\ down[s] # <<>> /\ down' = Consume(s) /\ UNCHANGED <<daemonVars, cur, up>>
  BY <1>1, Zenon DEF ClientReads
<1>3. s \in Sessions
  <2>1. cur[c] \in Sessions \union {None}
    BY DEF StreamTypes
  <2>2. cur[c] # None
    BY <1>2 DEF Connections
  <2> QED
    BY <1>1, <2>1, <2>2
<1>4. f \in D!OutFrames /\ Tail(down[s]) \in Seq(D!OutFrames)
  <2>1. down[s] \in Seq(D!OutFrames)
    BY <1>3 DEF StreamTypes
  <2> QED
    BY <1>1, <1>2, <2>1, HeadTailProperties, Zenon
<1>5. C!ReceiveOther(c) \/ \E k \in Sectors, p \in PeerIds \union {None} : C!ReceiveReply(c, k, p)
  <2>1. f.kind \in {"sector_unknown", "sector_resolved"} => f.sector \in Sectors
    BY <1>4, DownFrames, Zenon
  <2>2. f.kind = "sector_resolved" => f.peer \in PeerIds \union {None}
    BY <1>4, DownFrames, Zenon
  <2>3. None \in PeerIds \union {None}
    OBVIOUS
  <2> QED
    BY <1>1, <2>1, <2>2, <2>3, ZenonT(60) DEF ClientReads
<1>6. \/ UNCHANGED received
      \/ /\ f.kind = "delivery" /\ C!ReceiveOther(c)
         /\ received' = [received EXCEPT ![f.payload] = Append(@, c)]
  BY <1>1, Zenon DEF ClientReads
<1>7. ReadsOf(c, s, f)
  BY <1>1, <1>2, <1>3, <1>4, <1>5, <1>6, Zenon DEF ReadsOf
<1> QED
  BY <1>7, Zenon

\* Every step is a step of the clients, or leaves them alone.
LEMMA ClientStep ==
  ASSUME StreamTypes, Connections, Next
  PROVE  [C!Next]_C!vars
<1> USE DEF clientVars, C!vars
<1>1. CASE ClientOnly
  BY <1>1 DEF ClientOnly, C!Next, C!Session
<1>2. ASSUME NEW c \in Servers, NEW s \in Sessions, Connect(c, s) PROVE C!Next
  BY <1>2 DEF Connect, C!Next, C!Session
<1>3. ASSUME NEW c \in Servers, Disconnect(c) PROVE C!Next
  BY <1>3 DEF Disconnect, C!Next, C!Session
<1>4. ASSUME NEW c \in Servers, ClientSends(c) \/ ClientReadsAck(c) PROVE C!Next
  BY <1>4 DEF ClientSends, ClientReadsAck, C!Next, C!Session
<1>5. ASSUME NEW c \in Servers, ClientReads(c) PROVE C!Next
  <2>1. PICK s, f : ReadsOf(c, s, f)
    BY <1>5, Reading
  <2>2. C!ReceiveOther(c) \/ \E k \in Sectors, p \in PeerIds \union {None} : C!ReceiveReply(c, k, p)
    BY <2>1, Zenon DEF ReadsOf
  <2> QED
    BY <1>5, <2>2, Zenon DEF C!Next, C!Session
<1> QED
  BY <1>1, <1>2, <1>3, <1>4, <1>5 DEF Next, DaemonOnly, SessionFault, DaemonReads, DaemonWrites, DaemonRestarts

\* ... and a step of the daemon, or leaves it alone.
LEMMA DaemonStep ==
  ASSUME StreamTypes, Connections, Next
  PROVE  [D!Next]_D!vars
<1> USE DEF daemonVars, D!vars
<1>1. CASE DaemonOnly
  BY <1>1 DEF DaemonOnly, D!Next, D!Connection, D!Reader, D!Writer
<1>2. ASSUME NEW c \in Servers, NEW s \in Sessions, Connect(c, s) PROVE D!Next
  BY <1>2 DEF Connect, D!Next, D!Connection
<1>3. ASSUME NEW c \in Servers, Disconnect(c) PROVE [D!Next]_D!vars
  BY <1>3 DEF Disconnect, D!Next, D!Connection, Connections, StreamTypes, C!SessionEnds
<1>4. ASSUME NEW s \in Sessions, SessionFault(s) \/ DaemonWrites(s) PROVE D!Next
  BY <1>4 DEF SessionFault, DaemonWrites, D!Next, D!Connection, D!Reader, D!Writer
<1>5. ASSUME NEW s \in Sessions, DaemonReads(s) PROVE D!Next
  <2>1. up[s] \in Seq(C!QueueFrames) /\ up[s] # <<>>
    BY <1>5 DEF DaemonReads, StreamTypes
  <2>2. Head(up[s]) \in C!QueueFrames
    BY <2>1, HeadTailProperties
  <2>3. D!Reader(s)
    BY <1>5, <2>2, UpFrames DEF DaemonReads, D!Reader
  <2> QED
    BY <2>3 DEF D!Next
<1>6. CASE DaemonRestarts
  BY <1>6 DEF DaemonRestarts, D!Next
<1> QED
  BY <1>1, <1>2, <1>3, <1>4, <1>5, <1>6, Zenon DEF Next, ClientOnly, ClientSends, ClientReadsAck, ClientReads

-----------------------------------------------------------------------------
(* Who is connected to what.                                                *)

LEMMA StreamTypesStep ==
  ASSUME StreamTypes, Connections, C!TypeOK, D!DaemonTypeOK, Next
  PROVE  StreamTypes'
<1>1. CASE ClientOnly \/ DaemonOnly
  BY <1>1 DEF ClientOnly, DaemonOnly, StreamTypes
<1>2. ASSUME NEW c \in Servers, NEW s \in Sessions, Connect(c, s) PROVE StreamTypes'
  BY <1>2, EmptySeq DEF Connect, StreamTypes
<1>3. ASSUME NEW c \in Servers, Disconnect(c) PROVE StreamTypes'
  BY <1>3 DEF Disconnect, StreamTypes
<1>4. ASSUME NEW c \in Servers, ClientSends(c) PROVE StreamTypes'
  <2>1. Head(batch[c]) \in C!QueueFrames
    BY <1>4, HeadTailProperties DEF ClientSends, C!SendFront, C!TypeOK
  <2>2. cur[c] \in Sessions => Append(up[cur[c]], Head(batch[c])) \in Seq(C!QueueFrames)
    BY <2>1, AppendProperties DEF StreamTypes
  <2> QED
    BY <1>4, <2>2, ZenonT(40) DEF ClientSends, StreamTypes
<1>5. ASSUME NEW c \in Servers, ClientReadsAck(c) PROVE StreamTypes'
  <2>1. cur[c] \in Sessions => Tail(down[cur[c]]) \in Seq(D!OutFrames)
    BY <1>5, HeadTailProperties DEF ClientReadsAck, StreamTypes
  <2> QED
    BY <1>5, <2>1 DEF ClientReadsAck, StreamTypes
<1>6. ASSUME NEW c \in Servers, ClientReads(c) PROVE StreamTypes'
  <2>1. PICK s, f : ReadsOf(c, s, f)
    BY <1>6, Reading
  <2>2. /\ s \in Sessions /\ Tail(down[s]) \in Seq(D!OutFrames) /\ f \in D!OutFrames
        /\ down' = Consume(s) /\ UNCHANGED <<cur, up>>
    BY <2>1, Zenon DEF ReadsOf
  <2>3. down' \in [Sessions -> Seq(D!OutFrames)]
    BY <2>2 DEF Consume, StreamTypes
  <2>4. \A h \in Calls : Append(received[h], c) \in Seq(Servers)
    <3>1. \A h \in Calls : received[h] \in Seq(Servers)
      BY DEF StreamTypes
    <3>2. c \in Servers
      BY <1>6
    <3> QED
      BY <3>1, <3>2, AppendProperties, Zenon
  <2>5. received' \in [Calls -> Seq(Servers)]
    <3>1. CASE UNCHANGED received
      BY <3>1 DEF StreamTypes
    <3>2. CASE f.kind = "delivery" /\ received' = [received EXCEPT ![f.payload] = Append(@, c)]
      <4>1. f.payload \in Calls
        BY <2>2, <3>2, DownFrames, Zenon
      <4> QED
        BY <2>4, <3>2, <4>1 DEF StreamTypes
    <3> QED
      BY <2>1, <3>1, <3>2, Zenon DEF ReadsOf
  <2> QED
    BY <2>2, <2>3, <2>5 DEF StreamTypes
<1>7. ASSUME NEW s \in Sessions, SessionFault(s) PROVE StreamTypes'
  BY <1>7 DEF SessionFault, StreamTypes
<1>8. ASSUME NEW s \in Sessions, DaemonReads(s) PROVE StreamTypes'
  <2>1. Tail(up[s]) \in Seq(C!QueueFrames)
    BY <1>8, HeadTailProperties DEF DaemonReads, StreamTypes
  <2> QED
    BY <1>8, <2>1 DEF DaemonReads, StreamTypes
<1>9. ASSUME NEW s \in Sessions, DaemonWrites(s) PROVE StreamTypes'
  <2>1. Head(mpsc[s]) \in D!OutFrames
    BY <1>9, HeadTailProperties DEF DaemonWrites, D!WriteFrame, D!DaemonTypeOK
  <2>2. Append(down[s], Head(mpsc[s])) \in Seq(D!OutFrames)
    BY <2>1, AppendProperties DEF StreamTypes
  <2> QED
    BY <1>9, <2>2 DEF DaemonWrites, StreamTypes
<1>10. CASE DaemonRestarts
  BY <1>10, EmptySeq DEF DaemonRestarts, StreamTypes
<1> QED
  BY <1>1, <1>2, <1>3, <1>4, <1>5, <1>6, <1>7, <1>8, <1>9, <1>10 DEF Next

\* What a step of the daemon may do to a connection: it gets its server when it
\* is accepted and keeps it until its name is free again.
DaemonKeeps ==
  \A s \in Sessions :
    /\ stage'[s] # "free" => stage[s] # "free" /\ uuid'[s] = uuid[s]
    /\ alive'[s] => stage'[s] # "free"
    /\ stage'[s] \notin {"reply", "forward"} => pending'[s] = None

LEMMA DaemonAlone ==
  ASSUME D!DaemonTypeOK, Connections, NEW s \in Sessions
  PROVE  /\ D!UpsertExisting(s) \/ D!UpsertMissing(s) => DaemonKeeps
         /\ \A p \in PeerIds : D!UpsertInsert(s, p) => DaemonKeeps
         /\ D!HelloRejected(s) \/ D!ConnectionLost(s) \/ D!Register(s) => DaemonKeeps
         /\ D!SendReply(s) \/ D!ForwardDeliver(s) \/ D!ForwardFailed(s) => DaemonKeeps
         /\ D!ReaderEof(s) \/ D!ReaderError(s) \/ D!Cleanup(s) => DaemonKeeps
         /\ D!WriteFrame(s) \/ D!WriterFails(s) \/ D!WriterEnds(s) \/ D!Close(s) => DaemonKeeps
         /\ \A k \in Sectors : D!ClaimSector(s, k) \/ D!ResolveSector(s, k) => DaemonKeeps
         /\ \A p \in PeerIds, h \in Calls :
              D!ForwardRefused(s, p, h) \/ D!ForwardLookup(s, p, h) => DaemonKeeps
<1>0. /\ stage \in [Sessions -> D!Stages] /\ DOMAIN uuid = Sessions /\ DOMAIN alive = Sessions
      /\ DOMAIN pending = Sessions
      /\ uuid = [t \in Sessions |-> uuid[t]] /\ alive = [t \in Sessions |-> alive[t]]
      /\ pending = [t \in Sessions |-> pending[t]]
      /\ \A t \in Sessions : alive[t] => stage[t] # "free"
      /\ \A t \in Sessions : stage[t] \notin {"reply", "forward"} => pending[t] = None
  BY DEF D!DaemonTypeOK, Connections
<1> USE <1>0 DEF DaemonKeeps, D!task, D!Stages
<1>1. D!UpsertExisting(s) \/ D!UpsertMissing(s) => DaemonKeeps
  BY DEF D!UpsertExisting, D!UpsertMissing
<1>2. ASSUME NEW p \in PeerIds, D!UpsertInsert(s, p) PROVE DaemonKeeps
  BY <1>2 DEF D!UpsertInsert
<1>3. D!HelloRejected(s) \/ D!ConnectionLost(s) \/ D!Register(s) => DaemonKeeps
  BY DEF D!HelloRejected, D!ConnectionLost, D!Register
<1>4. D!SendReply(s) \/ D!ForwardDeliver(s) \/ D!ForwardFailed(s) => DaemonKeeps
  BY DEF D!SendReply, D!ForwardDeliver, D!ForwardFailed
<1>5. D!ReaderEof(s) \/ D!ReaderError(s) \/ D!Cleanup(s) => DaemonKeeps
  BY DEF D!ReaderEof, D!ReaderError, D!Cleanup
<1>6. D!WriteFrame(s) \/ D!WriterFails(s) \/ D!WriterEnds(s) \/ D!Close(s) => DaemonKeeps
  BY DEF D!WriteFrame, D!WriterFails, D!WriterEnds, D!Close
<1>7. ASSUME NEW k \in Sectors, D!ClaimSector(s, k) \/ D!ResolveSector(s, k) PROVE DaemonKeeps
  BY <1>7 DEF D!ClaimSector, D!ResolveSector, D!Answer
<1>8. ASSUME NEW p \in PeerIds, NEW h \in Calls, D!ForwardRefused(s, p, h) \/ D!ForwardLookup(s, p, h)
      PROVE  DaemonKeeps
  BY <1>8 DEF D!ForwardRefused, D!ForwardLookup, D!Answer
<1> HIDE <1>0 DEF DaemonKeeps
<1> QED
  BY <1>1, <1>2, <1>3, <1>4, <1>5, <1>6, <1>7, <1>8

\* A step of a client that is none of Connect and Disconnect leaves its session up or down.
LEMMA ClientKeeps ==
  ASSUME C!TypeOK, NEW c \in Servers,
         \/ C!AutoClaim(c) \/ C!ClaimsDone(c) \/ C!Drain(c) \/ C!BatchDone(c) \/ C!CallbackSends(c)
         \/ C!RecvIdle(c) \/ C!SendFront(c) \/ C!ReceiveAck(c) \/ C!ReceiveOther(c)
         \/ \E k \in Sectors, p \in PeerIds \union {None} : C!ReceiveReply(c, k, p)
  PROVE  \A d \in Servers : phase'[d] = "down" <=> phase[d] = "down"
<1> USE DEF C!TypeOK
<1>1. CASE C!AutoClaim(c) \/ C!ClaimsDone(c) \/ C!Drain(c) \/ C!BatchDone(c)
  BY <1>1 DEF C!AutoClaim, C!ClaimsDone, C!Drain, C!BatchDone
<1>2. CASE C!CallbackSends(c) \/ C!RecvIdle(c) \/ C!SendFront(c) \/ C!ReceiveAck(c) \/ C!ReceiveOther(c)
  BY <1>2 DEF C!CallbackSends, C!RecvIdle, C!SendFront, C!ReceiveAck, C!ReceiveOther
<1>3. ASSUME NEW k \in Sectors, NEW p \in PeerIds \union {None}, C!ReceiveReply(c, k, p)
      PROVE  \A d \in Servers : phase'[d] = "down" <=> phase[d] = "down"
  BY <1>3 DEF C!ReceiveReply
<1> QED
  BY <1>1, <1>2, <1>3

\* A step of the daemon alone leaves every client's connection as it is.
LEMMA DaemonKeepsConnections ==
  ASSUME Connections, DaemonKeeps, UNCHANGED <<cur, phase>>
  PROVE  Connections'
BY DEF Connections, DaemonKeeps

\* A step of a client in its session does so too.
LEMMA ClientKeepsConnections ==
  ASSUME Connections, UNCHANGED <<cur, stage, uuid, alive, pending>>,
         \A d \in Servers : phase'[d] = "down" <=> phase[d] = "down"
  PROVE  Connections'
BY DEF Connections

LEMMA ConnectionsStep ==
  ASSUME StreamTypes, Connections, C!TypeOK, D!DaemonTypeOK, Next
  PROVE  Connections'
<1> USE DEF clientVars, daemonVars
<1>1. CASE ClientOnly
  <2>1. ASSUME NEW h \in Calls, C!Engine(h) PROVE UNCHANGED phase
    BY <2>1 DEF C!Engine, C!StartResolve, C!StartSend, C!ResolveRegister, C!ResolveEnqueue,
         C!ResolveRefused, C!SendEnqueue, C!sessionVars
  <2>2. \A d \in Servers : phase'[d] = "down" <=> phase[d] = "down"
    BY <1>1, <2>1, ClientKeeps DEF ClientOnly
  <2> QED
    BY <1>1, <2>2, ClientKeepsConnections DEF ClientOnly
<1>2. CASE DaemonOnly
  <2>1. DaemonKeeps
    BY <1>2, DaemonAlone DEF DaemonOnly
  <2> QED
    BY <1>2, <2>1, DaemonKeepsConnections DEF DaemonOnly
<1>3. ASSUME NEW c \in Servers, NEW s \in Sessions, Connect(c, s) PROVE Connections'
  <2>1. /\ cur' = [cur EXCEPT ![c] = s] /\ phase[c] = "down" /\ phase' = [phase EXCEPT ![c] = "hello"]
        /\ \A b \in Servers : cur[b] # s
        /\ stage[s] = "free" /\ stage' = [stage EXCEPT ![s] = "hello"]
        /\ uuid' = [uuid EXCEPT ![s] = c] /\ alive' = [alive EXCEPT ![s] = TRUE] /\ UNCHANGED pending
    BY <1>3 DEF Connect, C!Connect, D!Accept
  <2>2. s # None /\ cur \in [Servers -> Sessions \union {None}]
    BY FederationAssumption DEF StreamTypes
  <2>3. /\ DOMAIN phase = Servers /\ DOMAIN stage = Sessions /\ DOMAIN uuid = Sessions
        /\ DOMAIN alive = Sessions
    BY DEF C!TypeOK, D!DaemonTypeOK
  <2>4. /\ \A d \in Servers : cur'[d] = IF d = c THEN s ELSE cur[d]
        /\ \A d \in Servers : phase'[d] = IF d = c THEN "hello" ELSE phase[d]
        /\ \A r \in Sessions : stage'[r] = IF r = s THEN "hello" ELSE stage[r]
        /\ \A r \in Sessions : uuid'[r] = IF r = s THEN c ELSE uuid[r]
        /\ \A r \in Sessions : alive'[r] = IF r = s THEN TRUE ELSE alive[r]
    BY <2>1, <2>2, <2>3
  <2> QED
    BY <2>1, <2>2, <2>4 DEF Connections
<1>4. ASSUME NEW c \in Servers, Disconnect(c) PROVE Connections'
  <2>1. /\ cur' = [cur EXCEPT ![c] = None] /\ phase' = [phase EXCEPT ![c] = "down"]
        /\ UNCHANGED <<stage, uuid, pending>> /\ \A s \in Sessions : alive'[s] => alive[s]
    BY <1>4 DEF Disconnect, C!SessionEnds, D!ConnectionLost, D!task, D!DaemonTypeOK
  <2>2. DOMAIN cur = Servers /\ DOMAIN phase = Servers
    BY DEF StreamTypes, C!TypeOK
  <2>3. /\ \A d \in Servers : cur'[d] = IF d = c THEN None ELSE cur[d]
        /\ \A d \in Servers : phase'[d] = IF d = c THEN "down" ELSE phase[d]
    BY <2>1, <2>2
  <2> QED
    BY <2>1, <2>3, FederationAssumption DEF Connections
<1>5. ASSUME NEW c \in Servers, ClientSends(c) \/ ClientReadsAck(c) PROVE Connections'
  BY <1>5, ClientKeeps, ClientKeepsConnections, SMTT(60) DEF ClientSends, ClientReadsAck
<1>6. ASSUME NEW c \in Servers, ClientReads(c) PROVE Connections'
  <2>1. PICK s, f : ReadsOf(c, s, f)
    BY <1>6, Reading
  <2>2. C!ReceiveOther(c) \/ \E k \in Sectors, p \in PeerIds \union {None} : C!ReceiveReply(c, k, p)
    BY <2>1, Zenon DEF ReadsOf
  <2>3. UNCHANGED <<daemonVars, cur, up>>
    BY <2>1, Zenon DEF ReadsOf
  <2> QED
    BY <1>6, <2>2, <2>3, ClientKeeps, ClientKeepsConnections
<1>7. ASSUME NEW s \in Sessions, SessionFault(s) \/ DaemonWrites(s) PROVE Connections'
  <2>1. DaemonKeeps
    BY <1>7, DaemonAlone DEF SessionFault, DaemonWrites
  <2> QED
    BY <1>7, <2>1, DaemonKeepsConnections DEF SessionFault, DaemonWrites
<1>8. ASSUME NEW s \in Sessions, DaemonReads(s) PROVE Connections'
  <2>1. Head(up[s]) \in C!QueueFrames
    BY <1>8, HeadTailProperties DEF DaemonReads, StreamTypes
  <2>2. DaemonKeeps
    BY <1>8, <2>1, UpFrames, DaemonAlone DEF DaemonReads
  <2> QED
    BY <1>8, <2>2, DaemonKeepsConnections DEF DaemonReads
<1>9. CASE DaemonRestarts
  <2>1. DaemonKeeps
    BY <1>9 DEF DaemonRestarts, D!Restart, DaemonKeeps
  <2> QED
    BY <1>9, <2>1, DaemonKeepsConnections DEF DaemonRestarts
<1> QED
  BY <1>1, <1>2, <1>3, <1>4, <1>5, <1>6, <1>7, <1>8, <1>9 DEF Next

-----------------------------------------------------------------------------
(* Payloads in streams.                                                     *)

\* Not twice in the same stream.
Sole(frames, h) ==
  \A i, j \in 1..Len(frames) : Carries(frames[i], h) /\ Carries(frames[j], h) => i = j

\* Every frame with the payload names this peer.
Named(frames, h, p) == \A i \in 1..Len(frames) : Carries(frames[i], h) => frames[i].to = p

LEMMA CarriedNone == \A h, p : ~Carried(<<>>, h) /\ Sole(<<>>, h) /\ Named(<<>>, h, p)
BY DEF Carried, Sole, Named

LEMMA CarriedAppend ==
  ASSUME NEW S, NEW q \in Seq(S), NEW f \in S, NEW h, NEW p
  PROVE  /\ Carried(Append(q, f), h) <=> Carried(q, h) \/ Carries(f, h)
         /\ Sole(q, h) /\ ~(Carried(q, h) /\ Carries(f, h)) => Sole(Append(q, f), h)
         /\ Named(q, h, p) /\ (Carries(f, h) => f.to = p) => Named(Append(q, f), h, p)
<1>1. /\ Len(q) \in Nat /\ Len(Append(q, f)) = Len(q) + 1
      /\ \A i \in 1..Len(q) : Append(q, f)[i] = q[i]
      /\ Append(q, f)[Len(q) + 1] = f
  BY AppendProperties, LenProperties
<1> DEFINE a == Append(q, f)
<1> HIDE DEF a
<1> QED
  BY <1>1 DEF Carried, Sole, Named, a

LEMMA CarriedTail ==
  ASSUME NEW S, NEW q \in Seq(S), q # <<>>, NEW h, NEW p
  PROVE  /\ Carried(q, h) <=> Carries(Head(q), h) \/ Carried(Tail(q), h)
         /\ Sole(q, h) => Sole(Tail(q), h) /\ ~(Carries(Head(q), h) /\ Carried(Tail(q), h))
         /\ Named(q, h, p) => Named(Tail(q), h, p) /\ (Carries(Head(q), h) => Head(q).to = p)
<1>1. /\ Len(q) \in Nat /\ Len(q) > 0 /\ Head(q) = q[1] /\ Len(Tail(q)) = Len(q) - 1
      /\ \A i \in 1..(Len(q) - 1) : Tail(q)[i] = q[i + 1]
  BY EmptySeq, HeadTailProperties
<1> DEFINE b == Tail(q)
           e == Head(q)
<1> HIDE DEF b, e
<1>2. \A i \in 1..Len(q) : i = 1 \/ (i - 1 \in 1..Len(b) /\ b[i - 1] = q[i])
  BY <1>1 DEF b
<1>3. \A i \in 1..Len(b) : i + 1 \in 1..Len(q) /\ q[i + 1] = b[i]
  BY <1>1 DEF b
<1>4. 1 \in 1..Len(q) /\ q[1] = e
  BY <1>1 DEF e
<1>5. Carried(q, h) <=> Carries(e, h) \/ Carried(b, h)
  BY <1>2, <1>3, <1>4 DEF Carried
<1>6. Sole(q, h) => Sole(b, h) /\ ~(Carries(e, h) /\ Carried(b, h))
  <2> SUFFICES ASSUME Sole(q, h) PROVE Sole(b, h) /\ ~(Carries(e, h) /\ Carried(b, h))
    OBVIOUS
  <2>1. ASSUME NEW i \in 1..Len(b), NEW j \in 1..Len(b), Carries(b[i], h), Carries(b[j], h) PROVE i = j
    <3>1. i + 1 = j + 1
      BY <1>3, <2>1 DEF Sole
    <3> QED
      BY <3>1
  <2>2. ASSUME NEW i \in 1..Len(b), Carries(b[i], h), Carries(e, h) PROVE FALSE
    <3>1. i + 1 = 1
      BY <1>3, <1>4, <2>2 DEF Sole
    <3> QED
      BY <3>1
  <2> QED
    BY <2>1, <2>2 DEF Sole, Carried
<1>7. Named(q, h, p) => Named(b, h, p) /\ (Carries(e, h) => e.to = p)
  BY <1>3, <1>4 DEF Named
<1> QED
  BY <1>5, <1>6, <1>7 DEF b, e

-----------------------------------------------------------------------------
(* Where a payload is after it was written by its client.                   *)

Legs == {"up", "pending", "mpsc", "down"}

On(k, s, h) ==
  CASE k = "up"      -> Carried(up[s], h)
    [] k = "pending" -> Carries(pending[s], h)
    [] k = "mpsc"    -> Carried(mpsc[s], h)
    [] k = "down"    -> Carried(down[s], h)

\* The sender has a peer id, and another one than the addressee.
Foreign(h) == worlds[server[h]] \notin {None, dest[h]}

\* What makes each leg lead to the addressee.
Right(k, s, h) ==
  CASE k = "up"      -> /\ Named(up[s], h, dest[h])
                        /\ stage[s] # "free" => uuid[s] = server[h]
    [] k = "pending" -> stage[s] = "forward" /\ goal[s] = dest[h] /\ Foreign(h)
    [] k = "mpsc"    -> peer[s] = dest[h] /\ Foreign(h)
    [] k = "down"    -> Foreign(h) /\ \A c \in Servers : cur[c] = s => worlds[c] = dest[h]

\* A payload on its way was written, has not arrived and is in one place.
Travels(h) ==
  /\ \A k \in Legs, s \in Sessions : On(k, s, h) =>
       /\ Right(k, s, h)
       /\ status[h] = "sent" /\ received[h] = <<>>
       /\ server[h] \in Servers /\ dest[h] \in PeerIds
  /\ \A k, l \in Legs, s, t \in Sessions : On(k, s, h) /\ On(l, t, h) => k = l /\ s = t
  /\ \A s \in Sessions : Sole(up[s], h) /\ Sole(mpsc[s], h) /\ Sole(down[s], h)

\* One that has arrived did so at the server that has its destination's id.
Arrived(h) ==
  received[h] # <<>> =>
    /\ status[h] = "sent"
    /\ \E c \in Servers : received[h] = <<c>> /\ worlds[c] = dest[h] /\ c # server[h]
    /\ dest[h] \in PeerIds

Paths == \A h \in Calls : Travels(h) /\ Arrived(h)

-----------------------------------------------------------------------------
(* What the clients and the daemon keep to.                                 *)

\* From the invariant of the client: where a call stands when its payload is sent.
ClientFacts ==
  /\ C!TypeOK
  /\ \A h \in Calls : pc[h] = "put" => status[h] = "pending" /\ server[h] \in Servers
  /\ \A c \in Servers : phase[c] = "callback" =>
       running[c] \in Calls /\ status[running[c]] = "answered" /\ server[running[c]] = c
  /\ \A c \in Servers : phase[c] # "send" => batch[c] = <<>>
  /\ \A c \in Servers, k \in Sectors : cbs[c][k] # None => status[cbs[c][k]] = "pending"
  /\ \A c \in Servers, h \in Calls : Carried(queue[c], h) \/ Carried(batch[c], h) =>
       status[h] = "accepted" /\ server[h] = c /\ dest[h] \in PeerIds
  /\ \A c \in Servers, h \in Calls : Named(batch[c], h, dest[h]) /\ Sole(batch[c], h)

LEMMA ClientKnows == CP!IInv => ClientFacts
<1> SUFFICES ASSUME CP!IInv PROVE ClientFacts
  OBVIOUS
<1>1. /\ CP!TypeOK /\ CP!CallInv /\ CP!SessionInv /\ CP!NoDanglingCallback
      /\ CP!FramesAreMine /\ CP!FramesApart
  BY DEF CP!IInv, CP!FrameInv
<1>2. C!TypeOK
  BY <1>1, SameTypes
<1>3. /\ \A h \in Calls : pc[h] = "put" => status[h] = "pending" /\ server[h] \in Servers
      /\ \A c \in Servers : phase[c] = "callback" =>
           running[c] \in Calls /\ status[running[c]] = "answered" /\ server[running[c]] = c
      /\ \A c \in Servers : phase[c] # "send" => batch[c] = <<>>
      /\ \A c \in Servers, k \in Sectors : cbs[c][k] # None => status[cbs[c][k]] = "pending"
  BY <1>1 DEF CP!CallInv, CP!SessionInv, CP!NoDanglingCallback
<1>4. ASSUME NEW c \in Servers, NEW h \in Calls
      PROVE  /\ Carried(queue[c], h) \/ Carried(batch[c], h) =>
                  status[h] = "accepted" /\ server[h] = c /\ dest[h] \in PeerIds
             /\ Named(batch[c], h, dest[h]) /\ Sole(batch[c], h)
  <2>1. /\ queue[c] \in Seq(C!QueueFrames) /\ batch[c] \in Seq(C!QueueFrames)
        /\ queue[c] \in [1..Len(queue[c]) -> C!QueueFrames]
        /\ batch[c] \in [1..Len(batch[c]) -> C!QueueFrames]
    BY <1>2, LenProperties DEF C!TypeOK
  <2>2. ASSUME NEW f \in C!QueueFrames, CP!Mine(c, f), Carries(f, h)
        PROVE  /\ status[h] = "accepted" /\ server[h] = c /\ f.to = dest[h]
               /\ dest[h] \in PeerIds /\ CP!Carries(f, h)
    BY <2>2 DEF CP!Mine, CP!ForwardFrame, CP!Carries, Carries, C!QueueFrames
  <2>3. /\ \A i \in 1..Len(queue[c]) : CP!Mine(c, queue[c][i])
        /\ \A i \in 1..Len(batch[c]) : CP!Mine(c, batch[c][i])
    BY <1>1 DEF CP!FramesAreMine
  <2>4. Carried(queue[c], h) \/ Carried(batch[c], h) =>
          status[h] = "accepted" /\ server[h] = c /\ dest[h] \in PeerIds
    BY <2>1, <2>2, <2>3 DEF Carried
  <2>5. Named(batch[c], h, dest[h])
    BY <2>1, <2>2, <2>3 DEF Named
  <2>6. Sole(batch[c], h)
    <3> SUFFICES ASSUME NEW i \in 1..Len(batch[c]), NEW j \in 1..Len(batch[c]),
                        Carries(batch[c][i], h), Carries(batch[c][j], h)
                 PROVE  i = j
      BY DEF Sole
    <3>1. /\ batch[c][i] \in C!QueueFrames /\ CP!Mine(c, batch[c][i])
          /\ batch[c][j] \in C!QueueFrames /\ CP!Mine(c, batch[c][j])
      BY <2>1, <2>3
    <3>2. CP!Carries(batch[c][i], h) /\ CP!Carries(batch[c][j], h)
      BY <2>2, <3>1
    <3> QED
      BY <1>1, <3>2 DEF CP!FramesApart
  <2> QED
    BY <2>4, <2>5, <2>6
<1> QED
  BY <1>2, <1>3, <1>4 DEF ClientFacts

\* From the invariant of the daemon.
DaemonFacts ==
  /\ D!DaemonTypeOK
  /\ \A s \in Sessions : peer[s] = None <=> stage[s] \in {"free", "hello", "insert"}
  /\ \A s \in Sessions :
       /\ writing[s] => stage[s] \notin {"free", "hello", "insert", "register"}
       /\ ~writing[s] => mpsc[s] = <<>>
  /\ \A s \in Sessions : stage[s] = "reply" => pending[s] \in D!OutFrames /\ pending[s].kind # "delivery"
  /\ \A s \in Sessions : stage[s] = "forward" => pending[s] \in D!OutFrames /\ pending[s].kind = "delivery"
  /\ \A s \in Sessions : stage[s] = "forward" => target[s] \in Sessions /\ peer[target[s]] = goal[s]
  /\ \A s \in Sessions : peer[s] # None => uuid[s] \in Servers /\ peer[s] = worlds[uuid[s]]

LEMMA DaemonKnows == DP!IInv => DaemonFacts
<1> SUFFICES ASSUME DP!IInv PROVE DaemonFacts
  OBVIOUS
<1>1. /\ DP!DaemonTypeOK /\ DP!PeerKnown /\ DP!UuidKnown /\ DP!ChannelOpen /\ DP!PendingFrame
      /\ DP!CloneHeld /\ DP!SessionHasTablePeer /\ DP!ForwardReachesAddressee
  BY DEF DP!IInv, DP!SessionInv, DP!TablesSound, DP!RoutingInv
<1>2. D!DaemonTypeOK
  BY <1>1, SameTypes
<1>3. \A s \in Sessions : peer[s] = None <=> stage[s] \in {"free", "hello", "insert"}
  BY <1>1 DEF DP!PeerKnown
<1>4. \A s \in Sessions :
        /\ writing[s] => stage[s] \notin {"free", "hello", "insert", "register"}
        /\ ~writing[s] => mpsc[s] = <<>>
  BY <1>1 DEF DP!ChannelOpen, DP!Serving
<1>5. /\ \A s \in Sessions : stage[s] = "reply" => pending[s] \in D!OutFrames /\ pending[s].kind # "delivery"
      /\ \A s \in Sessions : stage[s] = "forward" => pending[s] \in D!OutFrames /\ pending[s].kind = "delivery"
  <2>1. DP!OutFrames = D!OutFrames /\ DP!Deliveries = D!Deliveries
    BY DEF DP!OutFrames, D!OutFrames, DP!Deliveries, D!Deliveries, DP!HelloAck, D!HelloAck,
           DP!Pong, D!Pong, DP!Reasons, D!Reasons
  <2>2. \A f \in D!OutFrames \ D!Deliveries : f.kind # "delivery"
    BY DEF D!OutFrames, D!HelloAck, D!Pong
  <2>3. D!Deliveries \subseteq D!OutFrames /\ \A f \in D!Deliveries : f.kind = "delivery"
    BY DEF D!OutFrames, D!Deliveries
  <2> QED
    BY <1>1, <2>1, <2>2, <2>3 DEF DP!PendingFrame
<1>6. \A s \in Sessions : stage[s] = "forward" => target[s] \in Sessions /\ peer[target[s]] = goal[s]
  BY <1>1, <1>2 DEF DP!ForwardReachesAddressee, D!DaemonTypeOK
<1>7. \A s \in Sessions : peer[s] # None => uuid[s] \in Servers /\ peer[s] = worlds[uuid[s]]
  BY <1>1, <1>2, <1>3 DEF DP!SessionHasTablePeer, DP!UuidKnown, D!DaemonTypeOK
<1> QED
  BY <1>2, <1>3, <1>4, <1>5, <1>6, <1>7 DEF DaemonFacts

\* A call whose payload was written keeps its server and its destination ...
CallsKept ==
  \A h \in Calls : status[h] = "sent" =>
    status'[h] = "sent" /\ dest'[h] = dest[h] /\ server'[h] = server[h]

\* ... and a server its peer id.
WorldsKept == \A c \in Servers : worlds[c] # None => worlds'[c] = worlds[c]

LEMMA WrittenIsKept ==
  ASSUME ClientFacts, [C!Next]_C!vars
  PROVE  CallsKept
<1>1. /\ status \in [Calls -> C!Statuses] /\ DOMAIN dest = Calls /\ DOMAIN server = Calls
  BY DEF ClientFacts, C!TypeOK
<1> USE <1>1 DEF CallsKept, C!Becomes, C!callVars
<1>2. ASSUME NEW h \in Calls, C!Engine(h) PROVE CallsKept
  <2>1. ASSUME NEW c \in Servers, NEW k \in Sectors, C!StartResolve(c, h, k) PROVE CallsKept
    BY <2>1 DEF C!StartResolve, C!Begin
  <2>2. ASSUME NEW c \in Servers, NEW p \in PeerIds, C!StartSend(c, h, p) PROVE CallsKept
    BY <2>2 DEF C!StartSend, C!Begin
  <2>3. CASE C!ResolveRegister(h) \/ C!ResolveEnqueue(h) \/ C!ResolveRefused(h)
    BY <2>3 DEF C!ResolveRegister, C!ResolveEnqueue, C!ResolveRefused
  <2>4. CASE C!SendEnqueue(h)
    <3>1. status[h] = "pending"
      BY <2>4 DEF C!SendEnqueue, ClientFacts
    <3> QED
      BY <2>4, <3>1 DEF C!SendEnqueue, C!PutForward
  <2> QED
    BY <1>2, <2>1, <2>2, <2>3, <2>4 DEF C!Engine
<1>3. ASSUME NEW c \in Servers, C!Session(c) PROVE CallsKept
  <2>1. CASE C!Connect(c) \/ C!ReceiveAck(c) \/ C!AutoClaim(c) \/ C!ClaimsDone(c) \/ C!Drain(c)
             \/ C!BatchDone(c) \/ C!RecvIdle(c) \/ C!ReceiveOther(c)
    BY <2>1 DEF C!Connect, C!ReceiveAck, C!AutoClaim, C!ClaimsDone, C!Drain, C!BatchDone, C!RecvIdle,
         C!ReceiveOther
  <2>2. CASE C!SendFront(c)
    BY <2>2 DEF C!SendFront
  <2>3. ASSUME NEW k \in Sectors, NEW p \in PeerIds \union {None}, C!ReceiveReply(c, k, p) PROVE CallsKept
    <3> DEFINE h == cbs[c][k]
    <3>1. h # None => status[h] = "pending"
      BY DEF ClientFacts
    <3> QED
      BY <2>3, <3>1 DEF C!ReceiveReply
  <2>4. CASE C!CallbackSends(c)
    <3>1. status[running[c]] = "answered"
      BY <2>4 DEF C!CallbackSends, ClientFacts
    <3> QED
      BY <2>4, <3>1 DEF C!CallbackSends, C!PutForward
  <2>5. CASE C!SessionEnds(c)
    <3>1. ASSUME NEW h \in Calls, \E i \in 1..Len(batch[c]) : batch[c][i] = C!ForwardFrame(dest[h], h)
          PROVE  status[h] = "accepted"
      <4>1. PICK i \in 1..Len(batch[c]) : batch[c][i] = C!ForwardFrame(dest[h], h)
        BY <3>1
      <4>2. batch[c][i] \in C!QueueFrames
        BY LenProperties DEF ClientFacts, C!TypeOK
      <4>3. Carries(batch[c][i], h)
        BY <4>1, <4>2, NoneIsNoFrame DEF Carries, C!ForwardFrame
      <4> QED
        BY <4>3 DEF ClientFacts, Carried
    <3> QED
      BY <2>5, <3>1 DEF C!SessionEnds, C!BatchLost
  <2> QED
    BY <1>3, <2>1, <2>2, <2>3, <2>4, <2>5 DEF C!Session
<1>4. CASE UNCHANGED C!vars
  BY <1>4 DEF C!vars
<1> QED
  BY <1>2, <1>3, <1>4 DEF C!Next

LEMMA PeerIdsAreKept ==
  ASSUME D!DaemonTypeOK, [D!Next]_D!vars
  PROVE  WorldsKept
<1>1. DOMAIN worlds = Servers
  BY DEF D!DaemonTypeOK
<1> USE <1>1 DEF WorldsKept, D!db
<1>2. ASSUME NEW s \in Sessions, D!Connection(s) PROVE WorldsKept
  <2>1. ASSUME NEW p \in PeerIds, D!UpsertInsert(s, p) PROVE WorldsKept
    BY <2>1 DEF D!UpsertInsert, D!UniqueServer, D!InsertWorld
  <2>2. ASSUME NEW c \in Servers, D!Accept(s, c) PROVE WorldsKept
    BY <2>2 DEF D!Accept
  <2>3. CASE D!ConnectionLost(s) \/ D!HelloRejected(s) \/ D!UpsertExisting(s) \/ D!UpsertMissing(s)
             \/ D!Register(s)
    BY <2>3 DEF D!ConnectionLost, D!HelloRejected, D!UpsertExisting, D!UpsertMissing, D!Register
  <2> QED
    BY <1>2, <2>1, <2>2, <2>3 DEF D!Connection
<1>3. ASSUME NEW s \in Sessions, D!Reader(s) PROVE WorldsKept
  BY <1>3 DEF D!Reader, D!SendReply, D!Ping, D!ClaimSector, D!ResolveSector, D!ForwardRefused,
       D!ForwardLookup, D!ForwardDeliver, D!ForwardFailed, D!ReaderEof, D!ReaderError, D!Cleanup
<1>4. ASSUME NEW s \in Sessions, D!Writer(s) \/ D!Close(s) PROVE WorldsKept
  BY <1>4 DEF D!Writer, D!WriteFrame, D!WriterFails, D!WriterEnds, D!Close
<1>5. CASE D!Restart \/ UNCHANGED D!vars
  BY <1>5 DEF D!Restart, D!vars
<1> QED
  BY <1>2, <1>3, <1>4, <1>5 DEF D!Next

-----------------------------------------------------------------------------
(* The ways a step can treat the payloads that are on their way.            *)

\* None sets out.
OnlyOld ==
  \A h \in Calls, k \in Legs, s \in Sessions :
    On(k, s, h)' => \E l \in Legs, t \in Sessions : On(l, t, h)

\* They stay where they are, or are lost.
LEMMA Staying ==
  ASSUME Paths, CallsKept, WorldsKept, UNCHANGED received,
         \A h \in Calls, k \in Legs, s \in Sessions :
           On(k, s, h)' => On(k, s, h) /\ (Right(k, s, h) => Right(k, s, h)'),
         \A h \in Calls, s \in Sessions : Travels(h) =>
           Sole(up'[s], h) /\ Sole(mpsc'[s], h) /\ Sole(down'[s], h)
  PROVE  Paths' /\ OnlyOld
<1>0. OnlyOld
  BY DEF OnlyOld
<1> SUFFICES ASSUME NEW h \in Calls PROVE Travels(h)' /\ Arrived(h)'
  BY <1>0 DEF Paths
<1>1. Travels(h) /\ Arrived(h)
  BY DEF Paths
<1>2. Arrived(h)'
  BY <1>1, FederationAssumption DEF Arrived, CallsKept, WorldsKept
<1>3. Travels(h)'
  BY <1>1 DEF Travels, CallsKept
<1> QED
  BY <1>2, <1>3

\* Those in one frame go from leg k of s to leg l of t, the rest stay or are lost.
Moved(k, s, l, t) ==
  \A h \in Calls, m \in Legs, r \in Sessions : Travels(h) /\ On(m, r, h)' =>
    /\ Right(m, r, h)'
    /\ On(m, r, h) \/ (m = l /\ r = t /\ On(k, s, h) /\ ~On(k, s, h)')

StillSole ==
  \A h \in Calls, r \in Sessions : Travels(h) =>
    Sole(up'[r], h) /\ Sole(mpsc'[r], h) /\ Sole(down'[r], h)

LEMMA Moving ==
  ASSUME Paths, CallsKept, WorldsKept, UNCHANGED received, StillSole,
         NEW k \in Legs, NEW s \in Sessions, NEW l \in Legs, NEW t \in Sessions,
         Moved(k, s, l, t)
  PROVE  Paths' /\ OnlyOld
<1>0. OnlyOld
  BY DEF OnlyOld, Moved, Paths
<1> SUFFICES ASSUME NEW h \in Calls PROVE Travels(h)' /\ Arrived(h)'
  BY <1>0 DEF Paths
<1>1. Travels(h) /\ Arrived(h)
  BY DEF Paths
<1>2. Arrived(h)'
  BY <1>1, FederationAssumption DEF Arrived, CallsKept, WorldsKept
<1>3. Travels(h)'
  BY <1>1 DEF Travels, CallsKept, Moved, StillSole
<1> QED
  BY <1>2, <1>3

\* What a step must do to a session's frames for the payloads to stay.
UpStays(s, h) ==
  /\ Carried(up'[s], h) => /\ Carried(up[s], h)
                           /\ Named(up[s], h, dest[h]) => Named(up'[s], h, dest[h])
                           /\ stage'[s] # "free" => stage[s] # "free" /\ uuid'[s] = uuid[s]
  /\ Sole(up[s], h) => Sole(up'[s], h)

PendingStays(s, h) ==
  Carries(pending'[s], h) => Carries(pending[s], h) /\ stage'[s] = stage[s] /\ goal'[s] = goal[s]

MpscStays(s, h) ==
  /\ Carried(mpsc'[s], h) => Carried(mpsc[s], h) /\ peer'[s] = peer[s]
  /\ Sole(mpsc[s], h) => Sole(mpsc'[s], h)

DownStays(s, h) ==
  /\ Carried(down'[s], h) => Carried(down[s], h) /\ \A c \in Servers : cur'[c] = s => cur[c] = s
  /\ Sole(down[s], h) => Sole(down'[s], h)

LEMMA LegStays ==
  ASSUME CallsKept, WorldsKept, NEW h \in Calls, NEW s \in Sessions, Travels(h)
  PROVE  /\ UpStays(s, h) /\ On("up", s, h)' => On("up", s, h) /\ Right("up", s, h)'
         /\ PendingStays(s, h) /\ On("pending", s, h)' => On("pending", s, h) /\ Right("pending", s, h)'
         /\ MpscStays(s, h) /\ On("mpsc", s, h)' => On("mpsc", s, h) /\ Right("mpsc", s, h)'
         /\ DownStays(s, h) /\ On("down", s, h)' => On("down", s, h) /\ Right("down", s, h)'
<1>1. \A k \in Legs : On(k, s, h) =>
        /\ Right(k, s, h) /\ server[h] \in Servers /\ dest[h] \in PeerIds
        /\ dest'[h] = dest[h] /\ server'[h] = server[h]
  BY DEF Travels, CallsKept
<1>2. Foreign(h) /\ server[h] \in Servers /\ dest'[h] = dest[h] /\ server'[h] = server[h] => Foreign(h)'
  BY DEF Foreign, WorldsKept
<1>3. dest[h] \in PeerIds => \A c \in Servers : worlds[c] = dest[h] => worlds'[c] = dest[h]
  BY FederationAssumption DEF WorldsKept
<1>4. UpStays(s, h) /\ On("up", s, h)' => On("up", s, h) /\ Right("up", s, h)'
  <2> SUFFICES ASSUME UpStays(s, h), Carried(up'[s], h) PROVE On("up", s, h) /\ Right("up", s, h)'
    BY DEF On
  <2>1. On("up", s, h)
    BY DEF On, UpStays
  <2>2. Named(up[s], h, dest[h]) /\ (stage[s] # "free" => uuid[s] = server[h])
    BY <1>1, <2>1 DEF Right, Legs
  <2>3. Named(up'[s], h, dest'[h]) /\ (stage'[s] # "free" => uuid'[s] = server'[h])
    BY <1>1, <2>1, <2>2 DEF UpStays, Legs
  <2> QED
    BY <2>1, <2>3 DEF Right
<1>5. PendingStays(s, h) /\ On("pending", s, h)' => On("pending", s, h) /\ Right("pending", s, h)'
  BY <1>1, <1>2 DEF PendingStays, On, Right, Legs
<1>6. MpscStays(s, h) /\ On("mpsc", s, h)' => On("mpsc", s, h) /\ Right("mpsc", s, h)'
  BY <1>1, <1>2 DEF MpscStays, On, Right, Legs
<1>7. DownStays(s, h) /\ On("down", s, h)' => On("down", s, h) /\ Right("down", s, h)'
  BY <1>1, <1>2, <1>3 DEF DownStays, On, Right, Legs
<1> QED
  BY <1>4, <1>5, <1>6, <1>7

LEMMA AllStay ==
  ASSUME Paths, CallsKept, WorldsKept, UNCHANGED received,
         \A h \in Calls, s \in Sessions :
           UpStays(s, h) /\ PendingStays(s, h) /\ MpscStays(s, h) /\ DownStays(s, h)
  PROVE  Paths' /\ OnlyOld
<1>1. ASSUME NEW h \in Calls, NEW k \in Legs, NEW s \in Sessions, On(k, s, h)'
      PROVE  On(k, s, h) /\ Right(k, s, h)'
  BY <1>1, LegStays DEF Paths, Legs
<1>2. \A h \in Calls, s \in Sessions : Travels(h) =>
        Sole(up'[s], h) /\ Sole(mpsc'[s], h) /\ Sole(down'[s], h)
  BY DEF Travels, UpStays, MpscStays, DownStays
<1> QED
  BY <1>1, <1>2, Staying

\* What is not touched stays.
LEMMA Untouched ==
  ASSUME NEW s \in Sessions, NEW h \in Calls
  PROVE  /\ up'[s] = up[s] /\ (stage'[s] # "free" => stage[s] # "free" /\ uuid'[s] = uuid[s]) => UpStays(s, h)
         /\ pending'[s] = pending[s] /\ stage'[s] = stage[s] /\ goal'[s] = goal[s] => PendingStays(s, h)
         /\ mpsc'[s] = mpsc[s] /\ peer'[s] = peer[s] => MpscStays(s, h)
         /\ down'[s] = down[s] /\ (\A c \in Servers : cur'[c] = s => cur[c] = s) => DownStays(s, h)
         /\ up'[s] = <<>> => UpStays(s, h)
         /\ ~Carries(pending'[s], h) => PendingStays(s, h)
         /\ mpsc'[s] = <<>> => MpscStays(s, h)
         /\ down'[s] = <<>> => DownStays(s, h)
BY CarriedNone DEF UpStays, PendingStays, MpscStays, DownStays

\* A frame less at the front.
LEMMA FrontGone ==
  ASSUME StreamTypes, D!DaemonTypeOK, NEW s \in Sessions, NEW h \in Calls
  PROVE  /\ up[s] # <<>> /\ up'[s] = Tail(up[s]) /\ stage[s] # "free" /\ uuid'[s] = uuid[s] => UpStays(s, h)
         /\ mpsc[s] # <<>> /\ mpsc'[s] = Tail(mpsc[s]) /\ peer'[s] = peer[s] => MpscStays(s, h)
         /\ down[s] # <<>> /\ down'[s] = Tail(down[s]) /\ UNCHANGED cur => DownStays(s, h)
<1>1. up[s] \in Seq(C!QueueFrames) /\ down[s] \in Seq(D!OutFrames) /\ mpsc[s] \in Seq(D!OutFrames)
  BY DEF StreamTypes, D!DaemonTypeOK
<1> QED
  BY <1>1, CarriedTail DEF UpStays, MpscStays, DownStays

\* The daemon's own frames carry nothing.
LEMMA AnswersAreEmpty ==
  ASSUME NEW h
  PROVE  /\ ~Carries(None, h) /\ ~Carries(D!HelloAck, h) /\ ~Carries(D!Pong, h)
         /\ \A k : ~Carries(D!SectorClaimed(k), h)
         /\ \A k, p : ~Carries(D!SectorReply(k, p), h) /\ ~Carries(D!ForwardError(p, k), h)
BY DEF Carries, D!HelloAck, D!Pong, D!SectorClaimed, D!SectorReply, D!ForwardError

Steady == StreamTypes /\ Connections /\ Paths /\ ClientFacts /\ DaemonFacts /\ CallsKept /\ WorldsKept

\* Steps of the daemon that send nothing to anybody.
LEMMA DaemonAloneStays ==
  ASSUME Steady, NEW s \in Sessions, UNCHANGED <<cur, up, down, received>>,
         \/ D!UpsertExisting(s) \/ D!UpsertMissing(s) \/ \E p \in PeerIds : D!UpsertInsert(s, p)
         \/ D!HelloRejected(s) \/ D!ConnectionLost(s) \/ D!Register(s) \/ D!ForwardFailed(s)
         \/ D!ReaderEof(s) \/ D!ReaderError(s) \/ D!Cleanup(s)
         \/ D!WriterFails(s) \/ D!WriterEnds(s) \/ D!Close(s)
  PROVE  Paths' /\ OnlyOld
<1>1. /\ DOMAIN stage = Sessions /\ DOMAIN uuid = Sessions /\ DOMAIN peer = Sessions
      /\ DOMAIN mpsc = Sessions /\ DOMAIN pending = Sessions /\ DOMAIN goal = Sessions
  BY DEF Steady, DaemonFacts, D!DaemonTypeOK
<1>2. /\ stage[s] \notin {"reply", "forward"} => pending[s] = None
      /\ ~writing[s] => mpsc[s] = <<>>
      /\ writing[s] => stage[s] \notin {"free", "hello", "insert", "register"}
  BY DEF Steady, Connections, DaemonFacts
<1>3. \A h : ~Carries(None, h) /\ ~Carries(D!HelloAck, h) /\ \A p, r : ~Carries(D!ForwardError(p, r), h)
  BY AnswersAreEmpty
<1>4. ASSUME NEW r \in Sessions
      PROVE  /\ up'[r] = up[r] /\ down'[r] = down[r] /\ \A c \in Servers : cur'[c] = r => cur[c] = r
             /\ stage'[r] # "free" => stage[r] # "free" /\ uuid'[r] = uuid[r]
             /\ (pending'[r] = pending[r] /\ stage'[r] = stage[r] /\ goal'[r] = goal[r])
                  \/ \A h : ~Carries(pending'[r], h)
             /\ (mpsc'[r] = mpsc[r] /\ peer'[r] = peer[r]) \/ mpsc'[r] = <<>>
  <2> USE <1>1, <1>2, <1>3 DEF D!task, D!db
  <2>1. CASE D!UpsertExisting(s) \/ D!UpsertMissing(s)
    BY <2>1 DEF D!UpsertExisting, D!UpsertMissing
  <2>2. ASSUME NEW p \in PeerIds, D!UpsertInsert(s, p)
        PROVE  /\ stage'[r] # "free" => stage[r] # "free" /\ uuid'[r] = uuid[r]
               /\ (pending'[r] = pending[r] /\ stage'[r] = stage[r] /\ goal'[r] = goal[r])
                    \/ \A h : ~Carries(pending'[r], h)
               /\ (mpsc'[r] = mpsc[r] /\ peer'[r] = peer[r]) \/ mpsc'[r] = <<>>
    BY <2>2 DEF D!UpsertInsert
  <2>3. CASE D!HelloRejected(s) \/ D!ConnectionLost(s) \/ D!Register(s)
    BY <2>3 DEF D!HelloRejected, D!ConnectionLost, D!Register
  <2>4. CASE D!ForwardFailed(s)
    <3>1. PICK reason \in D!Reasons : pending' = [pending EXCEPT ![s] = D!ForwardError(goal[s], reason)]
      BY <2>4 DEF D!ForwardFailed, D!Reasons
    <3>2. \A h : ~Carries(D!ForwardError(goal[s], reason), h)
      BY AnswersAreEmpty
    <3> HIDE <1>3
    <3>3. CASE r = s
      BY <2>4, <3>1, <3>2, <3>3 DEF D!ForwardFailed
    <3>4. CASE r # s
      BY <2>4, <3>1, <3>4 DEF D!ForwardFailed
    <3> QED
      BY <3>3, <3>4
  <2>5. CASE D!ReaderEof(s) \/ D!ReaderError(s) \/ D!Cleanup(s)
    BY <2>5 DEF D!ReaderEof, D!ReaderError, D!Cleanup
  <2>6. CASE D!WriterFails(s) \/ D!WriterEnds(s)
    BY <2>6 DEF D!WriterFails, D!WriterEnds
  <2>7. CASE D!Close(s)
    BY <2>7 DEF D!Close
  <2> QED
    BY <2>1, <2>2, <2>3, <2>4, <2>5, <2>6, <2>7
<1>5. \A h \in Calls, r \in Sessions :
        UpStays(r, h) /\ PendingStays(r, h) /\ MpscStays(r, h) /\ DownStays(r, h)
  BY <1>4, Untouched
<1> QED
  BY <1>5, AllStay DEF Steady

\* SendReply and a read of anything but a forward, which put a frame that carries
\* nothing at the end of the session's own queue or into its hands.
LEMMA ReplyStays ==
  ASSUME Steady, NEW s \in Sessions, D!SendReply(s), UNCHANGED <<cur, up, down, received>>
  PROVE  Paths' /\ OnlyOld
<1>1. \A h : ~Carries(pending[s], h) /\ ~Carries(None, h)
  BY UpFrames DEF Steady, DaemonFacts, D!SendReply, Carries, D!OutFrames, D!Deliveries, D!HelloAck, D!Pong
<1>2. /\ DOMAIN stage = Sessions /\ DOMAIN mpsc = Sessions /\ DOMAIN pending = Sessions
      /\ mpsc[s] \in Seq(D!OutFrames) /\ pending[s] \in D!OutFrames
  BY DEF Steady, DaemonFacts, D!DaemonTypeOK, D!SendReply
<1>3. /\ UNCHANGED <<up, down, cur, uuid, peer, goal>>
      /\ stage[s] = "reply" /\ stage' = [stage EXCEPT ![s] = "read"]
      /\ pending' = [pending EXCEPT ![s] = None]
      /\ mpsc' = mpsc \/ mpsc' = [mpsc EXCEPT ![s] = Append(mpsc[s], pending[s])]
  <2>1. mpsc = [r \in Sessions |-> mpsc[r]]
    BY DEF Steady, DaemonFacts, D!DaemonTypeOK
  <2> QED
    BY <1>2, <2>1 DEF D!SendReply
<1>4. ASSUME NEW h \in Calls, NEW r \in Sessions PROVE MpscStays(r, h)
  <2>1. mpsc'[r] = mpsc[r] \/ (r = s /\ mpsc'[r] = Append(mpsc[s], pending[s]))
    BY <1>2, <1>3
  <2>2. /\ Carried(Append(mpsc[s], pending[s]), h) <=> Carried(mpsc[s], h)
        /\ Sole(mpsc[s], h) => Sole(Append(mpsc[s], pending[s]), h)
    BY <1>1, <1>2, CarriedAppend
  <2> QED
    BY <1>3, <2>1, <2>2 DEF MpscStays
<1>5. ASSUME NEW h \in Calls, NEW r \in Sessions PROVE PendingStays(r, h)
  BY <1>1, <1>2, <1>3 DEF PendingStays
<1>6. ASSUME NEW h \in Calls, NEW r \in Sessions PROVE UpStays(r, h) /\ DownStays(r, h)
  BY <1>2, <1>3, Untouched
<1> QED
  BY <1>4, <1>5, <1>6, AllStay DEF Steady

\* The two sides keep what a step with no part in it left alone.
LEMMA DaemonShape ==
  ASSUME Steady
  PROVE  /\ DOMAIN stage = Sessions /\ DOMAIN uuid = Sessions /\ DOMAIN peer = Sessions
         /\ DOMAIN mpsc = Sessions /\ DOMAIN pending = Sessions /\ DOMAIN goal = Sessions
         /\ DOMAIN alive = Sessions /\ DOMAIN target = Sessions
         /\ DOMAIN up = Sessions /\ DOMAIN down = Sessions /\ DOMAIN cur = Servers
         /\ DOMAIN received = Calls
         /\ mpsc \in [Sessions -> Seq(D!OutFrames)]
         /\ up \in [Sessions -> Seq(C!QueueFrames)]
         /\ down \in [Sessions -> Seq(D!OutFrames)]
         /\ \A s \in Sessions : stage[s] \notin {"reply", "forward"} => pending[s] = None
BY DEF Steady, DaemonFacts, D!DaemonTypeOK, StreamTypes, Connections

\* Steps that touch neither the daemon's frames nor the streams.
LEMMA StillStays ==
  ASSUME Steady, UNCHANGED <<stage, uuid, peer, pending, goal, mpsc, up, down, received>>,
         \A c \in Servers, s \in Sessions : cur'[c] = s => cur[c] = s
  PROVE  Paths' /\ OnlyOld
<1>1. \A h \in Calls, s \in Sessions :
        UpStays(s, h) /\ PendingStays(s, h) /\ MpscStays(s, h) /\ DownStays(s, h)
  BY Untouched
<1> QED
  BY <1>1, AllStay DEF Steady

LEMMA ConnectStays ==
  ASSUME Steady, NEW c \in Servers, NEW s \in Sessions, Connect(c, s)
  PROVE  Paths' /\ OnlyOld
<1>1. /\ stage[s] = "free" /\ stage' = [stage EXCEPT ![s] = "hello"]
      /\ uuid' = [uuid EXCEPT ![s] = c] /\ cur' = [cur EXCEPT ![c] = s]
      /\ up' = [up EXCEPT ![s] = <<>>] /\ down' = [down EXCEPT ![s] = <<>>]
      /\ UNCHANGED <<peer, mpsc, pending, goal, received>>
  BY DEF Connect, D!Accept
<1>2. ASSUME NEW h \in Calls, NEW r \in Sessions
      PROVE  UpStays(r, h) /\ PendingStays(r, h) /\ MpscStays(r, h) /\ DownStays(r, h)
  <2>1. CASE r = s
    <3>1. up'[r] = <<>> /\ down'[r] = <<>> /\ pending'[r] = None /\ mpsc'[r] = mpsc[r] /\ peer'[r] = peer[r]
      BY <1>1, <2>1, DaemonShape
    <3> QED
      BY <3>1, Untouched, AnswersAreEmpty
  <2>2. CASE r # s
    <3>1. /\ up'[r] = up[r] /\ down'[r] = down[r] /\ stage'[r] = stage[r] /\ uuid'[r] = uuid[r]
          /\ \A d \in Servers : cur'[d] = r => cur[d] = r
      BY <1>1, <2>2, DaemonShape
    <3> QED
      BY <1>1, <3>1, Untouched
  <2> QED
    BY <2>1, <2>2
<1> QED
  BY <1>1, <1>2, AllStay DEF Steady

LEMMA DisconnectStays ==
  ASSUME Steady, NEW c \in Servers, Disconnect(c)
  PROVE  Paths' /\ OnlyOld
<1>1. /\ cur' = [cur EXCEPT ![c] = None]
      /\ UNCHANGED <<stage, uuid, peer, pending, goal, mpsc, up, down, received>>
  BY DEF Disconnect, D!ConnectionLost, D!task, daemonVars
<1>2. \A d \in Servers, s \in Sessions : cur'[d] = s => cur[d] = s
  BY <1>1, DaemonShape, FederationAssumption
<1> QED
  BY <1>1, <1>2, StillStays

LEMMA RestartStays ==
  ASSUME Steady, DaemonRestarts
  PROVE  Paths' /\ OnlyOld
<1>1. /\ UNCHANGED <<cur, down, received>>
      /\ \A s \in Sessions : up'[s] = <<>> /\ pending'[s] = None /\ mpsc'[s] = <<>>
  BY DEF DaemonRestarts, D!Restart
<1>2. \A h \in Calls, s \in Sessions :
        UpStays(s, h) /\ PendingStays(s, h) /\ MpscStays(s, h) /\ DownStays(s, h)
  BY <1>1, Untouched, AnswersAreEmpty
<1> QED
  BY <1>1, <1>2, AllStay DEF Steady

\* The client consumes a frame that is no delivery.
LEMMA ConsumedStays ==
  ASSUME Steady, NEW s \in Sessions, down[s] # <<>>, down' = Consume(s),
         UNCHANGED <<daemonVars, cur, up, received>>
  PROVE  Paths' /\ OnlyOld
<1>1. UNCHANGED <<stage, uuid, peer, pending, goal, mpsc>>
  BY DEF daemonVars
<1>2. ASSUME NEW h \in Calls, NEW r \in Sessions PROVE DownStays(r, h)
  <2>1. CASE r = s
    <3>1. down'[s] = Tail(down[s])
      BY DaemonShape DEF Consume
    <3> QED
      BY <2>1, <3>1, FrontGone DEF Steady, DaemonFacts
  <2>2. CASE r # s
    BY <2>2, DaemonShape, Untouched DEF Consume
  <2> QED
    BY <2>1, <2>2
<1>3. \A h \in Calls, r \in Sessions : UpStays(r, h) /\ PendingStays(r, h) /\ MpscStays(r, h)
  BY <1>1, Untouched
<1> QED
  BY <1>2, <1>3, AllStay DEF Steady

\* What a delivery in front of a client's stream says.
DeliveryAt(c, s, f) ==
  cur[c] = s /\ down[s] # <<>> /\ f = Head(down[s]) /\ f.kind = "delivery"

\* It arrives.
LEMMA ArrivalStays ==
  ASSUME Steady, NEW c \in Servers, NEW s \in Sessions, NEW f, DeliveryAt(c, s, f),
         down' = Consume(s), received' = [received EXCEPT ![f.payload] = Append(@, c)],
         UNCHANGED <<daemonVars, cur, up>>
  PROVE  Paths'
<1>1. UNCHANGED <<stage, uuid, peer, pending, goal, mpsc, worlds>>
  BY DEF daemonVars
<1>2. down[s] \in Seq(D!OutFrames) /\ down'[s] = Tail(down[s]) /\ \A r \in Sessions \ {s} : down'[r] = down[r]
  BY DaemonShape DEF Consume
<1>3. f \in D!OutFrames /\ f.payload \in Calls /\ f # None
  BY <1>2, HeadTailProperties, DownFrames DEF DeliveryAt
<1> DEFINE g == f.payload
<1>4. Carries(f, g)
  BY <1>3 DEF DeliveryAt, Carries
<1>5. On("down", s, g)
  BY <1>2, <1>4, CarriedTail DEF On, DeliveryAt
<1>6. /\ Foreign(g) /\ worlds[c] = dest[g] /\ c # server[g]
      /\ status[g] = "sent" /\ received[g] = <<>> /\ dest[g] \in PeerIds
  <2>1. Travels(g)
    BY <1>3 DEF Steady, Paths
  <2>2. Right("down", s, g) /\ status[g] = "sent" /\ received[g] = <<>> /\ dest[g] \in PeerIds
    BY <1>5, <2>1 DEF Travels, Legs
  <2>3. Foreign(g) /\ worlds[c] = dest[g]
    BY <2>2 DEF Right, DeliveryAt
  <2> QED
    BY <2>2, <2>3 DEF Foreign
<1>7. received'[g] = <<c>> /\ \A h \in Calls \ {g} : received'[h] = received[h]
  BY <1>3, <1>6, DaemonShape
<1>8. ASSUME NEW h \in Calls, NEW k \in Legs, NEW r \in Sessions, On(k, r, h)'
      PROVE  On(k, r, h) /\ Right(k, r, h)'
  <2>1. UpStays(r, h) /\ PendingStays(r, h) /\ MpscStays(r, h)
    BY <1>1, Untouched
  <2>2. DownStays(r, h)
    <3>1. StreamTypes /\ D!DaemonTypeOK /\ down[s] # <<>>
      BY DEF Steady, DaemonFacts, DeliveryAt
    <3>2. CASE r = s
      BY <1>2, <3>1, <3>2, FrontGone
    <3>3. CASE r # s
      BY <1>2, <3>3, Untouched
    <3> QED
      BY <3>2, <3>3
  <2>3. Travels(h) /\ CallsKept /\ WorldsKept
    BY DEF Steady, Paths
  <2> QED
    BY <1>8, <2>1, <2>2, <2>3, LegStays DEF Legs
<1>9. ASSUME NEW h \in Calls, NEW r \in Sessions
      PROVE  Sole(up'[r], h) /\ Sole(mpsc'[r], h) /\ Sole(down'[r], h)
  <2>1. Sole(up[r], h) /\ Sole(mpsc[r], h) /\ Sole(down[r], h)
    BY DEF Steady, Paths, Travels
  <2> QED
    <3>1. up'[r] = up[r] /\ mpsc'[r] = mpsc[r] /\ (r # s => down'[r] = down[r])
      BY <1>1, <1>2
    <3>2. CASE r = s
      <4>1. Sole(down[s], h) => Sole(Tail(down[s]), h)
        BY <1>2, CarriedTail DEF DeliveryAt
      <4> QED
        BY <1>2, <2>1, <3>1, <3>2, <4>1
    <3>3. CASE r # s
      BY <2>1, <3>1, <3>3
    <3> QED
      BY <3>2, <3>3
<1>10. \A k \in Legs, r \in Sessions : ~On(k, r, g)'
  <2> SUFFICES ASSUME NEW k \in Legs, NEW r \in Sessions, On(k, r, g)' PROVE FALSE
    OBVIOUS
  <2>1. k = "down" /\ r = s
    BY <1>3, <1>5, <1>8 DEF Steady, Paths, Travels, Legs
  <2>2. Sole(down[s], g)
    BY <1>3 DEF Steady, Paths, Travels
  <2>3. ~Carried(down'[s], g)
    <3>1. Sole(down[s], g) => ~(Carries(Head(down[s]), g) /\ Carried(Tail(down[s]), g))
      BY <1>2, CarriedTail DEF DeliveryAt
    <3>2. f = Head(down[s]) /\ down'[s] = Tail(down[s])
      BY <1>2 DEF DeliveryAt
    <3> QED
      BY <1>4, <2>2, <3>1, <3>2
  <2> QED
    BY <2>1, <2>3 DEF On
<1>11. ASSUME NEW h \in Calls PROVE Arrived(h)'
  <2>0. CallsKept /\ WorldsKept /\ Arrived(h)
    BY DEF Steady, Paths
  <2>1. CASE h = g
    <3>1. status'[g] = "sent" /\ dest'[g] = dest[g] /\ server'[g] = server[g] /\ worlds'[c] = worlds[c]
      BY <1>1, <1>3, <1>6, <2>0 DEF CallsKept
    <3> QED
      BY <1>6, <1>7, <2>1, <3>1 DEF Arrived
  <2>2. CASE h # g
    BY <1>7, <2>0, <2>2, FederationAssumption DEF Arrived, CallsKept, WorldsKept
  <2> QED
    BY <2>1, <2>2
<1>12. ASSUME NEW h \in Calls PROVE Travels(h)'
  <2>0. CallsKept /\ Travels(h)
    BY DEF Steady, Paths
  <2>1. ASSUME NEW k \in Legs, NEW r \in Sessions, On(k, r, h)'
        PROVE  /\ On(k, r, h) /\ Right(k, r, h)'
               /\ status'[h] = "sent" /\ received'[h] = <<>> /\ server'[h] \in Servers /\ dest'[h] \in PeerIds
    <3>1. On(k, r, h) /\ Right(k, r, h)' /\ h # g
      BY <1>8, <1>10, <2>1
    <3> QED
      BY <1>7, <2>0, <3>1 DEF Travels, CallsKept
  <2> QED
    BY <1>9, <2>0, <2>1 DEF Travels
<1> QED
  BY <1>11, <1>12 DEF Paths

\* The daemon reads a frame that it answers itself.
LEMMA AnsweredStays ==
  ASSUME Steady, NEW s \in Sessions, NEW f, \A h : ~Carries(f, h), stage[s] = "read", D!Answer(s, f),
         up[s] # <<>>, up' = [up EXCEPT ![s] = Tail(@)],
         UNCHANGED <<uuid, peer, mpsc, cur, down, received>>
  PROVE  Paths' /\ OnlyOld
<1>1. /\ up'[s] = Tail(up[s]) /\ pending'[s] = f /\ stage[s] # "free"
      /\ \A r \in Sessions \ {s} : up'[r] = up[r] /\ stage'[r] = stage[r] /\ pending'[r] = pending[r]
      /\ UNCHANGED goal
  BY DaemonShape DEF D!Answer
<1>2. ASSUME NEW h \in Calls, NEW r \in Sessions
      PROVE  UpStays(r, h) /\ PendingStays(r, h) /\ MpscStays(r, h) /\ DownStays(r, h)
  <2>1. CASE r = s
    <3>1. UpStays(s, h)
      BY <1>1, FrontGone DEF Steady, DaemonFacts
    <3> QED
      BY <1>1, <2>1, <3>1, Untouched
  <2>2. CASE r # s
    BY <1>1, <2>2, Untouched
  <2> QED
    BY <2>1, <2>2
<1> QED
  BY <1>1, <1>2, AllStay DEF Steady

\* ... and one that it hands on.
LEMMA LookupStays ==
  ASSUME Steady, NEW s \in Sessions, NEW f, up[s] # <<>>, f = Head(up[s]), f.kind = "forward",
         D!ForwardLookup(s, f.to, f.payload), up' = [up EXCEPT ![s] = Tail(@)],
         UNCHANGED <<cur, down, received>>
  PROVE  Paths' /\ OnlyOld
<1>1. up[s] \in Seq(C!QueueFrames) /\ f \in C!QueueFrames /\ f.payload \in Calls /\ f.to \in PeerIds /\ f # None
  <2>1. up[s] \in Seq(C!QueueFrames)
    BY DaemonShape
  <2>2. f \in C!QueueFrames
    BY <2>1, HeadTailProperties
  <2> QED
    BY <2>1, <2>2, UpFrames, NoneIsNoFrame
<1> DEFINE g == f.payload
<1>2. Carries(f, g)
  BY <1>1 DEF Carries
<1>3. /\ stage[s] = "read" /\ stage' = [stage EXCEPT ![s] = "forward"]
      /\ goal' = [goal EXCEPT ![s] = f.to]
      /\ pending' = [pending EXCEPT ![s] = D!Delivery(peer[s], g)]
      /\ f.to # peer[s]
      /\ UNCHANGED <<uuid, peer, mpsc, worlds>>
  BY DEF D!ForwardLookup, D!SelfRoute, D!db
<1>4. /\ up'[s] = Tail(up[s]) /\ stage'[s] = "forward" /\ goal'[s] = f.to
      /\ pending'[s] = D!Delivery(peer[s], g)
      /\ \A r \in Sessions \ {s} : up'[r] = up[r] /\ stage'[r] = stage[r] /\ goal'[r] = goal[r]
                                   /\ pending'[r] = pending[r]
  BY <1>3, DaemonShape
<1>5. \A h : Carries(pending'[s], h) => h = g
  BY <1>4 DEF D!Delivery, Carries
<1>6. On("up", s, g)
  BY <1>1, <1>2, CarriedTail DEF On
<1>7. /\ Sole(up[s], g) /\ Named(up[s], g, dest[g]) /\ uuid[s] = server[g]
      /\ status[g] = "sent" /\ server[g] \in Servers
  <2>1. Travels(g)
    BY <1>1 DEF Steady, Paths
  <2>2. "up" \in Legs /\ Right("up", s, g) /\ status[g] = "sent" /\ server[g] \in Servers
    BY <1>6, <2>1 DEF Travels, Legs
  <2>3. Sole(up[s], g)
    BY <2>1 DEF Travels
  <2>4. Named(up[s], g, dest[g]) /\ uuid[s] = server[g]
    BY <1>3, <2>2 DEF Right
  <2> QED
    BY <2>2, <2>3, <2>4
<1>8. ~On("up", s, g)'
  BY <1>1, <1>2, <1>4, <1>7, CarriedTail DEF On
<1>9. f.to = dest[g]
  BY <1>1, <1>2, <1>7, CarriedTail
<1>10. Right("pending", s, g)'
  <2>1. peer[s] # None /\ peer[s] = worlds[server[g]]
    <3>1. /\ peer[s] = None <=> stage[s] \in {"free", "hello", "insert"}
          /\ peer[s] # None => peer[s] = worlds[uuid[s]]
      BY Zenon DEF Steady, DaemonFacts
    <3> QED
      BY <1>3, <1>7, <3>1
  <2>2. dest'[g] = dest[g] /\ server'[g] = server[g]
    BY <1>1, <1>7 DEF Steady, CallsKept
  <2>3. Foreign(g)'
    BY <1>3, <1>9, <2>1, <2>2 DEF Foreign
  <2> QED
    BY <1>4, <1>9, <2>2, <2>3 DEF Right
<1>11. ASSUME NEW h \in Calls, NEW r \in Sessions
       PROVE  /\ UpStays(r, h) /\ MpscStays(r, h) /\ DownStays(r, h)
              /\ r # s => PendingStays(r, h)
  <2>1. UpStays(s, h)
    BY <1>3, <1>4, FrontGone DEF Steady, DaemonFacts
  <2> QED
    BY <1>3, <1>4, <2>1, Untouched
<1>12. ASSUME NEW h \in Calls, NEW m \in Legs, NEW r \in Sessions, Travels(h), On(m, r, h)'
       PROVE  /\ Right(m, r, h)'
              /\ On(m, r, h) \/ (m = "pending" /\ r = s /\ On("up", s, h) /\ ~On("up", s, h)')
  <2>1. CallsKept /\ WorldsKept
    BY DEF Steady
  <2>2. CASE m = "pending" /\ r = s
    <3>1. h = g
      BY <1>5, <1>12, <2>2 DEF On
    <3> QED
      BY <1>6, <1>8, <1>10, <2>2, <3>1
  <2>3. CASE ~(m = "pending" /\ r = s)
    BY <1>11, <1>12, <2>1, <2>3, LegStays DEF Legs
  <2> QED
    BY <2>2, <2>3
<1>13. StillSole
  BY <1>11 DEF StillSole, Travels, UpStays, MpscStays, DownStays
<1>14. "up" \in Legs /\ "pending" \in Legs /\ Paths /\ CallsKept /\ WorldsKept /\ UNCHANGED received
  BY DEF Legs, Steady
<1>15. Moved("up", s, "pending", s)
  BY <1>12 DEF Moved
<1> QED
  BY <1>13, <1>14, <1>15, Moving

\* try_send puts the payload into the queue of the addressee's session.
LEMMA DeliverStays ==
  ASSUME Steady, NEW s \in Sessions, D!ForwardDeliver(s), UNCHANGED <<cur, up, down, received>>
  PROVE  Paths' /\ OnlyOld
<1>0. PICK t, f : t = target[s] /\ f = pending[s]
  OBVIOUS
<1>1. /\ stage[s] = "forward" /\ t \in Sessions /\ peer[t] = goal[s]
      /\ f \in D!OutFrames /\ mpsc[t] \in Seq(D!OutFrames)
  BY <1>0 DEF D!ForwardDeliver, Steady, DaemonFacts, D!DaemonTypeOK
<1>2. /\ pending'[s] = None
      /\ mpsc'[t] = Append(mpsc[t], f)
      /\ \A r \in Sessions \ {s} : pending'[r] = pending[r] /\ stage'[r] = stage[r] /\ goal'[r] = goal[r]
      /\ \A r \in Sessions \ {t} : mpsc'[r] = mpsc[r]
      /\ \A r \in Sessions : stage'[r] # "free" => stage[r] # "free"
      /\ UNCHANGED <<uuid, peer, worlds>>
  BY <1>0, <1>1, DaemonShape DEF D!ForwardDeliver, D!db
<1>3. ASSUME NEW h \in Calls, NEW r \in Sessions
      PROVE  UpStays(r, h) /\ PendingStays(r, h) /\ DownStays(r, h) /\ (r # t => MpscStays(r, h))
  BY <1>2, Untouched, AnswersAreEmpty
<1>4. ASSUME NEW h \in Calls, Carries(f, h)
      PROVE  /\ On("pending", s, h) /\ ~On("pending", s, h)' /\ Right("mpsc", t, h)'
             /\ ~Carried(mpsc[t], h)
  <2>1. On("pending", s, h) /\ ~On("pending", s, h)'
    BY <1>0, <1>2, <1>4, AnswersAreEmpty DEF On
  <2>2. /\ goal[s] = dest[h] /\ Foreign(h) /\ status[h] = "sent" /\ server[h] \in Servers
        /\ ~On("mpsc", t, h)
    BY <1>1, <2>1 DEF Steady, Paths, Travels, Right, Legs
  <2>3. dest'[h] = dest[h] /\ server'[h] = server[h]
    BY <2>2 DEF Steady, CallsKept
  <2>4. peer'[t] = dest'[h] /\ Foreign(h)'
    BY <1>1, <1>2, <2>2, <2>3 DEF Foreign
  <2>5. Right("mpsc", t, h)' <=> (peer'[t] = dest'[h] /\ Foreign(h)')
    BY DEF Right
  <2> QED
    BY <2>1, <2>2, <2>4, <2>5 DEF On
<1>5. ASSUME NEW h \in Calls, ~Carries(f, h) PROVE MpscStays(t, h)
  <2>1. /\ Carried(Append(mpsc[t], f), h) => Carried(mpsc[t], h)
        /\ Sole(mpsc[t], h) => Sole(Append(mpsc[t], f), h)
    BY <1>1, <1>5, CarriedAppend
  <2> QED
    BY <1>2, <2>1 DEF MpscStays
<1>6. ASSUME NEW h \in Calls, NEW m \in Legs, NEW r \in Sessions, Travels(h), On(m, r, h)'
      PROVE  /\ Right(m, r, h)'
             /\ On(m, r, h) \/ (m = "mpsc" /\ r = t /\ On("pending", s, h) /\ ~On("pending", s, h)')
  <2>1. CallsKept /\ WorldsKept
    BY DEF Steady
  <2>2. CASE m = "mpsc" /\ r = t /\ Carries(f, h)
    <3>1. On("pending", s, h) /\ ~On("pending", s, h)' /\ Right("mpsc", t, h)'
      BY <1>4, <2>2
    <3> QED
      BY <2>2, <3>1
  <2>3. CASE ~(m = "mpsc" /\ r = t /\ Carries(f, h))
    BY <1>3, <1>5, <1>6, <2>1, <2>3, LegStays DEF Legs
  <2> QED
    BY <2>2, <2>3
<1>7. ASSUME NEW h \in Calls, NEW r \in Sessions, Travels(h)
      PROVE  Sole(up'[r], h) /\ Sole(mpsc'[r], h) /\ Sole(down'[r], h)
  <2>1. Sole(up'[r], h) /\ Sole(down'[r], h) /\ (r # t => Sole(mpsc'[r], h))
    BY <1>3, <1>7 DEF Travels, UpStays, MpscStays, DownStays
  <2>2. Sole(mpsc[t], h)
    BY <1>1, <1>7 DEF Travels
  <2>3. Sole(Append(mpsc[t], f), h)
    BY <1>1, <1>4, <2>2, CarriedAppend
  <2> QED
    BY <1>2, <2>1, <2>3
<1>8. "mpsc" \in Legs /\ "pending" \in Legs /\ Paths /\ CallsKept /\ WorldsKept /\ UNCHANGED received
  BY DEF Legs, Steady
<1>9. StillSole
  BY <1>7 DEF StillSole
<1>10. Moved("pending", s, "mpsc", t)
  BY <1>6 DEF Moved
<1> QED
  BY <1>1, <1>8, <1>9, <1>10, Moving

\* The daemon writes a frame to a connection, where it may be lost.
LEMMA WriteStays ==
  ASSUME Steady, NEW s \in Sessions, DaemonWrites(s)
  PROVE  Paths' /\ OnlyOld
<1>0. PICK f : f = Head(mpsc[s])
  OBVIOUS
<1>1. /\ mpsc[s] \in Seq(D!OutFrames) /\ mpsc[s] # <<>> /\ f \in D!OutFrames
      /\ down[s] \in Seq(D!OutFrames)
  BY <1>0, DaemonShape, HeadTailProperties DEF DaemonWrites, D!WriteFrame
<1>2. /\ mpsc'[s] = Tail(mpsc[s])
      /\ \A r \in Sessions \ {s} : mpsc'[r] = mpsc[r] /\ down'[r] = down[r]
      /\ IF alive[s] THEN down'[s] = Append(down[s], f) ELSE down'[s] = down[s]
      /\ UNCHANGED <<stage, pending, goal, uuid, peer, worlds, cur, up, received>>
  BY <1>0, DaemonShape DEF DaemonWrites, D!WriteFrame, D!db, D!task
<1>3. ASSUME NEW h \in Calls, NEW r \in Sessions
      PROVE  UpStays(r, h) /\ PendingStays(r, h) /\ MpscStays(r, h) /\ (r # s => DownStays(r, h))
  <2>1. MpscStays(s, h)
    BY <1>1, <1>2, FrontGone DEF Steady, DaemonFacts
  <2> QED
    BY <1>2, <2>1, Untouched
<1>4. CASE ~alive[s]
  <2>1. \A h \in Calls, r \in Sessions :
          UpStays(r, h) /\ PendingStays(r, h) /\ MpscStays(r, h) /\ DownStays(r, h)
    BY <1>2, <1>3, <1>4, Untouched
  <2> QED
    BY <1>2, <2>1, AllStay DEF Steady
<1>5. CASE alive[s]
  <2>1. ASSUME NEW h \in Calls, Carries(f, h)
        PROVE  /\ On("mpsc", s, h) /\ ~On("mpsc", s, h)' /\ Right("down", s, h)'
               /\ ~Carried(down[s], h)
    <3>1. On("mpsc", s, h)
      BY <1>0, <1>1, <2>1, CarriedTail DEF On
    <3>2. /\ peer[s] = dest[h] /\ Foreign(h) /\ status[h] = "sent" /\ server[h] \in Servers
          /\ dest[h] \in PeerIds /\ ~On("down", s, h) /\ Sole(mpsc[s], h)
      BY <3>1 DEF Steady, Paths, Travels, Right, Legs
    <3>3. ~On("mpsc", s, h)'
      BY <1>0, <1>1, <1>2, <2>1, <3>2, CarriedTail, ZenonT(40) DEF On
    <3>4. dest'[h] = dest[h] /\ server'[h] = server[h] /\ Foreign(h)'
      BY <1>2, <3>2 DEF Steady, CallsKept, Foreign
    <3>5. ASSUME NEW c \in Servers, cur[c] = s PROVE worlds[c] = dest[h]
      <4>1. uuid[s] = c
        BY <1>5, <3>5 DEF Steady, Connections
      <4>2. peer[s] # None
        BY <3>2, FederationAssumption
      <4> QED
        BY <3>2, <4>1, <4>2 DEF Steady, DaemonFacts
    <3>6. Right("down", s, h)'
      BY <1>2, <3>4, <3>5 DEF Right
    <3> QED
      BY <3>1, <3>2, <3>3, <3>6 DEF On
  <2>2. ASSUME NEW h \in Calls, ~Carries(f, h) PROVE DownStays(s, h)
    <3>1. /\ Carried(Append(down[s], f), h) => Carried(down[s], h)
          /\ Sole(down[s], h) => Sole(Append(down[s], f), h)
      BY <1>1, <2>2, CarriedAppend
    <3> QED
      BY <1>2, <1>5, <3>1 DEF DownStays
  <2>3. ASSUME NEW h \in Calls, NEW m \in Legs, NEW r \in Sessions, Travels(h), On(m, r, h)'
        PROVE  /\ Right(m, r, h)'
               /\ On(m, r, h) \/ (m = "down" /\ r = s /\ On("mpsc", s, h) /\ ~On("mpsc", s, h)')
    <3>1. CallsKept /\ WorldsKept
      BY DEF Steady
    <3>2. CASE m = "down" /\ r = s /\ Carries(f, h)
      <4>1. On("mpsc", s, h) /\ ~On("mpsc", s, h)' /\ Right("down", s, h)'
        BY <2>1, <3>2
      <4> QED
        BY <3>2, <4>1
    <3>3. CASE ~(m = "down" /\ r = s /\ Carries(f, h))
      BY <1>3, <2>2, <2>3, <3>1, <3>3, LegStays DEF Legs
    <3> QED
      BY <3>2, <3>3
  <2>4. ASSUME NEW h \in Calls, NEW r \in Sessions, Travels(h)
        PROVE  Sole(up'[r], h) /\ Sole(mpsc'[r], h) /\ Sole(down'[r], h)
    <3>1. Sole(up'[r], h) /\ Sole(mpsc'[r], h) /\ (r # s => Sole(down'[r], h))
      BY <1>3, <2>4 DEF Travels, UpStays, MpscStays, DownStays
    <3>2. Sole(down[s], h)
      BY <2>4 DEF Travels
    <3>3. Sole(Append(down[s], f), h)
      BY <1>1, <2>1, <3>2, CarriedAppend
    <3> QED
      BY <1>2, <1>5, <3>1, <3>3
  <2>5. "mpsc" \in Legs /\ "down" \in Legs /\ Paths /\ CallsKept /\ WorldsKept /\ UNCHANGED received
    BY <1>2 DEF Legs, Steady
  <2>6. StillSole
    BY <2>4 DEF StillSole
  <2>7. Moved("mpsc", s, "down", s)
    BY <2>3 DEF Moved
  <2> QED
    BY <2>5, <2>6, <2>7, Moving
<1> QED
  BY <1>4, <1>5

\* The client writes a frame, with which a payload sets out or is lost.
LEMMA SendStays ==
  ASSUME Steady, NEW c \in Servers, ClientSends(c)
  PROVE  Paths'
<1>0. PICK f, s : f = Head(batch[c]) /\ s = cur[c]
  OBVIOUS
<1>1. /\ batch[c] \in Seq(C!QueueFrames) /\ batch[c] # <<>> /\ f \in C!QueueFrames /\ f # None
      /\ phase[c] = "send" /\ s \in Sessions
  <2>1. batch[c] \in Seq(C!QueueFrames) /\ batch[c] # <<>> /\ phase[c] = "send"
    BY DEF ClientSends, C!SendFront, Steady, ClientFacts, C!TypeOK
  <2>2. f \in C!QueueFrames
    BY <1>0, <2>1, HeadTailProperties
  <2>3. s \in Sessions
    BY <1>0, <2>1 DEF Steady, StreamTypes, Connections
  <2> QED
    BY <2>1, <2>2, <2>3, NoneIsNoFrame
<1>2. /\ UNCHANGED <<stage, pending, goal, uuid, peer, worlds, mpsc, cur, down, received, server, dest>>
      /\ \A r \in Sessions \ {s} : up'[r] = up[r]
      /\ IF alive[s] THEN up'[s] = Append(up[s], f) ELSE up'[s] = up[s]
      /\ up[s] \in Seq(C!QueueFrames)
      /\ f.kind = "forward" => status' = [status EXCEPT ![f.payload] = "sent"]
      /\ f.kind # "forward" => status' = status
  BY <1>0, <1>1, DaemonShape DEF ClientSends, C!SendFront, daemonVars
<1>3. ASSUME NEW h \in Calls, NEW r \in Sessions
      PROVE  PendingStays(r, h) /\ MpscStays(r, h) /\ DownStays(r, h) /\ (r # s => UpStays(r, h))
  BY <1>2, Untouched
<1>4. ASSUME NEW h \in Calls, ~Carries(f, h) \/ ~alive[s] PROVE UpStays(s, h)
  <2>1. CASE alive[s]
    <3>1. /\ Carried(Append(up[s], f), h) => Carried(up[s], h)
          /\ Sole(up[s], h) => Sole(Append(up[s], f), h)
          /\ Named(up[s], h, dest[h]) => Named(Append(up[s], f), h, dest[h])
      BY <1>1, <1>2, <1>4, <2>1, CarriedAppend
    <3> QED
      BY <1>2, <2>1, <3>1 DEF UpStays
  <2>2. CASE ~alive[s]
    BY <1>1, <1>2, <2>2, Untouched
  <2> QED
    BY <2>1, <2>2
<1>5. ASSUME NEW h \in Calls, Carries(f, h)
      PROVE  /\ status[h] = "accepted" /\ server[h] = c /\ dest[h] \in PeerIds /\ f.to = dest[h]
             /\ status'[h] = "sent" /\ received[h] = <<>>
             /\ \A k \in Legs, r \in Sessions : ~On(k, r, h)
  <2>1. Carried(batch[c], h) /\ Named(batch[c], h, dest[h])
    BY <1>0, <1>1, <1>5, CarriedTail DEF Steady, ClientFacts
  <2>2. status[h] = "accepted" /\ server[h] = c /\ dest[h] \in PeerIds
    BY <2>1 DEF Steady, ClientFacts
  <2>3. f.to = dest[h]
    BY <1>0, <1>1, <1>5, <2>1, CarriedTail
  <2>4. f.kind = "forward" /\ f.payload = h
    BY <1>1, <1>5, UpFrames DEF Carries
  <2>5. status'[h] = "sent"
    BY <1>2, <2>4 DEF Steady, ClientFacts, C!TypeOK
  <2>6. received[h] = <<>> /\ \A k \in Legs, r \in Sessions : ~On(k, r, h)
    BY <2>2 DEF Steady, Paths, Travels, Arrived
  <2> QED
    BY <2>2, <2>3, <2>5, <2>6
<1>6. ASSUME NEW h \in Calls, NEW k \in Legs, NEW r \in Sessions, On(k, r, h)'
      PROVE  /\ Right(k, r, h)' /\ status'[h] = "sent" /\ received'[h] = <<>>
             /\ server'[h] \in Servers /\ dest'[h] \in PeerIds
             /\ On(k, r, h) \/ (k = "up" /\ r = s /\ \A m \in Legs, q \in Sessions : ~On(m, q, h))
  <2>1. CASE k = "up" /\ r = s /\ Carries(f, h) /\ alive[s]
    <3>1. ~Carried(up[s], h)
      BY <1>1, <1>5, <2>1 DEF On, Legs
    <3>2. Named(up[s], h, dest[h])
      BY <3>1 DEF Carried, Named
    <3>3. Named(up'[s], h, dest'[h])
      <4>1. Named(Append(up[s], f), h, dest[h])
        BY <1>1, <1>2, <1>5, <2>1, <3>2, CarriedAppend
      <4> QED
        BY <1>2, <2>1, <4>1
    <3>4. stage[s] # "free" => uuid[s] = c
      BY <1>0, <1>1 DEF Steady, Connections
    <3>5. Right("up", s, h)'
      BY <1>2, <1>5, <2>1, <3>3, <3>4 DEF Right
    <3> QED
      BY <1>2, <1>5, <2>1, <3>5
  <2>2. CASE ~(k = "up" /\ r = s /\ Carries(f, h) /\ alive[s])
    <3>0. CallsKept /\ WorldsKept /\ Travels(h)
      BY DEF Steady, Paths
    <3>1. On(k, r, h) /\ Right(k, r, h)'
      BY <1>3, <1>4, <1>6, <2>2, <3>0, LegStays DEF Legs
    <3> QED
      BY <1>2, <3>0, <3>1 DEF Travels, CallsKept
  <2> QED
    BY <2>1, <2>2
<1>7. ASSUME NEW h \in Calls, NEW r \in Sessions
      PROVE  Sole(up'[r], h) /\ Sole(mpsc'[r], h) /\ Sole(down'[r], h)
  <2>0. Sole(up[r], h) /\ Sole(mpsc[r], h) /\ Sole(down[r], h) /\ Sole(up[s], h)
    BY <1>1 DEF Steady, Paths, Travels
  <2>1. ~(Carried(up[s], h) /\ Carries(f, h))
    BY <1>1, <1>5 DEF On, Legs
  <2>2. Sole(Append(up[s], f), h)
    BY <1>1, <1>2, <2>0, <2>1, CarriedAppend
  <2> QED
    BY <1>2, <2>0, <2>2
<1>8. ASSUME NEW h \in Calls PROVE Travels(h)' /\ Arrived(h)'
  <2>0. CallsKept /\ Travels(h) /\ Arrived(h)
    BY DEF Steady, Paths
  <2>1. Travels(h)'
    BY <1>6, <1>7, <2>0 DEF Travels
  <2>2. Arrived(h)'
    BY <1>2, <2>0 DEF Arrived, CallsKept
  <2> QED
    BY <2>1, <2>2
<1> QED
  BY <1>8 DEF Paths

-----------------------------------------------------------------------------
(* The invariant.                                                           *)

LEMMA PathsStep ==
  ASSUME Steady, Next
  PROVE  Paths'
<1> USE DEF clientVars, daemonVars
<1>1. CASE ClientOnly
  <2>1. UNCHANGED <<stage, uuid, peer, pending, goal, mpsc, cur, up, down, received>>
    BY <1>1 DEF ClientOnly
  <2> QED
    BY <2>1, StillStays
<1>2. ASSUME NEW s \in Sessions, UNCHANGED <<cur, up, down, received>>,
             \/ D!UpsertExisting(s) \/ D!UpsertMissing(s) \/ D!HelloRejected(s)
             \/ \E p \in PeerIds : D!UpsertInsert(s, p)
             \/ D!Register(s) \/ D!SendReply(s) \/ D!ForwardDeliver(s) \/ D!ForwardFailed(s)
             \/ D!ReaderEof(s) \/ D!ReaderError(s) \/ D!Cleanup(s) \/ D!ConnectionLost(s)
             \/ D!WriterFails(s) \/ D!WriterEnds(s) \/ D!Close(s)
      PROVE  Paths'
  BY <1>2, DaemonAloneStays, ReplyStays, DeliverStays
<1>3. CASE DaemonOnly
  BY <1>2, <1>3 DEF DaemonOnly
<1>4. ASSUME NEW s \in Sessions, SessionFault(s) PROVE Paths'
  BY <1>2, <1>4 DEF SessionFault
<1>5. ASSUME NEW s \in Sessions, DaemonReads(s) PROVE Paths'
  <2> DEFINE f == Head(up[s])
  <2>1. f \in C!QueueFrames
    BY <1>5, HeadTailProperties DEF DaemonReads, Steady, StreamTypes
  <2>2. CASE f.kind = "forward" /\ D!ForwardLookup(s, f.to, f.payload)
    <3>1. PICK g : g = Head(up[s])
      OBVIOUS
    <3> QED
      BY <1>5, <2>2, <3>1, LookupStays DEF DaemonReads
  <2>3. CASE \/ f.kind = "claim" /\ D!ClaimSector(s, f.sector)
             \/ f.kind = "resolve" /\ D!ResolveSector(s, f.sector)
             \/ f.kind = "forward" /\ D!ForwardRefused(s, f.to, f.payload)
    <3>1. \E g : /\ \A h : ~Carries(g, h)
                 /\ D!Answer(s, g)
      BY <2>3, AnswersAreEmpty DEF D!ClaimSector, D!ResolveSector, D!ForwardRefused
    <3>2. stage[s] = "read" /\ UNCHANGED <<uuid, peer, mpsc>>
      BY <2>3 DEF D!ClaimSector, D!ResolveSector, D!ForwardRefused
    <3> QED
      BY <1>5, <3>1, <3>2, AnsweredStays DEF DaemonReads
  <2> QED
    BY <1>5, <2>2, <2>3 DEF DaemonReads
<1>6. ASSUME NEW c \in Servers, ClientReadsAck(c) PROVE Paths'
  <2>1. cur[c] \in Sessions
    BY <1>6 DEF ClientReadsAck, C!ReceiveAck, Steady, StreamTypes, Connections
  <2> QED
    BY <1>6, <2>1, ConsumedStays DEF ClientReadsAck, Consume
<1>7. ASSUME NEW c \in Servers, ClientReads(c) PROVE Paths'
  <2>1. PICK s, f : ReadsOf(c, s, f)
    BY <1>7, Reading, Zenon DEF Steady
  <2>2. /\ c \in Servers /\ s \in Sessions /\ s = cur[c] /\ f = Head(down[s]) /\ down[s] # <<>>
        /\ down' = Consume(s) /\ UNCHANGED <<daemonVars, cur, up>>
    BY <1>7, <2>1, Zenon DEF ReadsOf
  <2>3. CASE UNCHANGED received
    BY <2>2, <2>3, ConsumedStays
  <2>4. CASE f.kind = "delivery" /\ received' = [received EXCEPT ![f.payload] = Append(@, c)]
    <3>1. DeliveryAt(c, s, f)
      BY <2>2, <2>4 DEF DeliveryAt
    <3> QED
      BY <2>2, <2>4, <3>1, ArrivalStays
  <2> QED
    BY <2>1, <2>3, <2>4, Zenon DEF ReadsOf
<1> QED
  BY <1>1, <1>3, <1>4, <1>5, <1>6, <1>7, ConnectStays, DisconnectStays, RestartStays, WriteStays, SendStays
     DEF Next

\* The inductive invariant: those of the two sides, who is connected to what,
\* and where payloads are.
Whole == CP!IInv /\ DP!IInv /\ StreamTypes /\ Connections /\ Paths

LEMMA WholeInit == Init => Whole
<1> SUFFICES ASSUME Init PROVE Whole
  OBVIOUS
<1>1. CP!IInv
  BY SameClient, CP!InvInit, FederationAssumption DEF Init
<1>2. DP!IInv
  BY SameDaemon, DP!InitInv, FederationAssumption DEF Init
<1>3. StreamTypes
  BY EmptySeq DEF Init, StreamTypes
<1>4. Connections
  BY FederationAssumption DEF Init, C!Init, D!Init, Connections
<1>5. \A k \in Legs, s \in Sessions, h \in Calls : ~On(k, s, h)
  BY CarriedNone, AnswersAreEmpty DEF Init, D!Init, On, Legs
<1>6. \A h \in Calls, s \in Sessions : Sole(up[s], h) /\ Sole(mpsc[s], h) /\ Sole(down[s], h)
  BY CarriedNone DEF Init, D!Init
<1>7. Paths
  BY <1>5, <1>6 DEF Paths, Travels, Arrived, Init
<1> QED
  BY <1>1, <1>2, <1>3, <1>4, <1>7 DEF Whole

\* What the lemmas about steps start from.
LEMMA SteadyNow == Whole /\ [Next]_vars => Steady /\ [C!Next]_C!vars /\ [D!Next]_D!vars
<1> SUFFICES ASSUME Whole, [Next]_vars PROVE Steady /\ [C!Next]_C!vars /\ [D!Next]_D!vars
  OBVIOUS
<1>1. ClientFacts /\ DaemonFacts /\ C!TypeOK /\ D!DaemonTypeOK
  BY ClientKnows, DaemonKnows DEF Whole, ClientFacts, DaemonFacts
<1>2. [C!Next]_C!vars /\ [D!Next]_D!vars
  <2>1. CASE Next
    BY <1>1, <2>1, ClientStep, DaemonStep DEF Whole
  <2>2. CASE UNCHANGED vars
    BY <2>2 DEF vars, clientVars, daemonVars, C!vars, D!vars
  <2> QED
    BY <2>1, <2>2
<1> QED
  BY <1>1, <1>2, WrittenIsKept, PeerIdsAreKept DEF Whole, Steady

LEMMA WholeStep == Whole /\ [Next]_vars => Whole'
<1> SUFFICES ASSUME Whole, [Next]_vars PROVE Whole'
  OBVIOUS
<1>1. C!TypeOK /\ D!DaemonTypeOK
  BY ClientKnows, DaemonKnows DEF Whole, ClientFacts, DaemonFacts
<1>2. Steady /\ [C!Next]_C!vars /\ [D!Next]_D!vars
  BY SteadyNow
<1>3. CP!IInv'
  BY <1>2, SameClient, CP!InvStep, FederationAssumption DEF Whole
<1>4. DP!IInv'
  BY <1>2, SameDaemon, DP!InvStep, FederationAssumption DEF Whole
<1>5. StreamTypes' /\ Connections' /\ Paths'
  <2>1. CASE Next
    BY <1>1, <1>2, <2>1, StreamTypesStep, ConnectionsStep, PathsStep DEF Whole
  <2>2. CASE UNCHANGED vars
    <3>1. StreamTypes' /\ Connections'
      BY <2>2 DEF Whole, StreamTypes, Connections, vars, clientVars, daemonVars
    <3>2. Paths'
      BY <1>2, <2>2, StillStays DEF vars, clientVars, daemonVars
    <3> QED
      BY <3>1, <3>2
  <2> QED
    BY <2>1, <2>2
<1> QED
  BY <1>3, <1>4, <1>5 DEF Whole

\* Both sides keep their invariants over streams that break and a daemon that
\* restarts; both ends agree on who is connected, and every payload is in at most
\* one place, from which its way leads to the addressee.
THEOREM WholeHolds == Spec => []Whole
BY WholeInit, WholeStep, PTL DEF Spec

\* A payload that a delivery callback saw arrived at the server that runs under
\* the peer id its sender had named or resolved, and not at the sender.
THEOREM Addressed == Spec => []DeliveredToAddressee
<1>1. Whole => DeliveredToAddressee
  <2> SUFFICES ASSUME Whole, NEW h \in Calls, NEW i \in 1..Len(received[h])
               PROVE  worlds[received[h][i]] = dest[h] /\ received[h][i] # server[h]
    BY DEF DeliveredToAddressee
  <2>1. Arrived(h) /\ received[h] # <<>>
    BY EmptySeq DEF Whole, Paths, StreamTypes
  <2>2. PICK c \in Servers : received[h] = <<c>> /\ worlds[c] = dest[h] /\ c # server[h]
    BY <2>1 DEF Arrived
  <2> QED
    BY <2>2
<1> QED
  BY <1>1, WholeHolds, PTL

-----------------------------------------------------------------------------
(* Refinement of Handoff.                                                   *)

\* SendTo has not taken the payload.
Unsent(h) == status[h] \in {"idle", "pending", "answered", "unknown", "full"}

\* It is in the hands of a client, ...
Held(h) == \E c \in Servers : Carried(queue[c], h) \/ Carried(batch[c], h)

\* ... or past it.
LEMMA TransitIs ==
  ASSUME NEW h \in Calls
  PROVE  InTransit(h) <=> Held(h) \/ \E k \in Legs, s \in Sessions : On(k, s, h)
BY DEF InTransit, Held, On, Legs

\* What the fate of a payload says.
FatesSay ==
  \A h \in Calls :
    fateBar[h] = IF Unsent(h) THEN "new"
                 ELSE IF received[h] # <<>> THEN "delivered"
                 ELSE IF InTransit(h) THEN "travelling" ELSE "gone"

LEMMA FateIs == Paths /\ ClientFacts => FatesSay
<1> SUFFICES ASSUME Paths, ClientFacts, NEW h \in Calls
             PROVE  fateBar[h] = IF Unsent(h) THEN "new"
                                 ELSE IF received[h] # <<>> THEN "delivered"
                                 ELSE IF InTransit(h) THEN "travelling" ELSE "gone"
  BY DEF FatesSay
<1>1. fateBar[h] = CASE Unsent(h) -> "new"
                     [] received[h] # <<>> -> "delivered"
                     [] received[h] = <<>> /\ InTransit(h) -> "travelling"
                     [] OTHER -> "gone"
  BY DEF Unsent, fateBar
<1>2. Unsent(h) => received[h] = <<>> /\ ~InTransit(h)
  BY TransitIs DEF Paths, Arrived, Travels, ClientFacts, Held, Unsent
<1>3. CASE Unsent(h)
  BY <1>1, <1>2, <1>3
<1>4. CASE ~Unsent(h) /\ received[h] # <<>>
  BY <1>1, <1>4
<1>5. CASE ~Unsent(h) /\ received[h] = <<>> /\ InTransit(h)
  BY <1>1, <1>5
<1>6. CASE ~Unsent(h) /\ received[h] = <<>> /\ ~InTransit(h)
  BY <1>1, <1>6
<1> QED
  BY <1>3, <1>4, <1>5, <1>6

LEMMA FateWillBe == Paths' /\ ClientFacts' => FatesSay'
BY FateIs, PTL

\* A step that sends and delivers nothing.
Quiet ==
  /\ UNCHANGED received
  /\ \A h \in Calls : (Unsent(h)' <=> Unsent(h)) /\ (InTransit(h)' => InTransit(h))

\* It may lose some.
LEMMA QuietRefines ==
  ASSUME Paths, Paths', ClientFacts, ClientFacts', Quiet
  PROVE  [H!Next]_H!vars
<1>1. ASSUME NEW h \in Calls
      PROVE  fateBar'[h] = fateBar[h] \/ (fateBar[h] = "travelling" /\ fateBar'[h] = "gone")
  BY FateIs, FateWillBe DEF Quiet, FatesSay
<1> DEFINE L == {h \in Calls : fateBar'[h] # fateBar[h]}
<1>2. L \subseteq Calls /\ \A h \in L : fateBar[h] = "travelling"
  BY <1>1
<1>3. fateBar' = [h \in Calls |-> fateBar'[h]] /\ fateBar = [h \in Calls |-> fateBar[h]]
  BY DEF fateBar
<1>4. fateBar' = [h \in Calls |-> IF h \in L THEN "gone" ELSE fateBar[h]]
  <2>1. \A h \in Calls : fateBar'[h] = IF h \in L THEN "gone" ELSE fateBar[h]
    BY <1>1
  <2> QED
    BY <1>3, <2>1
<1>5. CASE L = {}
  <2>1. fateBar' = fateBar
    BY <1>3, <1>4, <1>5
  <2> QED
    BY <2>1 DEF H!vars, Quiet
<1>6. CASE L # {}
  <2>1. H!Drop(L)
    BY <1>2, <1>4, <1>6 DEF H!Drop, Quiet
  <2> QED
    BY <1>2, <2>1 DEF H!Next
<1> QED
  BY <1>5, <1>6

LEMMA ClientWillKnow == CP!IInv' => ClientFacts'
BY ClientKnows, PTL

LEMMA DaemonWillKnow == DP!IInv' => DaemonFacts'
BY DaemonKnows, PTL

\* Nothing is taken from the clients' callers, and nothing appears.
LEMMA NothingNew ==
  ASSUME UNCHANGED received, OnlyOld,
         \A h \in Calls : (Unsent(h)' <=> Unsent(h)) /\ (Held(h)' => Held(h))
  PROVE  Quiet
<1>1. ASSUME NEW h \in Calls, InTransit(h)' PROVE InTransit(h)
  <2>1. InTransit(h)' <=> (Held(h) \/ \E l \in Legs, t \in Sessions : On(l, t, h))'
    BY DEF InTransit, Held, On, Legs
  <2> QED
    BY <1>1, <2>1, TransitIs DEF OnlyOld
<1> QED
  BY <1>1 DEF Quiet

\* A step of the daemon or of the network.
LEMMA DaemonQuiet ==
  ASSUME UNCHANGED <<queue, batch, status, received>>, OnlyOld
  PROVE  Quiet
<1>1. \A h \in Calls : (Held(h)' <=> Held(h)) /\ (Unsent(h)' <=> Unsent(h))
  BY DEF Held, Unsent
<1> QED
  BY <1>1, NothingNew

\* A step of a client that neither takes nor writes a payload.
LEMMA ClientQuiet ==
  ASSUME ClientFacts, NEW h \in Calls,
         \/ \E g \in Calls : C!Engine(g) /\ ~C!SendEnqueue(g)
         \/ \E c \in Servers : C!Session(c) /\ ~C!CallbackSends(c) /\ ~C!SendFront(c)
  PROVE  (Unsent(h)' <=> Unsent(h)) /\ (Held(h)' => Held(h))
<1>0. /\ queue \in [Servers -> Seq(C!QueueFrames)] /\ batch \in [Servers -> Seq(C!QueueFrames)]
      /\ DOMAIN queue = Servers /\ DOMAIN batch = Servers
      /\ status \in [Calls -> C!Statuses]
      /\ \A k \in Sectors : /\ C!ResolveFrame(k) \in C!QueueFrames /\ ~Carries(C!ResolveFrame(k), h)
                            /\ C!ClaimFrame(k) \in C!QueueFrames /\ ~Carries(C!ClaimFrame(k), h)
  BY DEF ClientFacts, C!TypeOK, C!QueueFrames, C!ResolveFrame, C!ClaimFrame, Carries
<1>1. ASSUME NEW g \in Calls, C!Engine(g), ~C!SendEnqueue(g)
      PROVE  (Unsent(h)' <=> Unsent(h)) /\ (Held(h)' => Held(h))
  <2>1. CASE \/ \E c \in Servers, k \in Sectors : C!StartResolve(c, g, k)
             \/ \E c \in Servers, p \in PeerIds : C!StartSend(c, g, p)
    <3>1. UNCHANGED <<queue, batch>> /\ status[g] = "idle" /\ status' = [status EXCEPT ![g] = "pending"]
      BY <2>1 DEF C!StartResolve, C!StartSend, C!Begin, C!Becomes, C!sessionVars
    <3> QED
      BY <1>0, <3>1 DEF Unsent, Held
  <2>2. CASE C!ResolveRegister(g) \/ C!ResolveRefused(g)
    BY <2>2 DEF C!ResolveRegister, C!ResolveRefused, C!sessionVars, Unsent, Held
  <2>3. CASE C!ResolveEnqueue(g)
    <3>1. /\ UNCHANGED <<batch, status>>
          /\ queue' = [queue EXCEPT ![server[g]] = Append(queue[server[g]], C!ResolveFrame(sector[g]))]
      BY <2>3 DEF C!ResolveEnqueue, C!Enqueue, C!sessionVars
    <3>2. ~Carries(C!ResolveFrame(sector[g]), h)
      BY DEF Carries, C!ResolveFrame
    <3>3. ASSUME NEW c \in Servers, Carried(queue'[c], h) PROVE Carried(queue[c], h)
      <4>1. CASE server[g] = c
        <5>1. PICK i \in 1..Len(Append(queue[c], C!ResolveFrame(sector[g]))) :
                Carries(Append(queue[c], C!ResolveFrame(sector[g]))[i], h)
          BY <1>0, <3>1, <3>3, <4>1 DEF Carried
        <5>2. Len(queue[c]) \in Nat
          BY <1>0, LenProperties
        <5> QED
          BY <1>0, <3>2, <5>1, <5>2 DEF Carried
      <4>2. CASE server[g] # c
        BY <1>0, <3>1, <3>3, <4>2
      <4> QED
        BY <4>1, <4>2
    <3> QED
      BY <3>1, <3>3 DEF Unsent, Held
  <2> QED
    BY <1>1, <2>1, <2>2, <2>3 DEF C!Engine
<1>2. ASSUME NEW c \in Servers, C!Session(c), ~C!CallbackSends(c), ~C!SendFront(c)
      PROVE  (Unsent(h)' <=> Unsent(h)) /\ (Held(h)' => Held(h))
  <2>1. CASE C!Connect(c) \/ C!ReceiveAck(c) \/ C!ClaimsDone(c) \/ C!BatchDone(c) \/ C!RecvIdle(c)
             \/ C!ReceiveOther(c)
    <3>1. UNCHANGED <<queue, batch, status>>
      BY <2>1 DEF C!Connect, C!ReceiveAck, C!ClaimsDone, C!BatchDone, C!RecvIdle, C!ReceiveOther, C!callVars
    <3> QED
      BY <3>1 DEF Unsent, Held
  <2>2. CASE C!AutoClaim(c)
    <3>1. PICK k : /\ UNCHANGED <<batch, status>>
                   /\ queue' = queue \/ queue' = [queue EXCEPT ![c] = Append(queue[c], C!ClaimFrame(k))]
      BY <2>2 DEF C!AutoClaim, C!Enqueue, C!callVars
    <3>2. ~Carries(C!ClaimFrame(k), h)
      BY DEF Carries, C!ClaimFrame
    <3>3. ASSUME NEW d \in Servers, Carried(queue'[d], h) PROVE Carried(queue[d], h)
      <4>1. CASE queue' = [queue EXCEPT ![c] = Append(queue[c], C!ClaimFrame(k))] /\ d = c
        <5>1. PICK i \in 1..Len(Append(queue[c], C!ClaimFrame(k))) :
                Carries(Append(queue[c], C!ClaimFrame(k))[i], h)
          BY <1>0, <3>3, <4>1 DEF Carried
        <5>2. Len(queue[c]) \in Nat
          BY <1>0, LenProperties
        <5> QED
          BY <1>0, <3>2, <4>1, <5>1, <5>2 DEF Carried
      <4>2. CASE queue' = queue \/ d # c
        BY <1>0, <3>1, <3>3, <4>2
      <4> QED
        BY <3>1, <4>1, <4>2
    <3> QED
      BY <3>1, <3>3 DEF Unsent, Held
  <2>3. CASE C!Drain(c)
    <3>1. /\ queue' = [queue EXCEPT ![c] = <<>>] /\ batch' = [batch EXCEPT ![c] = queue[c]]
          /\ UNCHANGED status
      BY <2>3 DEF C!Drain, C!Taken, C!Emptied, C!callVars
    <3>2. \A d \in Servers : /\ Carried(queue'[d], h) => Carried(queue[d], h)
                             /\ Carried(batch'[d], h) => Carried(batch[d], h) \/ Carried(queue[d], h)
      BY <1>0, <3>1, CarriedNone
    <3> QED
      BY <3>1, <3>2 DEF Unsent, Held
  <2>4. ASSUME NEW k \in Sectors, NEW p \in PeerIds \union {None}, C!ReceiveReply(c, k, p)
        PROVE  (Unsent(h)' <=> Unsent(h)) /\ (Held(h)' => Held(h))
    <3>1. /\ UNCHANGED <<queue, batch>>
          /\ \/ status' = status
             \/ /\ cbs[c][k] # None
                /\ \E st \in {"answered", "unknown"} : status' = [status EXCEPT ![cbs[c][k]] = st]
      BY <2>4 DEF C!ReceiveReply, C!Becomes
    <3>2. cbs[c][k] # None => status[cbs[c][k]] = "pending"
      BY DEF ClientFacts
    <3> QED
      BY <1>0, <3>1, <3>2 DEF Unsent, Held
  <2>5. CASE C!SessionEnds(c)
    <3>1. /\ UNCHANGED queue /\ batch' = [batch EXCEPT ![c] = <<>>] /\ status' = C!BatchLost(c)
      BY <2>5 DEF C!SessionEnds
    <3>2. status'[h] = status[h] \/ (status[h] = "accepted" /\ status'[h] = "lost")
      <4>1. ASSUME NEW i \in 1..Len(batch[c]), batch[c][i] = C!ForwardFrame(dest[h], h)
            PROVE  status[h] = "accepted"
        <5>1. batch[c][i] \in C!QueueFrames
          BY <1>0, LenProperties
        <5>2. Carries(batch[c][i], h)
          BY <4>1, <5>1, NoneIsNoFrame DEF Carries, C!ForwardFrame
        <5> QED
          BY <5>2 DEF ClientFacts, Carried
      <4> QED
        BY <3>1, <4>1 DEF C!BatchLost
    <3>3. \A d \in Servers : Carried(batch'[d], h) => Carried(batch[d], h)
      BY <1>0, <3>1, CarriedNone
    <3> QED
      BY <3>1, <3>2, <3>3 DEF Unsent, Held
  <2> QED
    BY <1>2, <2>1, <2>2, <2>3, <2>4, <2>5 DEF C!Session
<1> QED
  BY <1>1, <1>2

\* SendTo, from either thread.
LEMMA PutRefines ==
  ASSUME Paths, Paths', ClientFacts, ClientFacts', NEW g \in Calls,
         status[g] \in {"pending", "answered"}, server[g] \in Servers, C!PutForward(g),
         UNCHANGED <<batch, dest, up, pending, mpsc, down, received>>
  PROVE  [H!Next]_H!vars
<1>1. /\ queue \in [Servers -> Seq(C!QueueFrames)] /\ queue' \in [Servers -> Seq(C!QueueFrames)]
      /\ status \in [Calls -> C!Statuses]
  BY DEF ClientFacts, C!TypeOK
<1>2. \A h \in Calls, k \in Legs, s \in Sessions : On(k, s, h)' <=> On(k, s, h)
  BY DEF On, Legs
<1>3. CASE C!HasRoom(server[g])
  <2>1. PICK c, f : c = server[g] /\ f = C!ForwardFrame(dest[g], g)
    OBVIOUS
  <2>2. /\ queue' = [queue EXCEPT ![c] = Append(queue[c], f)]
        /\ status' = [status EXCEPT ![g] = "accepted"]
    BY <1>3, <2>1 DEF C!PutForward, C!Enqueue, C!Becomes
  <2>3. f \in C!QueueFrames
    <3>1. Append(queue[c], f) \in Seq(C!QueueFrames) /\ Len(queue[c]) \in Nat
      BY <1>1, <2>1, <2>2, LenProperties
    <3>2. Append(queue[c], f)[Len(queue[c]) + 1] = f /\ Len(Append(queue[c], f)) = Len(queue[c]) + 1
      BY <1>1, <2>1, <3>1
    <3>3. Len(queue[c]) + 1 \in 1..Len(Append(queue[c], f))
      BY <3>1, <3>2
    <3> QED
      BY <3>1, <3>2, <3>3, LenProperties
  <2>4. \A h \in Calls : Carries(f, h) <=> h = g
    BY <2>1, <2>3, NoneIsNoFrame DEF Carries, C!ForwardFrame
  <2>5. ASSUME NEW h \in Calls PROVE Held(h)' <=> Held(h) \/ h = g
    <3>1. \A d \in Servers \ {c} : queue'[d] = queue[d]
      BY <1>1, <2>2
    <3>2. queue'[c] = Append(queue[c], f) /\ c \in Servers
      BY <1>1, <2>1, <2>2
    <3>3. Carried(Append(queue[c], f), h) <=> Carried(queue[c], h) \/ h = g
      BY <1>1, <2>3, <2>4, <3>2, CarriedAppend
    <3> QED
      BY <3>1, <3>2, <3>3 DEF Held
  <2>6. ASSUME NEW h \in Calls PROVE InTransit(h)' <=> InTransit(h) \/ h = g
    <3>1. InTransit(h)' <=> (Held(h) \/ \E l \in Legs, t \in Sessions : On(l, t, h))'
      BY DEF InTransit, Held, On, Legs
    <3> QED
      BY <1>2, <2>5, <3>1, TransitIs
  <2>7. /\ Unsent(g) /\ ~Unsent(g)' /\ received'[g] = <<>>
        /\ \A h \in Calls \ {g} : Unsent(h)' <=> Unsent(h)
    BY <1>1, <2>2 DEF Unsent, Paths, Arrived
  <2>8. fateBar[g] = "new" /\ fateBar'[g] = "travelling" /\ \A h \in Calls \ {g} : fateBar'[h] = fateBar[h]
    BY <2>6, <2>7, FateIs, FateWillBe DEF FatesSay
  <2>9. fateBar' = [fateBar EXCEPT ![g] = "travelling"]
    <3>1. fateBar = [h \in Calls |-> fateBar[h]] /\ fateBar' = [h \in Calls |-> fateBar'[h]]
      BY DEF fateBar
    <3> QED
      BY <2>8, <3>1
  <2>10. H!Submit(g)
    BY <2>8, <2>9 DEF H!Submit
  <2> QED
    BY <2>10 DEF H!Next
<1>4. CASE ~C!HasRoom(server[g])
  <2>1. UNCHANGED queue /\ status' = [status EXCEPT ![g] = "full"]
    BY <1>4 DEF C!PutForward, C!Becomes
  <2>2. \A h \in Calls : (Unsent(h)' <=> Unsent(h)) /\ (Held(h)' => Held(h))
    BY <1>1, <2>1 DEF Unsent, Held
  <2>3. Quiet
    BY <1>2, <2>2, NothingNew DEF OnlyOld
  <2> QED
    BY <2>3, QuietRefines
<1> QED
  BY <1>3, <1>4

\* The frame that is written was in the hands of its client.
LEMMA SendQuiet ==
  ASSUME StreamTypes, ClientFacts, NEW c \in Servers, ClientSends(c), cur[c] \in Sessions
  PROVE  Quiet
<1>0. PICK f, s : f = Head(batch[c]) /\ s = cur[c]
  OBVIOUS
<1>1. /\ batch \in [Servers -> Seq(C!QueueFrames)] /\ batch[c] # <<>>
      /\ status \in [Calls -> C!Statuses]
      /\ batch' = [batch EXCEPT ![c] = Tail(@)]
      /\ UNCHANGED <<queue, pending, mpsc, down, received>>
      /\ up' = up \/ up' = [up EXCEPT ![s] = Append(up[s], f)]
      /\ \/ status' = status
         \/ f.kind = "forward" /\ status' = [status EXCEPT ![f.payload] = "sent"]
  BY <1>0 DEF ClientSends, C!SendFront, ClientFacts, C!TypeOK, daemonVars
<1>2. f \in C!QueueFrames /\ f # None
  BY <1>0, <1>1, HeadTailProperties, NoneIsNoFrame
<1>3. ASSUME NEW h \in Calls, Carries(f, h) PROVE Held(h) /\ status[h] = "accepted"
  <2>1. Carried(batch[c], h)
    BY <1>0, <1>1, <1>3, CarriedTail
  <2> QED
    BY <2>1 DEF Held, ClientFacts
<1>4. ASSUME NEW h \in Calls PROVE Unsent(h)' <=> Unsent(h)
  <2>1. f.kind = "forward" /\ f.payload = h => Carries(f, h)
    BY <1>2 DEF Carries
  <2> QED
    BY <1>1, <1>3, <2>1 DEF Unsent
<1>5. ASSUME NEW h \in Calls, Held(h)' PROVE Held(h)
  <2>1. \A d \in Servers : Carried(batch'[d], h) => Carried(batch[d], h)
    BY <1>1, CarriedTail
  <2> QED
    BY <1>1, <1>5, <2>1 DEF Held
<1>6. ASSUME NEW h \in Calls, NEW k \in Legs, NEW r \in Sessions, On(k, r, h)' PROVE On(k, r, h) \/ Carries(f, h)
  <2>1. Carried(up'[r], h) => Carried(up[r], h) \/ Carries(f, h)
    <3>1. up[r] \in Seq(C!QueueFrames) /\ DOMAIN up = Sessions
      BY DEF StreamTypes
    <3>2. up'[r] = up[r] \/ up'[r] = Append(up[r], f)
      BY <1>1, <3>1
    <3> QED
      BY <1>2, <3>1, <3>2, CarriedAppend
  <2> QED
    BY <1>1, <1>6, <2>1 DEF On, Legs
<1>7. ASSUME NEW h \in Calls, InTransit(h)' PROVE InTransit(h)
  <2>1. InTransit(h)' <=> (Held(h) \/ \E l \in Legs, t \in Sessions : On(l, t, h))'
    BY DEF InTransit, Held, On, Legs
  <2> QED
    BY <1>3, <1>5, <1>6, <1>7, <2>1, TransitIs
<1> QED
  BY <1>1, <1>4, <1>7 DEF Quiet

\* The delivery callback.
LEMMA ArrivalRefines ==
  ASSUME Steady, Paths', ClientFacts', NEW c \in Servers, NEW s \in Sessions, NEW f, DeliveryAt(c, s, f),
         down' = Consume(s), received' = [received EXCEPT ![f.payload] = Append(@, c)],
         UNCHANGED <<daemonVars, cur, up, queue, batch, status>>
  PROVE  [H!Next]_H!vars
<1>1. /\ down[s] \in Seq(D!OutFrames) /\ down'[s] = Tail(down[s])
      /\ \A r \in Sessions \ {s} : down'[r] = down[r]
      /\ DOMAIN received = Calls
      /\ UNCHANGED <<pending, mpsc>>
  BY DaemonShape DEF Consume, daemonVars
<1>2. f \in D!OutFrames /\ f.payload \in Calls /\ f # None
  BY <1>1, HeadTailProperties, DownFrames DEF DeliveryAt
<1> DEFINE g == f.payload
<1>3. \A h \in Calls : Carries(f, h) <=> h = g
  BY <1>2 DEF DeliveryAt, Carries
<1>4. On("down", s, g)
  BY <1>1, <1>2, <1>3, CarriedTail DEF On, DeliveryAt
<1>5. /\ ~Unsent(g) /\ received[g] = <<>> /\ InTransit(g)
  <2>1. status[g] = "sent" /\ received[g] = <<>>
    BY <1>2, <1>4 DEF Steady, Paths, Travels, Legs
  <2> QED
    BY <1>2, <1>4, <2>1, TransitIs DEF Unsent, Legs
<1>6. /\ ~Unsent(g)' /\ received'[g] # <<>>
      /\ \A h \in Calls \ {g} : (Unsent(h)' <=> Unsent(h)) /\ received'[h] = received[h]
  BY <1>1, <1>2, <1>5 DEF Unsent
<1>7. ASSUME NEW h \in Calls, h # g PROVE InTransit(h)' <=> InTransit(h)
  <2>1. \A r \in Sessions : Carried(down'[r], h) <=> Carried(down[r], h)
    <3>1. Carried(down[s], h) <=> Carries(f, h) \/ Carried(Tail(down[s]), h)
      BY <1>1, CarriedTail DEF DeliveryAt
    <3>2. ~Carries(f, h)
      BY <1>3, <1>7
    <3> QED
      BY <1>1, <3>1, <3>2
  <2> QED
    BY <1>1, <2>1 DEF InTransit
<1>8. /\ fateBar[g] = "travelling" /\ fateBar'[g] = "delivered"
      /\ \A h \in Calls \ {g} : fateBar'[h] = fateBar[h]
  BY <1>2, <1>5, <1>6, <1>7, FateIs, FateWillBe DEF FatesSay, Steady
<1>9. fateBar' = [fateBar EXCEPT ![g] = "delivered"]
  <2>1. fateBar = [h \in Calls |-> fateBar[h]] /\ fateBar' = [h \in Calls |-> fateBar'[h]]
    BY DEF fateBar
  <2> QED
    BY <1>8, <2>1
<1>10. H!Deliver(g, c)
  BY <1>8, <1>9 DEF H!Deliver
<1> QED
  BY <1>2, <1>10 DEF H!Next

LEMMA StepRefines ==
  ASSUME Whole, Whole', [Next]_vars
  PROVE  [H!Next]_H!vars
<1> USE DEF clientVars, daemonVars
<1>1. /\ Paths /\ Paths' /\ StreamTypes /\ Connections
      /\ ClientFacts /\ ClientFacts' /\ DaemonFacts /\ C!TypeOK /\ D!DaemonTypeOK
  BY ClientKnows, ClientWillKnow, DaemonKnows DEF Whole, ClientFacts, DaemonFacts
<1>3. Steady
  BY SteadyNow
<1>4. Quiet => [H!Next]_H!vars
  BY <1>1, QuietRefines
<1>5. CASE ClientOnly
  <2>1. UNCHANGED <<stage, uuid, peer, pending, goal, mpsc, cur, up, down, received>>
    BY <1>5 DEF ClientOnly
  <2>2. OnlyOld
    BY <1>3, <2>1, StillStays
  <2>3. ASSUME NEW h \in Calls, C!SendEnqueue(h) PROVE [H!Next]_H!vars
    <3>1. /\ status[h] \in {"pending", "answered"} /\ server[h] \in Servers /\ C!PutForward(h)
          /\ UNCHANGED <<batch, dest, up, pending, mpsc, down, received>>
      BY <1>1, <2>1, <2>3 DEF C!SendEnqueue, C!sessionVars, ClientFacts
    <3> QED
      BY <1>1, <3>1, PutRefines
  <2>4. ASSUME NEW c \in Servers, C!CallbackSends(c) PROVE [H!Next]_H!vars
    <3>1. PICK h \in Calls : h = running[c]
      BY <1>1, <2>4 DEF C!CallbackSends, ClientFacts
    <3>2. /\ status[h] \in {"pending", "answered"} /\ server[h] \in Servers /\ C!PutForward(h)
          /\ UNCHANGED <<batch, dest, up, pending, mpsc, down, received>>
      BY <1>1, <2>1, <2>4, <3>1 DEF C!CallbackSends, ClientFacts
    <3> QED
      BY <1>1, <3>2, PutRefines
  <2>5. ASSUME \/ \E g \in Calls : C!Engine(g) /\ ~C!SendEnqueue(g)
               \/ \E c \in Servers : C!Session(c) /\ ~C!CallbackSends(c) /\ ~C!SendFront(c)
        PROVE  [H!Next]_H!vars
    <3>1. \A h \in Calls : (Unsent(h)' <=> Unsent(h)) /\ (Held(h)' => Held(h))
      BY <1>1, <2>5, ClientQuiet
    <3>2. Quiet
      BY <2>1, <2>2, <3>1, NothingNew
    <3> QED
      BY <1>4, <3>2
  <2>6. ASSUME NEW c \in Servers,
               C!AutoClaim(c) \/ C!ClaimsDone(c) \/ C!Drain(c) \/ C!BatchDone(c) \/ C!RecvIdle(c)
        PROVE  C!Session(c) /\ ~C!SendFront(c)
    <3>1. phase[c] # "send" \/ batch[c] = <<>>
      BY <2>6 DEF C!AutoClaim, C!ClaimsDone, C!Drain, C!BatchDone, C!RecvIdle
    <3> QED
      BY <2>6, <3>1 DEF C!Session, C!SendFront
  <2> QED
    BY <1>5, <2>3, <2>4, <2>5, <2>6 DEF ClientOnly
<1>6. ASSUME UNCHANGED <<queue, batch, status, received>>, OnlyOld PROVE [H!Next]_H!vars
  BY <1>4, <1>6, DaemonQuiet
<1>7. ASSUME NEW s \in Sessions, UNCHANGED <<clientVars, cur, up, down, received>>,
             \/ D!UpsertExisting(s) \/ D!UpsertMissing(s) \/ D!HelloRejected(s)
             \/ \E p \in PeerIds : D!UpsertInsert(s, p)
             \/ D!Register(s) \/ D!SendReply(s) \/ D!ForwardDeliver(s) \/ D!ForwardFailed(s)
             \/ D!ReaderEof(s) \/ D!ReaderError(s) \/ D!Cleanup(s) \/ D!ConnectionLost(s)
             \/ D!WriterFails(s) \/ D!WriterEnds(s) \/ D!Close(s)
      PROVE  [H!Next]_H!vars
  <2>1. UNCHANGED <<cur, up, down, received>> /\ UNCHANGED <<queue, batch, status, received>>
    BY <1>7
  <2>2. OnlyOld
    BY <1>3, <1>7, <2>1, DaemonAloneStays, ReplyStays, DeliverStays
  <2> QED
    BY <1>6, <2>1, <2>2
<1>8. CASE DaemonOnly
  BY <1>7, <1>8 DEF DaemonOnly
<1>9. ASSUME NEW s \in Sessions, SessionFault(s) PROVE [H!Next]_H!vars
  BY <1>7, <1>9 DEF SessionFault
<1>10. ASSUME NEW s \in Sessions, DaemonReads(s) PROVE [H!Next]_H!vars
  <2> DEFINE f == Head(up[s])
  <2>1. UNCHANGED <<queue, batch, status, received>>
    BY <1>10 DEF DaemonReads
  <2>2. CASE f.kind = "forward" /\ D!ForwardLookup(s, f.to, f.payload)
    <3>1. PICK g : g = Head(up[s])
      OBVIOUS
    <3>2. OnlyOld
      BY <1>3, <1>10, <2>2, <3>1, LookupStays DEF DaemonReads
    <3> QED
      BY <1>6, <2>1, <3>2
  <2>3. CASE \/ f.kind = "claim" /\ D!ClaimSector(s, f.sector)
             \/ f.kind = "resolve" /\ D!ResolveSector(s, f.sector)
             \/ f.kind = "forward" /\ D!ForwardRefused(s, f.to, f.payload)
    <3>1. \E g : (\A h : ~Carries(g, h)) /\ D!Answer(s, g)
      BY <2>3, AnswersAreEmpty DEF D!ClaimSector, D!ResolveSector, D!ForwardRefused
    <3>2. stage[s] = "read" /\ UNCHANGED <<uuid, peer, mpsc>>
      BY <2>3 DEF D!ClaimSector, D!ResolveSector, D!ForwardRefused
    <3>3. OnlyOld
      BY <1>3, <1>10, <3>1, <3>2, AnsweredStays DEF DaemonReads
    <3> QED
      BY <1>6, <2>1, <3>3
  <2> QED
    BY <1>10, <2>2, <2>3 DEF DaemonReads
<1>11. ASSUME NEW s \in Sessions, DaemonWrites(s) PROVE [H!Next]_H!vars
  BY <1>3, <1>6, <1>11, WriteStays DEF DaemonWrites
<1>12. ASSUME NEW c \in Servers, NEW s \in Sessions, Connect(c, s) PROVE [H!Next]_H!vars
  <2>1. UNCHANGED <<queue, batch, status, received>>
    BY <1>12 DEF Connect, C!Connect, C!callVars
  <2> QED
    BY <1>3, <1>6, <1>12, <2>1, ConnectStays
<1>13. ASSUME NEW c \in Servers, Disconnect(c) PROVE [H!Next]_H!vars
  <2>1. C!Session(c) /\ ~C!CallbackSends(c) /\ ~C!SendFront(c)
    <3>1. C!SessionEnds(c) /\ DOMAIN phase = Servers
      BY <1>1, <1>13 DEF Disconnect, C!TypeOK
    <3>2. phase[c] \in {"hello", "send", "recv"} /\ phase'[c] = "down"
      BY <3>1 DEF C!SessionEnds
    <3> QED
      BY <3>1, <3>2 DEF C!Session, C!CallbackSends, C!SendFront
  <2>2. \A h \in Calls : (Unsent(h)' <=> Unsent(h)) /\ (Held(h)' => Held(h))
    BY <1>1, <2>1, ClientQuiet
  <2>3. OnlyOld /\ UNCHANGED received
    BY <1>3, <1>13, DisconnectStays DEF Disconnect
  <2> QED
    BY <1>4, <2>2, <2>3, NothingNew
<1>14. ASSUME NEW c \in Servers, ClientSends(c) PROVE [H!Next]_H!vars
  <2>1. cur[c] \in Sessions
    BY <1>1, <1>14 DEF ClientSends, C!SendFront, StreamTypes, Connections
  <2> QED
    BY <1>1, <1>4, <1>14, <2>1, SendQuiet
<1>15. ASSUME NEW c \in Servers, ClientReadsAck(c) PROVE [H!Next]_H!vars
  <2>1. cur[c] \in Sessions /\ UNCHANGED <<queue, batch, status, received>>
    BY <1>1, <1>15 DEF ClientReadsAck, C!ReceiveAck, C!callVars, StreamTypes, Connections
  <2> QED
    BY <1>3, <1>6, <1>15, <2>1, ConsumedStays DEF ClientReadsAck, Consume
<1>16. ASSUME NEW c \in Servers, ClientReads(c) PROVE [H!Next]_H!vars
  <2>1. PICK s, f : ReadsOf(c, s, f)
    BY <1>1, <1>16, Reading
  <2>2. /\ c \in Servers /\ s \in Sessions /\ s = cur[c] /\ f = Head(down[s]) /\ down[s] # <<>>
        /\ down' = Consume(s) /\ UNCHANGED <<daemonVars, cur, up>> /\ phase[c] = "recv"
    BY <1>16, <2>1, Zenon DEF ReadsOf
  <2>3. CASE /\ f.kind = "delivery" /\ C!ReceiveOther(c)
             /\ received' = [received EXCEPT ![f.payload] = Append(@, c)]
    <3>1. DeliveryAt(c, s, f)
      BY <2>2, <2>3 DEF DeliveryAt
    <3>2. UNCHANGED <<queue, batch, status>>
      BY <2>3 DEF C!ReceiveOther, C!callVars
    <3>3. UNCHANGED <<daemonVars, cur, up, queue, batch, status>>
      BY <2>2, <3>2
    <3> QED
      BY <1>1, <1>3, <2>2, <2>3, <3>1, <3>3, ArrivalRefines
  <2>4. CASE UNCHANGED received
    <3>1. C!ReceiveOther(c) \/ \E k \in Sectors, p \in PeerIds \union {None} : C!ReceiveReply(c, k, p)
      BY <2>1, Zenon DEF ReadsOf
    <3>2. C!Session(c) /\ ~C!CallbackSends(c) /\ ~C!SendFront(c)
      BY <2>2, <3>1 DEF C!Session, C!CallbackSends, C!SendFront
    <3>3. \A h \in Calls : (Unsent(h)' <=> Unsent(h)) /\ (Held(h)' => Held(h))
      BY <1>1, <2>2, <3>2, ClientQuiet
    <3>4. OnlyOld
      BY <1>3, <2>2, <2>4, ConsumedStays
    <3> QED
      BY <1>4, <2>4, <3>3, <3>4, NothingNew
  <2> QED
    BY <2>1, <2>3, <2>4, Zenon DEF ReadsOf
<1>17. CASE DaemonRestarts
  BY <1>3, <1>6, <1>17, RestartStays DEF DaemonRestarts
<1>18. CASE UNCHANGED vars
  <2>1. /\ UNCHANGED <<queue, batch, status, received>>
        /\ UNCHANGED <<stage, uuid, peer, pending, goal, mpsc, cur, up, down, received>>
    BY <1>18 DEF vars
  <2>2. OnlyOld
    BY <1>3, <2>1, StillStays
  <2> QED
    BY <1>6, <2>1, <2>2
<1> QED
  BY <1>5, <1>8, <1>9, <1>10, <1>11, <1>12, <1>13, <1>14, <1>15, <1>16, <1>17, <1>18 DEF Next

\* The federation implements Handoff: a payload SendTo has accepted is handed to
\* at most one delivery callback and at most once, whatever connections and
\* processes die on the way; once it is gone it does not come back.
THEOREM Implements == Spec => ImplementsHandoff
<1>1. Init => H!Init
  <2> SUFFICES ASSUME Init PROVE H!Init
    OBVIOUS
  <2>1. /\ received = [h \in Calls |-> <<>>] /\ \A h \in Calls : Unsent(h)
    BY DEF Init, C!Init, Unsent
  <2>2. ClientFacts /\ Paths
    BY WholeInit, ClientKnows DEF Whole
  <2>3. \A h \in Calls : fateBar[h] = "new"
    BY <2>1, <2>2, FateIs DEF FatesSay
  <2>4. fateBar = [h \in Calls |-> fateBar[h]]
    BY DEF fateBar
  <2> QED
    BY <2>1, <2>3, <2>4 DEF H!Init
<1>2. Whole /\ Whole' /\ [Next]_vars => [H!Next]_H!vars
  BY StepRefines
<1> QED
  BY <1>1, <1>2, WholeHolds, PTL DEF Spec, ImplementsHandoff, H!Spec

-----------------------------------------------------------------------------
(* Questions and answers.                                                   *)

Count(q, F) == Cardinality({i \in 1..Len(q) : q[i] \in F})

LEMMA CountNone == \A F : Count(<<>>, F) = 0
<1>1. \A F : {i \in 1..Len(<<>>) : <<>>[i] \in F} = {}
  OBVIOUS
<1> QED
  BY <1>1, FS_EmptySet DEF Count

LEMMA CountType ==
  ASSUME NEW S, NEW q \in Seq(S), NEW F
  PROVE  /\ IsFiniteSet({i \in 1..Len(q) : q[i] \in F}) /\ Count(q, F) \in Nat
         /\ Count(q, F) = 0 => \A i \in 1..Len(q) : q[i] \notin F
<1>1. Len(q) \in Nat
  BY LenProperties
<1>2. IsFiniteSet(1..Len(q))
  BY <1>1, FS_Interval
<1>3. {i \in 1..Len(q) : q[i] \in F} \in SUBSET (1..Len(q))
  OBVIOUS
<1>4. IsFiniteSet({i \in 1..Len(q) : q[i] \in F})
  BY <1>2, <1>3, FS_Subset
<1> QED
  BY <1>4, FS_CardinalityType, FS_EmptySet DEF Count

LEMMA CountAppend ==
  ASSUME NEW S, NEW q \in Seq(S), NEW f \in S, NEW F
  PROVE  Count(Append(q, f), F) = IF f \in F THEN Count(q, F) + 1 ELSE Count(q, F)
<1>1. /\ Len(q) \in Nat /\ Len(Append(q, f)) = Len(q) + 1
      /\ \A i \in 1..Len(q) : Append(q, f)[i] = q[i]
      /\ Append(q, f)[Len(q) + 1] = f
  BY AppendProperties, LenProperties
<1> DEFINE A == {i \in 1..Len(q) : q[i] \in F}
           B == {i \in 1..Len(Append(q, f)) : Append(q, f)[i] \in F}
           n == Len(q) + 1
<1>2. IsFiniteSet(A)
  BY CountType
<1>3. n \notin A /\ B = (IF f \in F THEN A \union {n} ELSE A)
  BY <1>1
<1>4. Cardinality(B) = IF f \in F THEN Cardinality(A) + 1 ELSE Cardinality(A)
  <2> HIDE DEF A, B, n
  <2> QED
    BY <1>2, <1>3, FS_AddElement
<1> QED
  BY <1>4 DEF Count

LEMMA CountTail ==
  ASSUME NEW S, NEW q \in Seq(S), q # <<>>, NEW F
  PROVE  Count(q, F) = IF Head(q) \in F THEN Count(Tail(q), F) + 1 ELSE Count(Tail(q), F)
<1>1. /\ Len(q) \in Nat /\ Len(q) > 0 /\ Head(q) = q[1] /\ Len(Tail(q)) = Len(q) - 1
      /\ \A i \in 1..(Len(q) - 1) : Tail(q)[i] = q[i + 1]
      /\ Tail(q) \in Seq(S)
  BY EmptySeq, HeadTailProperties
<1> DEFINE A == {i \in 1..Len(Tail(q)) : Tail(q)[i] \in F}
           B == {i \in 1..Len(q) : q[i] \in F}
           R == B \ {1}
           m == [i \in A |-> i + 1]
<1>2. IsFiniteSet(A) /\ IsFiniteSet(B)
  BY <1>1, CountType
<1>3. 1 \in B <=> Head(q) \in F
  BY <1>1
<1>4. m \in Bijection(A, R)
  <2>1. \A i \in A : i \in Int /\ i + 1 \in R
    BY <1>1
  <2>2. m \in [A -> R]
    BY <2>1
  <2>3. \A i, j \in A : m[i] = m[j] => i = j
    BY <2>1
  <2>4. ASSUME NEW j \in R PROVE \E i \in A : m[i] = j
    <3>1. j \in Int /\ j - 1 \in 1..Len(Tail(q)) /\ Tail(q)[j - 1] = q[j]
      BY <1>1
    <3>2. j - 1 \in A /\ (j - 1) + 1 = j
      BY <3>1
    <3> HIDE DEF A
    <3>3. m[j - 1] = j
      BY <3>2
    <3> QED
      BY <3>2, <3>3
  <2> HIDE DEF A, R, m
  <2> QED
    BY <2>2, <2>3, <2>4, Fun_IsBij
<1>5. Cardinality(R) = Cardinality(A)
  <2>1. ExistsBijection(A, R)
    BY <1>4 DEF ExistsBijection
  <2> HIDE DEF A, R
  <2> QED
    BY <1>2, <2>1, FS_Bijection
<1>6. Cardinality(R) = IF 1 \in B THEN Cardinality(B) - 1 ELSE Cardinality(B)
  <2> HIDE DEF B
  <2> QED
    BY <1>2, FS_RemoveElement
<1>7. Cardinality(A) \in Nat /\ Cardinality(B) \in Nat
  BY <1>2, FS_CardinalityType
<1> HIDE DEF A, B, R
<1>8. Cardinality(B) = IF Head(q) \in F THEN Cardinality(A) + 1 ELSE Cardinality(A)
  BY <1>3, <1>5, <1>6, <1>7
<1> QED
  BY <1>8 DEF Count, A, B

\* What asks about sector k, and what answers.
Questions(k) == {f \in C!QueueFrames : f.kind = "resolve" /\ f.sector = k}
Answers(k) == {f \in D!OutFrames : f.kind \in {"sector_resolved", "sector_unknown"} /\ f.sector = k}

AtHand(s, k) == IF pending[s] \in Answers(k) THEN 1 ELSE 0

\* The answers about k that connection s may still bring.
Owed(s, k) ==
  Count(up[s], Questions(k)) + AtHand(s, k) + Count(mpsc[s], Answers(k)) + Count(down[s], Answers(k))

\* No more than its client has asked for.
Ledger == \A c \in Servers, s \in Sessions, k \in Sectors : cur[c] = s => Owed(s, k) <= asked[c][k]

LEMMA OwedIs ==
  ASSUME StreamTypes, D!DaemonTypeOK, NEW s \in Sessions, NEW k
  PROVE  /\ Count(up[s], Questions(k)) \in Nat /\ AtHand(s, k) \in Nat
         /\ Count(mpsc[s], Answers(k)) \in Nat /\ Count(down[s], Answers(k)) \in Nat
<1>1. up[s] \in Seq(C!QueueFrames) /\ mpsc[s] \in Seq(D!OutFrames) /\ down[s] \in Seq(D!OutFrames)
  BY DEF StreamTypes, D!DaemonTypeOK
<1>2. AtHand(s, k) \in Nat
  BY DEF AtHand
<1> QED
  BY <1>1, <1>2, CountType

\* The daemon's other frames answer nothing.
LEMMA NoAnswers ==
  ASSUME NEW k
  PROVE  /\ None \notin Answers(k) /\ D!HelloAck \notin Answers(k)
         /\ \A j : D!SectorClaimed(j) \notin Answers(k)
         /\ \A p, d : D!Delivery(p, d) \notin Answers(k)
         /\ \A p, r : D!ForwardError(p, r) \notin Answers(k)
         /\ \A p, j : D!SectorReply(j, p) \in Answers(k) => j = k
BY NoneIsNoFrame DEF Answers, D!HelloAck, D!SectorClaimed, D!Delivery, D!ForwardError, D!SectorReply

\* What each part of the way owes after a step.
Cheaper == \A s \in Sessions, k \in Sectors : Owed(s, k)' <= Owed(s, k)

LEMMA CheaperParts ==
  ASSUME StreamTypes, StreamTypes', D!DaemonTypeOK, D!DaemonTypeOK',
         \A s \in Sessions, k \in Sectors :
           /\ Count(up'[s], Questions(k)) + AtHand(s, k)' <= Count(up[s], Questions(k)) + AtHand(s, k)
           /\ Count(mpsc'[s], Answers(k)) <= Count(mpsc[s], Answers(k))
           /\ Count(down'[s], Answers(k)) <= Count(down[s], Answers(k))
  PROVE  Cheaper
<1> SUFFICES ASSUME NEW s \in Sessions, NEW k \in Sectors PROVE Owed(s, k)' <= Owed(s, k)
  BY DEF Cheaper
<1>1. /\ Count(up[s], Questions(k)) \in Nat /\ AtHand(s, k) \in Nat
      /\ Count(mpsc[s], Answers(k)) \in Nat /\ Count(down[s], Answers(k)) \in Nat
  BY OwedIs
<1>2. /\ Count(up'[s], Questions(k)) \in Nat /\ AtHand(s, k)' \in Nat
      /\ Count(mpsc'[s], Answers(k)) \in Nat /\ Count(down'[s], Answers(k)) \in Nat
  <2>1. up'[s] \in Seq(C!QueueFrames) /\ mpsc'[s] \in Seq(D!OutFrames) /\ down'[s] \in Seq(D!OutFrames)
    BY DEF StreamTypes, D!DaemonTypeOK
  <2>2. AtHand(s, k)' \in Nat
    BY DEF AtHand
  <2> QED
    BY <2>1, <2>2, CountType
<1> QED
  BY <1>1, <1>2 DEF Owed

\* A step of the daemon's own, or of the network.
LEMMA DaemonCheaper ==
  ASSUME Steady, StreamTypes', D!DaemonTypeOK', NEW s \in Sessions, UNCHANGED <<up, down>>,
         \/ D!UpsertExisting(s) \/ D!UpsertMissing(s) \/ \E p \in PeerIds : D!UpsertInsert(s, p)
         \/ D!HelloRejected(s) \/ D!ConnectionLost(s) \/ D!Register(s)
         \/ D!SendReply(s) \/ D!ForwardDeliver(s) \/ D!ForwardFailed(s)
         \/ D!ReaderEof(s) \/ D!ReaderError(s) \/ D!Cleanup(s)
         \/ D!WriterFails(s) \/ D!WriterEnds(s) \/ D!Close(s)
  PROVE  Cheaper
<1>1. /\ DOMAIN mpsc = Sessions /\ DOMAIN pending = Sessions /\ mpsc \in [Sessions -> Seq(D!OutFrames)]
      /\ D!DaemonTypeOK /\ StreamTypes
  BY DaemonShape DEF Steady, DaemonFacts
<1>2. CASE D!SendReply(s)
  <2>1. pending[s] \in D!OutFrames /\ mpsc[s] \in Seq(D!OutFrames)
    BY <1>1, <1>2 DEF D!SendReply, Steady, DaemonFacts
  <2>2. /\ pending' = [pending EXCEPT ![s] = None]
        /\ mpsc' = mpsc \/ mpsc' = [mpsc EXCEPT ![s] = Append(mpsc[s], pending[s])]
    <3>1. mpsc = [r \in Sessions |-> mpsc[r]]
      BY <1>1
    <3> QED
      BY <1>1, <1>2, <3>1 DEF D!SendReply
  <2>3. ASSUME NEW r \in Sessions, NEW k \in Sectors
        PROVE  /\ Owed(r, k)' <= Owed(r, k)
    <3>1. /\ Count(up[r], Questions(k)) \in Nat /\ AtHand(r, k) \in Nat
          /\ Count(mpsc[r], Answers(k)) \in Nat /\ Count(down[r], Answers(k)) \in Nat
      BY <1>1, OwedIs
    <3>2. AtHand(r, k)' = IF r = s THEN 0 ELSE AtHand(r, k)
      BY <1>1, <2>2, NoAnswers DEF AtHand
    <3>3. Count(Append(mpsc[s], pending[s]), Answers(k)) = Count(mpsc[s], Answers(k)) + AtHand(s, k)
      <4>1. Count(mpsc[s], Answers(k)) \in Nat
        BY <1>1, OwedIs
      <4> QED
        BY <2>1, <4>1, CountAppend DEF AtHand
    <3>4. Count(mpsc'[r], Answers(k)) <= Count(mpsc[r], Answers(k)) + (IF r = s THEN AtHand(r, k) ELSE 0)
      <4>1. CASE mpsc' = mpsc
        BY <3>1, <4>1
      <4>2. CASE mpsc' = [mpsc EXCEPT ![s] = Append(mpsc[s], pending[s])] /\ r = s
        BY <1>1, <3>1, <3>3, <4>2
      <4>3. CASE mpsc' = [mpsc EXCEPT ![s] = Append(mpsc[s], pending[s])] /\ r # s
        BY <1>1, <3>1, <4>3
      <4> QED
        BY <2>2, <4>1, <4>2, <4>3
    <3>5. Count(mpsc'[r], Answers(k)) \in Nat
      <4>1. mpsc'[r] \in Seq(D!OutFrames)
        BY DEF D!DaemonTypeOK
      <4> QED
        BY <4>1, CountType
    <3>6. Owed(r, k)' = Count(up[r], Questions(k)) + AtHand(r, k)' + Count(mpsc'[r], Answers(k))
                        + Count(down[r], Answers(k))
      BY DEF Owed
    <3> QED
      BY <3>1, <3>2, <3>4, <3>5, <3>6 DEF Owed
  <2> QED
    BY <2>3 DEF Cheaper
<1>3. CASE D!ForwardDeliver(s)
  <2>1. PICK t \in Sessions, f \in D!OutFrames : t = target[s] /\ f = pending[s] /\ f.kind = "delivery"
    BY <1>3 DEF D!ForwardDeliver, Steady, DaemonFacts
  <2>2. /\ pending' = [pending EXCEPT ![s] = None] /\ mpsc' = [mpsc EXCEPT ![t] = Append(mpsc[t], f)]
    BY <1>1, <1>3, <2>1 DEF D!ForwardDeliver
  <2>3. ASSUME NEW r \in Sessions, NEW k \in Sectors
        PROVE  /\ AtHand(r, k)' <= AtHand(r, k)
               /\ Count(mpsc'[r], Answers(k)) <= Count(mpsc[r], Answers(k))
    <3>1. f \notin Answers(k)
      BY <2>1 DEF Answers
    <3>2. Count(Append(mpsc[t], f), Answers(k)) = Count(mpsc[t], Answers(k))
      BY <1>1, <2>1, <3>1, CountAppend
    <3>3. Count(mpsc[r], Answers(k)) \in Nat /\ Count(mpsc[t], Answers(k)) \in Nat
      BY <1>1, OwedIs
    <3> QED
      BY <1>1, <2>2, <3>2, <3>3, NoAnswers DEF AtHand
  <2>4. \A r \in Sessions, k \in Sectors :
          /\ Count(up[r], Questions(k)) \in Nat /\ AtHand(r, k) \in Nat
          /\ Count(down[r], Answers(k)) \in Nat
    BY <1>1, OwedIs
  <2>5. \A r \in Sessions, k \in Sectors : AtHand(r, k)' \in Nat
    BY DEF AtHand
  <2> QED
    BY <1>1, <2>3, <2>4, <2>5, CheaperParts, SMTT(60)
<1>4. CASE ~D!SendReply(s) /\ ~D!ForwardDeliver(s)
  <2>1. ASSUME NEW r \in Sessions, NEW k \in Sectors
        PROVE  /\ mpsc'[r] = mpsc[r] \/ mpsc'[r] = <<>>
               /\ pending'[r] = pending[r] \/ pending'[r] \notin Answers(k)
    <3> USE <1>1 DEF D!task, D!db
    <3>1. CASE \/ D!UpsertExisting(s) \/ D!UpsertMissing(s) \/ \E p \in PeerIds : D!UpsertInsert(s, p)
               \/ D!HelloRejected(s) \/ D!ConnectionLost(s)
      BY <3>1 DEF D!UpsertExisting, D!UpsertMissing, D!UpsertInsert, D!HelloRejected, D!ConnectionLost
    <3>2. CASE D!Register(s)
      BY <3>2, NoAnswers DEF D!Register
    <3>3. CASE D!ForwardFailed(s)
      <4>1. PICK why : pending' = [pending EXCEPT ![s] = D!ForwardError(goal[s], why)] /\ UNCHANGED mpsc
        BY <3>3 DEF D!ForwardFailed
      <4>2. D!ForwardError(goal[s], why) \notin Answers(k)
        BY NoAnswers
      <4> QED
        BY <4>1, <4>2
    <3>4. CASE D!ReaderEof(s) \/ D!ReaderError(s) \/ D!Cleanup(s)
      BY <3>4 DEF D!ReaderEof, D!ReaderError, D!Cleanup
    <3>5. CASE D!WriterFails(s) \/ D!WriterEnds(s) \/ D!Close(s)
      BY <3>5 DEF D!WriterFails, D!WriterEnds, D!Close
    <3> QED
      BY <1>4, <3>1, <3>2, <3>3, <3>4, <3>5
  <2>2. \A r \in Sessions, k \in Sectors :
          /\ Count(up[r], Questions(k)) \in Nat /\ AtHand(r, k) \in Nat /\ AtHand(r, k)' \in Nat
          /\ Count(mpsc[r], Answers(k)) \in Nat /\ Count(down[r], Answers(k)) \in Nat
    BY <1>1, OwedIs DEF AtHand
  <2>3. ASSUME NEW r \in Sessions, NEW k \in Sectors
        PROVE  /\ AtHand(r, k)' <= AtHand(r, k)
               /\ Count(mpsc'[r], Answers(k)) <= Count(mpsc[r], Answers(k))
    <3>1. AtHand(r, k)' <= AtHand(r, k)
      BY <2>1, <2>2 DEF AtHand
    <3>2. Count(mpsc'[r], Answers(k)) <= Count(mpsc[r], Answers(k))
      BY <2>1, <2>2, CountNone
    <3> QED
      BY <3>1, <3>2
  <2> QED
    BY <1>1, <2>2, <2>3, CheaperParts, SMTT(60)
<1> QED
  BY <1>2, <1>3, <1>4

\* The daemon reads a question and has its answer at hand, or reads something else.
LEMMA ReadCheaper ==
  ASSUME Steady, StreamTypes', D!DaemonTypeOK', NEW s \in Sessions, DaemonReads(s)
  PROVE  Cheaper
<1>1. /\ DOMAIN up = Sessions /\ DOMAIN pending = Sessions /\ up[s] \in Seq(C!QueueFrames)
      /\ D!DaemonTypeOK /\ StreamTypes /\ up[s] # <<>> /\ stage[s] = "read"
  BY DaemonShape DEF Steady, DaemonFacts, DaemonReads, D!ClaimSector, D!ResolveSector,
     D!ForwardRefused, D!ForwardLookup
<1>2. PICK f : f = Head(up[s])
  OBVIOUS
<1>3. f \in C!QueueFrames
  BY <1>1, <1>2, HeadTailProperties
<1>4. pending[s] = None
  BY <1>1 DEF Steady, Connections
<1>5. PICK g : /\ pending' = [pending EXCEPT ![s] = g]
               /\ \/ \A k : g \notin Answers(k)
                  \/ /\ f.kind = "resolve"
                     /\ \A k : g \in Answers(k) => f.sector = k
  <2>1. CASE f.kind = "claim" /\ D!ClaimSector(s, f.sector)
    BY <2>1, NoAnswers DEF D!ClaimSector, D!Answer
  <2>2. CASE f.kind = "resolve" /\ D!ResolveSector(s, f.sector)
    <3>1. pending' = [pending EXCEPT ![s] = D!SectorReply(f.sector, sectors[f.sector])]
      BY <2>2 DEF D!ResolveSector, D!Answer
    <3>2. \A k : D!SectorReply(f.sector, sectors[f.sector]) \in Answers(k) => f.sector = k
      BY NoAnswers
    <3> QED
      BY <2>2, <3>1, <3>2
  <2>3. CASE D!ForwardRefused(s, f.to, f.payload) \/ D!ForwardLookup(s, f.to, f.payload)
    BY <2>3, NoAnswers DEF D!ForwardRefused, D!ForwardLookup, D!Answer
  <2> QED
    BY <1>2, <2>1, <2>2, <2>3 DEF DaemonReads
<1>6. up' = [up EXCEPT ![s] = Tail(up[s])] /\ UNCHANGED <<mpsc, down>>
  BY DEF DaemonReads, D!ClaimSector, D!ResolveSector, D!ForwardRefused, D!ForwardLookup
<1>7. ASSUME NEW r \in Sessions, NEW k \in Sectors
      PROVE  Count(up'[r], Questions(k)) + AtHand(r, k)' <= Count(up[r], Questions(k)) + AtHand(r, k)
  <2>1. /\ Count(up[r], Questions(k)) \in Nat /\ AtHand(r, k) \in Nat
    BY <1>1, OwedIs
  <2>2. CASE r # s
    BY <1>1, <1>5, <1>6, <2>1, <2>2 DEF AtHand
  <2>3. CASE r = s
    <3>1. Tail(up[s]) \in Seq(C!QueueFrames)
      BY <1>1, HeadTailProperties
    <3>2. Count(Tail(up[s]), Questions(k)) \in Nat
      BY <3>1, CountType
    <3>3. Count(up[s], Questions(k)) = Count(Tail(up[s]), Questions(k)) + (IF f \in Questions(k) THEN 1 ELSE 0)
      BY <1>1, <1>2, <3>2, CountTail
    <3>4. AtHand(s, k) = 0 /\ AtHand(s, k)' = IF g \in Answers(k) THEN 1 ELSE 0
      BY <1>1, <1>4, <1>5, NoAnswers DEF AtHand
    <3>5. g \in Answers(k) => f \in Questions(k)
      BY <1>3, <1>5 DEF Questions
    <3>6. up'[s] = Tail(up[s])
      BY <1>1, <1>6
    <3> QED
      BY <2>3, <3>2, <3>3, <3>4, <3>5, <3>6
  <2> QED
    BY <2>2, <2>3
<1>8. \A r \in Sessions, k \in Sectors :
        Count(mpsc[r], Answers(k)) \in Nat /\ Count(down[r], Answers(k)) \in Nat
  BY <1>1, OwedIs
<1> QED
  BY <1>1, <1>6, <1>7, <1>8, CheaperParts

\* The daemon writes a frame.
LEMMA WriteCheaper ==
  ASSUME Steady, StreamTypes', D!DaemonTypeOK', NEW s \in Sessions, DaemonWrites(s)
  PROVE  Cheaper
<1>1. /\ DOMAIN mpsc = Sessions /\ DOMAIN down = Sessions
      /\ mpsc[s] \in Seq(D!OutFrames) /\ down[s] \in Seq(D!OutFrames) /\ mpsc[s] # <<>>
      /\ D!DaemonTypeOK /\ StreamTypes
  BY DaemonShape DEF Steady, DaemonFacts, DaemonWrites, D!WriteFrame
<1>2. PICK f : f = Head(mpsc[s])
  OBVIOUS
<1>3. f \in D!OutFrames
  BY <1>1, <1>2, HeadTailProperties
<1>4. /\ mpsc' = [mpsc EXCEPT ![s] = Tail(mpsc[s])]
      /\ down' = down \/ down' = [down EXCEPT ![s] = Append(down[s], f)]
      /\ UNCHANGED <<up, pending>>
  BY <1>2 DEF DaemonWrites, D!WriteFrame, D!task
<1>5. ASSUME NEW r \in Sessions, NEW k \in Sectors PROVE Owed(r, k)' <= Owed(r, k)
  <2>1. /\ Count(up[r], Questions(k)) \in Nat /\ AtHand(r, k) \in Nat
        /\ Count(mpsc[r], Answers(k)) \in Nat /\ Count(down[r], Answers(k)) \in Nat
    BY <1>1, OwedIs
  <2>2. CASE r # s
    <3>1. mpsc'[r] = mpsc[r] /\ down'[r] = down[r]
      BY <1>1, <1>4, <2>2
    <3> QED
      BY <1>4, <2>1, <3>1 DEF Owed, AtHand
  <2>3. CASE r = s
    <3>1. Tail(mpsc[s]) \in Seq(D!OutFrames)
      BY <1>1, HeadTailProperties
    <3>2. Count(Tail(mpsc[s]), Answers(k)) \in Nat
      BY <3>1, CountType
    <3>3. Count(mpsc[s], Answers(k)) = Count(Tail(mpsc[s]), Answers(k)) + (IF f \in Answers(k) THEN 1 ELSE 0)
      BY <1>1, <1>2, <3>2, CountTail
    <3>4. Count(Append(down[s], f), Answers(k)) = Count(down[s], Answers(k)) + (IF f \in Answers(k) THEN 1 ELSE 0)
      BY <1>1, <1>3, <2>1, <2>3, CountAppend
    <3>5. mpsc'[s] = Tail(mpsc[s]) /\ (down'[s] = down[s] \/ down'[s] = Append(down[s], f))
      BY <1>1, <1>4
    <3>6. Owed(s, k)' = Count(up[s], Questions(k)) + AtHand(s, k) + Count(mpsc'[s], Answers(k))
                        + Count(down'[s], Answers(k))
      BY <1>4 DEF Owed, AtHand
    <3>7. Count(down'[s], Answers(k)) <= Count(down[s], Answers(k)) + (IF f \in Answers(k) THEN 1 ELSE 0)
      <4>1. CASE down'[s] = down[s]
        BY <2>1, <2>3, <4>1
      <4>2. CASE down'[s] = Append(down[s], f)
        BY <2>1, <2>3, <3>4, <4>2
      <4> QED
        BY <3>5, <4>1, <4>2
    <3>8. Count(down'[s], Answers(k)) \in Nat
      <4>1. down'[s] \in Seq(D!OutFrames)
        BY DEF StreamTypes
      <4> QED
        BY <4>1, CountType
    <3>9. Count(mpsc[s], Answers(k)) = Count(mpsc'[s], Answers(k)) + (IF f \in Answers(k) THEN 1 ELSE 0)
      BY <3>3, <3>5
    <3>10. Count(mpsc'[s], Answers(k)) \in Nat
      BY <3>2, <3>5
    <3>11. Owed(s, k)' <= Owed(s, k)
      <4>1. Owed(s, k) = Count(up[s], Questions(k)) + AtHand(s, k) + Count(mpsc[s], Answers(k))
                         + Count(down[s], Answers(k))
        BY DEF Owed
      <4> QED
        BY <2>1, <2>3, <3>6, <3>7, <3>8, <3>9, <3>10, <4>1
    <3> QED
      BY <2>3, <3>11
  <2> QED
    BY <2>2, <2>3
<1> QED
  BY <1>5 DEF Cheaper

LEMMA RestartCheaper ==
  ASSUME Steady, StreamTypes', D!DaemonTypeOK', DaemonRestarts
  PROVE  Cheaper
<1>1. D!DaemonTypeOK /\ StreamTypes
  BY DEF Steady, DaemonFacts
<1>2. \A s \in Sessions : up'[s] = <<>> /\ pending'[s] = None /\ mpsc'[s] = <<>> /\ down'[s] = down[s]
  BY DEF DaemonRestarts, D!Restart
<1>3. ASSUME NEW s \in Sessions, NEW k \in Sectors
      PROVE  /\ Count(up'[s], Questions(k)) = 0 /\ AtHand(s, k)' = 0
             /\ Count(mpsc'[s], Answers(k)) = 0 /\ Count(down'[s], Answers(k)) = Count(down[s], Answers(k))
             /\ Count(up[s], Questions(k)) \in Nat /\ AtHand(s, k) \in Nat
             /\ Count(mpsc[s], Answers(k)) \in Nat /\ Count(down[s], Answers(k)) \in Nat
  <2>1. up'[s] = <<>> /\ pending'[s] = None /\ mpsc'[s] = <<>> /\ down'[s] = down[s]
    BY <1>2
  <2>2. AtHand(s, k)' = 0
    BY <2>1, NoAnswers DEF AtHand
  <2> QED
    BY <1>1, <2>1, <2>2, OwedIs, CountNone
<1> QED
  BY <1>1, <1>3, CheaperParts

\* When nothing is asked and nobody connects.
LEMMA LedgerKept ==
  ASSUME Ledger, StreamTypes, StreamTypes', D!DaemonTypeOK, D!DaemonTypeOK', ClientFacts, Cheaper, UNCHANGED asked,
         \A c \in Servers, s \in Sessions : cur'[c] = s => cur[c] = s
  PROVE  Ledger'
<1> SUFFICES ASSUME NEW c \in Servers, NEW s \in Sessions, NEW k \in Sectors, cur'[c] = s
             PROVE  Owed(s, k)' <= asked'[c][k]
  BY DEF Ledger
<1>1. Owed(s, k) <= asked[c][k] /\ Owed(s, k)' <= Owed(s, k)
  BY DEF Ledger, Cheaper
<1>2. Owed(s, k) \in Nat /\ Owed(s, k)' \in Nat /\ asked[c][k] \in Nat
  <2>1. Owed(s, k) \in Nat
    BY OwedIs DEF Owed
  <2>2. Owed(s, k)' \in Nat
    <3>1. up'[s] \in Seq(C!QueueFrames) /\ mpsc'[s] \in Seq(D!OutFrames) /\ down'[s] \in Seq(D!OutFrames)
      BY DEF StreamTypes, D!DaemonTypeOK
    <3>2. /\ AtHand(s, k)' \in Nat /\ Count(up'[s], Questions(k)) \in Nat
          /\ Count(mpsc'[s], Answers(k)) \in Nat /\ Count(down'[s], Answers(k)) \in Nat
      BY <3>1, CountType DEF AtHand
    <3> QED
      BY <3>2 DEF Owed
  <2> QED
    BY <2>1, <2>2 DEF ClientFacts, C!TypeOK
<1> QED
  BY <1>1, <1>2

\* A client takes a frame from its connection.
LEMMA ConsumeCheaper ==
  ASSUME StreamTypes, D!DaemonTypeOK, NEW s \in Sessions, NEW f, down[s] # <<>>, f = Head(down[s]),
         down' = Consume(s), UNCHANGED <<daemonVars, up>>
  PROVE  /\ Cheaper
         /\ \A k \in Sectors : f \in Answers(k) => Owed(s, k)' + 1 = Owed(s, k)
<1>1. down[s] \in Seq(D!OutFrames) /\ DOMAIN down = Sessions /\ UNCHANGED <<up, pending, mpsc>>
  BY DEF StreamTypes, daemonVars
<1>2. down'[s] = Tail(down[s]) /\ Tail(down[s]) \in Seq(D!OutFrames)
      /\ \A r \in Sessions \ {s} : down'[r] = down[r]
  BY <1>1, HeadTailProperties DEF Consume
<1>3. ASSUME NEW r \in Sessions, NEW k \in Sectors
      PROVE  /\ Owed(r, k)' <= Owed(r, k)
             /\ r = s /\ f \in Answers(k) => Owed(r, k)' + 1 = Owed(r, k)
  <2>1. /\ Count(up[r], Questions(k)) \in Nat /\ AtHand(r, k) \in Nat
        /\ Count(mpsc[r], Answers(k)) \in Nat /\ Count(down[r], Answers(k)) \in Nat
    BY OwedIs
  <2>2. CASE r # s
    BY <1>1, <1>2, <2>1, <2>2 DEF Owed, AtHand
  <2>3. CASE r = s
    <3>1. Count(Tail(down[s]), Answers(k)) \in Nat
      BY <1>2, CountType
    <3>2. Count(down[s], Answers(k)) = Count(down'[s], Answers(k)) + (IF f \in Answers(k) THEN 1 ELSE 0)
      BY <1>1, <1>2, <3>1, CountTail
    <3>3. Owed(s, k)' = Count(up[s], Questions(k)) + AtHand(s, k) + Count(mpsc[s], Answers(k))
                        + Count(down'[s], Answers(k))
      BY <1>1 DEF Owed, AtHand
    <3>4. Owed(s, k) = Count(up[s], Questions(k)) + AtHand(s, k) + Count(mpsc[s], Answers(k))
                       + Count(down[s], Answers(k))
      BY DEF Owed
    <3>5. Count(down'[s], Answers(k)) \in Nat
      BY <1>2, <3>1
    <3> QED
      BY <2>1, <2>3, <3>2, <3>3, <3>4, <3>5
  <2> QED
    BY <2>2, <2>3
<1> QED
  BY <1>3 DEF Cheaper

\* It writes one, which may be a question.
LEMMA AskLedger ==
  ASSUME Ledger, Connections, StreamTypes, StreamTypes', D!DaemonTypeOK, ClientFacts,
         NEW c \in Servers, ClientSends(c)
  PROVE  Ledger'
<1>0. PICK f, r : f = Head(batch[c]) /\ r = cur[c]
  OBVIOUS
<1>1. /\ batch[c] \in Seq(C!QueueFrames) /\ batch[c] # <<>> /\ f \in C!QueueFrames /\ r \in Sessions
  <2>1. batch[c] \in Seq(C!QueueFrames) /\ batch[c] # <<>> /\ phase[c] = "send"
    BY DEF ClientSends, C!SendFront, ClientFacts, C!TypeOK
  <2> QED
    BY <1>0, <2>1, HeadTailProperties DEF StreamTypes, Connections
<1>2. /\ UNCHANGED <<pending, mpsc, down, cur>> /\ DOMAIN up = Sessions
      /\ up' = up \/ up' = [up EXCEPT ![r] = Append(up[r], f)]
      /\ asked' = IF f.kind = "resolve" THEN [asked EXCEPT ![c][f.sector] = @ + 1] ELSE asked
  BY <1>0 DEF ClientSends, C!SendFront, StreamTypes, daemonVars
<1>3. asked \in [Servers -> [Sectors -> Nat]]
  BY DEF ClientFacts, C!TypeOK
<1> SUFFICES ASSUME NEW d \in Servers, NEW s \in Sessions, NEW k \in Sectors, cur'[d] = s
             PROVE  Owed(s, k)' <= asked'[d][k]
  BY DEF Ledger
<1>4. Owed(s, k) <= asked[d][k]
  BY <1>2 DEF Ledger
<1>5. /\ Count(up[s], Questions(k)) \in Nat /\ AtHand(s, k) \in Nat
      /\ Count(mpsc[s], Answers(k)) \in Nat /\ Count(down[s], Answers(k)) \in Nat
  BY OwedIs
<1>6. Count(up'[s], Questions(k)) \in Nat
  <2>1. up'[s] \in Seq(C!QueueFrames)
    BY DEF StreamTypes
  <2> QED
    BY <2>1, CountType
<1>7. Owed(s, k)' = Count(up'[s], Questions(k)) + AtHand(s, k) + Count(mpsc[s], Answers(k))
                    + Count(down[s], Answers(k))
  BY <1>2 DEF Owed, AtHand
<1>8. Owed(s, k) = Count(up[s], Questions(k)) + AtHand(s, k) + Count(mpsc[s], Answers(k))
                   + Count(down[s], Answers(k))
  BY DEF Owed
<1>9. asked'[d][k] \in Nat /\ asked[d][k] \in Nat /\ asked'[d][k] >= asked[d][k]
  BY <1>1, <1>2, <1>3, UpFrames
<1>10. CASE up'[s] = up[s]
  BY <1>4, <1>5, <1>7, <1>8, <1>9, <1>10
<1>11. CASE up'[s] # up[s]
  <2>1. s = r /\ up'[s] = Append(up[s], f)
    BY <1>1, <1>2, <1>11
  <2>2. d = c
    <3>1. c # d /\ cur[c] = cur[d] => cur[c] = None
      BY DEF Connections
    <3> QED
      BY <1>0, <1>1, <1>2, <2>1, <3>1, FederationAssumption
  <2>3. up[s] \in Seq(C!QueueFrames)
    BY DEF StreamTypes
  <2>4. Count(up'[s], Questions(k)) = Count(up[s], Questions(k)) + (IF f \in Questions(k) THEN 1 ELSE 0)
    BY <1>1, <1>5, <2>1, <2>3, CountAppend
  <2>5. f \in Questions(k) => asked'[d][k] = asked[d][k] + 1
    BY <1>2, <1>3, <2>2 DEF Questions
  <2> QED
    BY <1>4, <1>5, <1>6, <1>7, <1>8, <1>9, <2>4, <2>5
<1> QED
  BY <1>10, <1>11

LEMMA LedgerStep ==
  ASSUME Steady, Ledger, StreamTypes', D!DaemonTypeOK', Next
  PROVE  Ledger'
<1> USE DEF clientVars, daemonVars
<1>1. /\ StreamTypes /\ Connections /\ D!DaemonTypeOK /\ ClientFacts
      /\ asked \in [Servers -> [Sectors -> Nat]] /\ DOMAIN cur = Servers
  BY DEF Steady, DaemonFacts, ClientFacts, C!TypeOK, StreamTypes
<1>2. ASSUME Cheaper, UNCHANGED asked, \A c \in Servers, s \in Sessions : cur'[c] = s => cur[c] = s
      PROVE  Ledger'
  BY <1>1, <1>2, LedgerKept
<1>3. CASE ClientOnly
  <2>1. ASSUME NEW h \in Calls, C!Engine(h) PROVE UNCHANGED asked
    BY <2>1 DEF C!Engine, C!StartResolve, C!StartSend, C!ResolveRegister, C!ResolveEnqueue,
         C!ResolveRefused, C!SendEnqueue, C!sessionVars
  <2>2. UNCHANGED asked
    BY <1>3, <2>1 DEF ClientOnly, C!AutoClaim, C!ClaimsDone, C!Drain, C!BatchDone, C!CallbackSends, C!RecvIdle
  <2>3. UNCHANGED <<pending, mpsc, up, down, cur>>
    BY <1>3 DEF ClientOnly
  <2>4. Cheaper
    <3> SUFFICES ASSUME NEW s \in Sessions, NEW k \in Sectors PROVE Owed(s, k)' <= Owed(s, k)
      BY DEF Cheaper
    <3>1. Owed(s, k)' = Owed(s, k) /\ Owed(s, k) \in Nat
      BY <1>1, <2>3, OwedIs DEF Owed, AtHand
    <3> QED
      BY <3>1
  <2> QED
    BY <1>2, <2>2, <2>3, <2>4
<1>4. ASSUME NEW s \in Sessions, UNCHANGED <<clientVars, cur, up, down>>,
             \/ D!UpsertExisting(s) \/ D!UpsertMissing(s) \/ D!HelloRejected(s)
             \/ \E p \in PeerIds : D!UpsertInsert(s, p)
             \/ D!Register(s) \/ D!SendReply(s) \/ D!ForwardDeliver(s) \/ D!ForwardFailed(s)
             \/ D!ReaderEof(s) \/ D!ReaderError(s) \/ D!Cleanup(s) \/ D!ConnectionLost(s)
             \/ D!WriterFails(s) \/ D!WriterEnds(s) \/ D!Close(s)
      PROVE  Ledger'
  <2>1. UNCHANGED <<up, down>> /\ UNCHANGED <<asked, cur>>
    BY <1>4
  <2>2. Cheaper
    BY <1>4, <2>1, DaemonCheaper
  <2> QED
    BY <1>2, <2>1, <2>2
<1>5. CASE DaemonOnly
  BY <1>4, <1>5 DEF DaemonOnly
<1>6. ASSUME NEW s \in Sessions, SessionFault(s) PROVE Ledger'
  BY <1>4, <1>6 DEF SessionFault
<1>7. ASSUME NEW s \in Sessions, DaemonReads(s) PROVE Ledger'
  BY <1>2, <1>7, ReadCheaper DEF DaemonReads
<1>8. ASSUME NEW s \in Sessions, DaemonWrites(s) PROVE Ledger'
  BY <1>2, <1>8, WriteCheaper DEF DaemonWrites
<1>9. CASE DaemonRestarts
  BY <1>2, <1>9, RestartCheaper DEF DaemonRestarts
<1>10. ASSUME NEW c \in Servers, NEW s \in Sessions, Connect(c, s) PROVE Ledger'
  <2>1. /\ UNCHANGED <<pending, mpsc, asked>> /\ stage[s] = "free"
        /\ cur' = [cur EXCEPT ![c] = s] /\ up' = [up EXCEPT ![s] = <<>>] /\ down' = [down EXCEPT ![s] = <<>>]
    BY <1>10 DEF Connect, C!Connect, D!Accept
  <2>2. pending[s] = None /\ mpsc[s] = <<>>
    BY <2>1 DEF Steady, Connections, DaemonFacts
  <2>3. up'[s] = <<>> /\ down'[s] = <<>> /\ \A r \in Sessions \ {s} : up'[r] = up[r] /\ down'[r] = down[r]
    BY <1>1, <2>1 DEF StreamTypes
  <2>4. ASSUME NEW d \in Servers, NEW r \in Sessions, NEW k \in Sectors, cur'[d] = r
        PROVE  Owed(r, k)' <= asked'[d][k]
    <3>1. CASE r = s
      <4>1. Owed(s, k)' = 0
        <5>1. AtHand(s, k)' = 0
          BY <2>1, <2>2, NoAnswers DEF AtHand
        <5> QED
          BY <2>1, <2>2, <2>3, <5>1, CountNone DEF Owed
      <4>2. asked'[d][k] \in Nat
        BY <1>1, <2>1
      <4> QED
        BY <3>1, <4>1, <4>2
    <3>2. CASE r # s
      <4>1. cur[d] = r
        BY <1>1, <2>1, <2>4, <3>2
      <4>2. Owed(r, k)' = Owed(r, k)
        BY <2>1, <2>3, <3>2 DEF Owed, AtHand
      <4> QED
        BY <2>1, <4>1, <4>2 DEF Ledger
    <3> QED
      BY <3>1, <3>2
  <2> QED
    BY <2>4 DEF Ledger
<1>11. ASSUME NEW c \in Servers, Disconnect(c) PROVE Ledger'
  <2>1. /\ UNCHANGED <<pending, mpsc, up, down>> /\ cur' = [cur EXCEPT ![c] = None]
        /\ asked' = [asked EXCEPT ![c] = [k \in Sectors |-> 0]]
    BY <1>11 DEF Disconnect, C!SessionEnds, D!ConnectionLost, D!task
  <2>2. ASSUME NEW d \in Servers, NEW r \in Sessions, NEW k \in Sectors, cur'[d] = r
        PROVE  Owed(r, k)' <= asked'[d][k]
    <3>1. d # c /\ cur[d] = r
      BY <1>1, <2>1, <2>2, FederationAssumption
    <3>2. asked'[d][k] = asked[d][k] /\ Owed(r, k)' = Owed(r, k)
      BY <1>1, <2>1, <3>1 DEF Owed, AtHand
    <3> QED
      BY <3>1, <3>2 DEF Ledger
  <2> QED
    BY <2>2 DEF Ledger
<1>12. ASSUME NEW c \in Servers, ClientSends(c) PROVE Ledger'
  BY <1>1, <1>12, AskLedger
<1>13. ASSUME NEW c \in Servers, ClientReadsAck(c) PROVE Ledger'
  <2>1. /\ cur[c] \in Sessions /\ UNCHANGED <<asked, cur, up>> /\ UNCHANGED daemonVars
        /\ down[cur[c]] # <<>> /\ down' = Consume(cur[c])
    BY <1>1, <1>13 DEF ClientReadsAck, C!ReceiveAck, StreamTypes, Connections, Consume
  <2>2. Cheaper
    BY <1>1, <2>1, ConsumeCheaper
  <2> QED
    BY <1>2, <2>1, <2>2
<1>14. ASSUME NEW c \in Servers, ClientReads(c) PROVE Ledger'
  <2>1. PICK s, f : s = cur[c] /\ f = Head(down[s])
    OBVIOUS
  <2>2. /\ s \in Sessions /\ UNCHANGED <<cur, up>> /\ UNCHANGED daemonVars
        /\ down[s] # <<>> /\ down' = Consume(s)
    BY <1>1, <1>14, <2>1 DEF ClientReads, StreamTypes, Connections
  <2>3. f \in D!OutFrames
    BY <1>1, <2>1, <2>2, HeadTailProperties DEF StreamTypes
  <2>4. Cheaper /\ \A k \in Sectors : f \in Answers(k) => Owed(s, k)' + 1 = Owed(s, k)
    BY <1>1, <2>1, <2>2, ConsumeCheaper
  <2>5. CASE UNCHANGED asked
    BY <1>2, <2>2, <2>4, <2>5
  <2>6. ASSUME NEW j \in Sectors, NEW p \in PeerIds \union {None}, C!ReceiveReply(c, j, p), f \in Answers(j)
        PROVE  Ledger'
    <3>1. asked' = [asked EXCEPT ![c][j] = @ - 1] /\ asked[c][j] > 0
      BY <2>6 DEF C!ReceiveReply
    <3>2. ASSUME NEW d \in Servers, NEW r \in Sessions, NEW k \in Sectors, cur'[d] = r
          PROVE  Owed(r, k)' <= asked'[d][k]
      <4>1. /\ Owed(r, k) <= asked[d][k] /\ Owed(r, k)' <= Owed(r, k)
            /\ asked[d][k] \in Nat /\ Owed(r, k) \in Nat /\ Owed(r, k)' \in Nat
        <5>1. Owed(r, k) \in Nat
          BY <1>1, OwedIs DEF Owed
        <5>2. Owed(r, k)' \in Nat
          <6>1. up'[r] \in Seq(C!QueueFrames) /\ mpsc'[r] \in Seq(D!OutFrames) /\ down'[r] \in Seq(D!OutFrames)
            BY DEF StreamTypes, D!DaemonTypeOK
          <6>2. /\ AtHand(r, k)' \in Nat /\ Count(up'[r], Questions(k)) \in Nat
                /\ Count(mpsc'[r], Answers(k)) \in Nat /\ Count(down'[r], Answers(k)) \in Nat
            BY <6>1, CountType DEF AtHand
          <6> QED
            BY <6>2 DEF Owed
        <5> QED
          BY <1>1, <2>2, <2>4, <3>2, <5>1, <5>2 DEF Ledger, Cheaper
      <4>2. CASE d = c /\ k = j
        <5>1. r = s
          BY <2>1, <2>2, <3>2, <4>2
        <5>2. Owed(r, k)' + 1 = Owed(r, k)
          BY <2>4, <2>6, <4>2, <5>1
        <5>3. asked'[d][k] = asked[d][k] - 1
          BY <1>1, <3>1, <4>2
        <5> QED
          BY <4>1, <5>2, <5>3
      <4>3. CASE ~(d = c /\ k = j)
        <5>1. asked'[d][k] = asked[d][k]
          BY <1>1, <3>1, <4>3
        <5> QED
          BY <4>1, <5>1
      <4> QED
        BY <4>2, <4>3
    <3> QED
      BY <3>2 DEF Ledger
  <2>7. UNCHANGED asked \/ \E j \in Sectors, p \in PeerIds \union {None} : C!ReceiveReply(c, j, p) /\ f \in Answers(j)
    <3>1. CASE f.kind \in {"sector_resolved", "sector_unknown"}
      <4>1. f.sector \in Sectors /\ f \in Answers(f.sector)
        BY <2>3, <3>1, DownFrames DEF Answers
      <4>2. f.kind = "sector_resolved" => f.peer \in PeerIds
        BY <2>3, DownFrames, SMTT(60)
      <4> QED
        BY <1>14, <2>1, <3>1, <4>1, <4>2 DEF ClientReads
    <3>2. CASE f.kind \notin {"sector_resolved", "sector_unknown"}
      BY <1>14, <2>1, <3>2 DEF ClientReads, C!ReceiveOther
    <3> QED
      BY <3>1, <3>2
  <2> QED
    BY <2>5, <2>6, <2>7
<1> QED
  BY <1>3, <1>5, <1>6, <1>7, <1>8, <1>9, <1>10, <1>11, <1>12, <1>13, <1>14 DEF Next

\* What DispatcherClient assumes of a daemon: a sector_resolved or
\* sector_unknown that reaches dispatchFrame answers a resolve frame that this
\* very session wrote and that had no answer yet, also when an older connection
\* of the same server still has frames in flight.
THEOREM Asked == Spec => []RepliesWereAsked
<1>1. Init => Ledger
  BY FederationAssumption DEF Init, Ledger
<1>2. Whole /\ Whole' /\ Ledger /\ [Next]_vars => Ledger'
  <2> SUFFICES ASSUME Whole, Whole', Ledger, [Next]_vars PROVE Ledger'
    OBVIOUS
  <2>1. StreamTypes' /\ D!DaemonTypeOK'
    <3>1. DaemonFacts'
      BY DaemonWillKnow DEF Whole
    <3> QED
      BY <3>1 DEF Whole, DaemonFacts
  <2>2. CASE Next
    BY <2>1, <2>2, SteadyNow, LedgerStep
  <2>3. CASE UNCHANGED vars
    BY <2>3 DEF vars, clientVars, daemonVars, Ledger, Owed, AtHand
  <2> QED
    BY <2>2, <2>3
<1>3. Whole /\ Ledger => RepliesWereAsked
  <2> SUFFICES ASSUME Whole, Ledger, NEW c \in Servers, phase[c] = "recv", down[cur[c]] # <<>>,
                      NEW f, f = Head(down[cur[c]]), f.kind \in {"sector_resolved", "sector_unknown"}
               PROVE  asked[c][f.sector] > 0
    BY DEF RepliesWereAsked
  <2>1. /\ StreamTypes /\ Connections /\ D!DaemonTypeOK
        /\ asked \in [Servers -> [Sectors -> Nat]]
    BY ClientKnows, DaemonKnows DEF Whole, ClientFacts, DaemonFacts, C!TypeOK
  <2>2. PICK s \in Sessions : s = cur[c]
    BY <2>1 DEF StreamTypes, Connections
  <2>3. down[s] \in Seq(D!OutFrames) /\ f \in D!OutFrames /\ f = Head(down[s]) /\ down[s] # <<>>
    BY <2>1, <2>2, HeadTailProperties DEF StreamTypes
  <2>4. PICK k \in Sectors : k = f.sector /\ f \in Answers(k)
    BY <2>3, DownFrames DEF Answers
  <2>5. Count(down[s], Answers(k)) # 0
    <3>1. 1 \in 1..Len(down[s]) /\ down[s][1] = f
      BY <2>3, HeadTailProperties, EmptySeq
    <3>2. Count(down[s], Answers(k)) = 0 => \A i \in 1..Len(down[s]) : down[s][i] \notin Answers(k)
      BY <2>3, CountType
    <3> QED
      BY <2>4, <3>1, <3>2
  <2>6. /\ Count(up[s], Questions(k)) \in Nat /\ AtHand(s, k) \in Nat
        /\ Count(mpsc[s], Answers(k)) \in Nat /\ Count(down[s], Answers(k)) \in Nat
    BY <2>1, OwedIs
  <2>7. Owed(s, k) <= asked[c][k] /\ asked[c][k] \in Nat
    BY <2>1, <2>2 DEF Ledger
  <2>8. asked[c][k] > 0
    BY <2>5, <2>6, <2>7 DEF Owed
  <2> QED
    BY <2>4, <2>8
<1> QED
  BY <1>1, <1>2, <1>3, WholeHolds, PTL DEF Spec

=============================================================================
