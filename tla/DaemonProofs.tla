---------------------------- MODULE DaemonProofs ----------------------------
(***************************************************************************)
(* Theorems about Daemon, for any number of servers, sessions and sectors   *)
(* and any queue depth.                                                     *)
(***************************************************************************)
EXTENDS Daemon, SequenceTheorems, TLAPS

-----------------------------------------------------------------------------
(* Frames.                                                                  *)

\* Every frame the handlers build is a frame of the wire protocol.
LEMMA FrameTypes ==
  /\ HelloAck \in OutFrames \ Deliveries
  /\ Pong \in OutFrames \ Deliveries
  /\ \A p \in PeerIds, d \in Payloads :
       Delivery(p, d) \in Deliveries /\ Delivery(p, d).from = p
  /\ \A p \in PeerIds, r \in Reasons : ForwardError(p, r) \in OutFrames \ Deliveries
  /\ \A k \in Sectors : SectorClaimed(k) \in OutFrames \ Deliveries
  /\ \A k \in Sectors, p \in PeerIds \union {None} :
       SectorReply(k, p) \in OutFrames \ Deliveries
PROOF
<1>1. HelloAck \in OutFrames \ Deliveries /\ Pong \in OutFrames \ Deliveries
  BY DEF HelloAck, Pong, OutFrames, Deliveries
<1>2. ASSUME NEW p \in PeerIds, NEW d \in Payloads
      PROVE  Delivery(p, d) \in Deliveries /\ Delivery(p, d).from = p
  BY DEF Delivery, Deliveries
<1>3. ASSUME NEW p \in PeerIds, NEW r \in Reasons
      PROVE  ForwardError(p, r) \in OutFrames \ Deliveries
  BY DEF ForwardError, OutFrames, Deliveries
<1>4. ASSUME NEW k \in Sectors PROVE SectorClaimed(k) \in OutFrames \ Deliveries
  BY DEF SectorClaimed, OutFrames, Deliveries
<1>5. ASSUME NEW k \in Sectors, NEW p \in PeerIds \union {None}
      PROVE  SectorReply(k, p) \in OutFrames \ Deliveries
  <2>1. CASE p = None
    BY <2>1 DEF SectorReply, OutFrames, Deliveries
  <2>2. CASE p # None
    BY <2>2 DEF SectorReply, OutFrames, Deliveries
  <2> QED BY <2>1, <2>2
<1> QED BY <1>1, <1>2, <1>3, <1>4, <1>5

-----------------------------------------------------------------------------
(* The inductive invariant.                                                 *)

\* What a session's variables hold at each stage of handle_peer.
PeerKnown ==
  \A s \in Sessions : peer[s] = None <=> stage[s] \in {"free", "hello", "insert"}

UuidKnown ==
  \A s \in Sessions : uuid[s] = None <=> stage[s] = "free"

ChannelOpen ==
  \A s \in Sessions :
    /\ writing[s] => stage[s] \in Serving \union {"ended", "drain"}
    /\ ~writing[s] => queue[s] = <<>>

PendingFrame ==
  \A s \in Sessions :
    /\ stage[s] = "reply" => pending[s] \in OutFrames \ Deliveries
    /\ stage[s] = "forward" => pending[s] \in Deliveries /\ pending[s].from = peer[s]

CloneHeld ==
  \A s \in Sessions :
    /\ target[s] # None <=> stage[s] = "forward"
    /\ goal[s] # None <=> stage[s] = "forward"

SessionInv == PeerKnown /\ UuidKnown /\ ChannelOpen /\ PendingFrame /\ CloneHeld

RoutingInv == NoStaleRegistration /\ ForwardReachesAddressee /\ NoSelfDelivery

IInv == DaemonTypeOK /\ SessionInv /\ TablesSound /\ RoutingInv

\* From registration on a session has its peer_id.
LEMMA ServingPeer ==
  ASSUME DaemonTypeOK, PeerKnown, NEW s \in Sessions,
         stage[s] \notin {"free", "hello", "insert"}
  PROVE  peer[s] \in PeerIds
PROOF BY DEF DaemonTypeOK, PeerKnown

\* Every step keeps the types and the bound on the queues.
LEMMA TypeStep == IInv /\ [Next]_vars => DaemonTypeOK'
PROOF
<1> SUFFICES ASSUME IInv, [Next]_vars PROVE DaemonTypeOK'
  OBVIOUS
<1> USE FrameTypes, DaemonAssumption DEF RegistryInsert, RegistryRemove, InsertWorld,
    UniqueServer, FreshPeerId, SelfRoute, SendCompletes, IInv, DaemonTypeOK, SessionInv, PeerKnown, UuidKnown, PendingFrame, CloneHeld, db, Stages
<1>1. ASSUME NEW s \in Sessions, NEW u \in Uuids, Accept(s, u) PROVE DaemonTypeOK'
  BY <1>1 DEF Accept
<1>2. ASSUME NEW s \in Sessions, ConnectionLost(s) PROVE DaemonTypeOK'
  BY <1>2 DEF ConnectionLost, task
<1>3. ASSUME NEW s \in Sessions, HelloRejected(s) PROVE DaemonTypeOK'
  BY <1>3 DEF HelloRejected
<1>4. ASSUME NEW s \in Sessions, UpsertExisting(s) PROVE DaemonTypeOK'
  BY <1>4 DEF UpsertExisting
<1>5. ASSUME NEW s \in Sessions, UpsertMissing(s) PROVE DaemonTypeOK'
  BY <1>5 DEF UpsertMissing
<1>6. ASSUME NEW s \in Sessions, NEW p \in PeerIds, UpsertInsert(s, p) PROVE DaemonTypeOK'
  BY <1>6 DEF UpsertInsert
<1>7. ASSUME NEW s \in Sessions, Register(s) PROVE DaemonTypeOK'
  BY <1>7 DEF Register
<1>8. ASSUME NEW s \in Sessions, SendReply(s) PROVE DaemonTypeOK'
  <2>1. pending[s] \in OutFrames
    BY <1>8 DEF SendReply
  <2>2. /\ queue' \in [Sessions -> Seq(OutFrames)]
        /\ \A t \in Sessions : Len(queue'[t]) <= QueueDepth
    <3>1. CASE writing[s]
      <4>1. queue' = [queue EXCEPT ![s] = Append(queue[s], pending[s])]
        BY <1>8, <3>1 DEF SendReply
      <4>2. Append(queue[s], pending[s]) \in Seq(OutFrames)
        BY <2>1
      <4>3. Len(Append(queue[s], pending[s])) <= QueueDepth
        BY <1>8, <2>1, <3>1 DEF SendReply
      <4> QED BY <4>1, <4>2, <4>3
    <3>2. CASE ~writing[s]
      BY <1>8, <3>2 DEF SendReply
    <3> QED BY <3>1, <3>2
  <2> QED BY <1>8, <2>2 DEF SendReply
<1>9. ASSUME NEW s \in Sessions, Ping(s) PROVE DaemonTypeOK'
  BY <1>9 DEF Ping, Answer
<1>10. ASSUME NEW s \in Sessions, NEW k \in Sectors, ClaimSector(s, k) PROVE DaemonTypeOK'
  BY <1>10 DEF ClaimSector, Answer
<1>11. ASSUME NEW s \in Sessions, NEW k \in Sectors, ResolveSector(s, k) PROVE DaemonTypeOK'
  BY <1>11 DEF ResolveSector, Answer
<1>12. ASSUME NEW s \in Sessions, NEW p \in PeerIds, NEW d \in Payloads, ForwardRefused(s, p, d) PROVE DaemonTypeOK'
  <2>1. \E f \in OutFrames \ Deliveries : Answer(s, f)
    BY <1>12, FrameTypes DEF ForwardRefused, Reasons
  <2>2. PICK f \in OutFrames \ Deliveries : Answer(s, f)
    BY <2>1
  <2> QED BY <1>12, <2>2 DEF ForwardRefused, Answer
<1>13. ASSUME NEW s \in Sessions, NEW p \in PeerIds, NEW d \in Payloads, ForwardLookup(s, p, d) PROVE DaemonTypeOK'
  <2>1. peer[s] \in PeerIds /\ registry[p] \in Sessions
    <3>1. stage[s] \notin {"free", "hello", "insert"} /\ registry[p] # None
      BY <1>13 DEF ForwardLookup
    <3> QED BY <3>1, ServingPeer
  <2>2. Delivery(peer[s], d) \in OutFrames
    BY <2>1, FrameTypes DEF OutFrames
  <2> QED BY <1>13, <2>1, <2>2 DEF ForwardLookup
<1>14. ASSUME NEW s \in Sessions, ForwardDeliver(s) PROVE DaemonTypeOK'
  <2> DEFINE t == target[s]
  <2>1. t \in Sessions /\ pending[s] \in OutFrames
    BY <1>14 DEF ForwardDeliver, OutFrames
  <2>2. /\ queue' \in [Sessions -> Seq(OutFrames)]
        /\ \A r \in Sessions : Len(queue'[r]) <= QueueDepth
    BY <1>14, <2>1 DEF ForwardDeliver
  <2> QED BY <1>14, <2>2 DEF ForwardDeliver
<1>15. ASSUME NEW s \in Sessions, ForwardFailed(s) PROVE DaemonTypeOK'
  <2>1. \E r \in Reasons : pending' = [pending EXCEPT ![s] = ForwardError(goal[s], r)]
    BY <1>15 DEF ForwardFailed, Reasons
  <2>2. goal[s] \in PeerIds
    BY <1>15 DEF ForwardFailed
  <2>3. PICK f \in OutFrames \ Deliveries : pending' = [pending EXCEPT ![s] = f]
    BY <2>1, <2>2, FrameTypes
  <2> QED BY <1>15, <2>3 DEF ForwardFailed
<1>16. ASSUME NEW s \in Sessions, ReaderEof(s) PROVE DaemonTypeOK'
  BY <1>16 DEF ReaderEof
<1>17. ASSUME NEW s \in Sessions, ReaderError(s) PROVE DaemonTypeOK'
  BY <1>17 DEF ReaderError
<1>18. ASSUME NEW s \in Sessions, Cleanup(s) PROVE DaemonTypeOK'
  BY <1>18 DEF Cleanup
<1>19. ASSUME NEW s \in Sessions, WriteFrame(s) PROVE DaemonTypeOK'
  BY <1>19 DEF WriteFrame, task
<1>20. ASSUME NEW s \in Sessions, WriterFails(s) PROVE DaemonTypeOK'
  BY <1>20 DEF WriterFails, task
<1>21. ASSUME NEW s \in Sessions, WriterEnds(s) PROVE DaemonTypeOK'
  BY <1>21 DEF WriterEnds, task, HasSender
<1>22. ASSUME NEW s \in Sessions, Close(s) PROVE DaemonTypeOK'
  BY <1>22 DEF Close, HasSender
<1>23. CASE Restart
  BY <1>23 DEF Restart
<1>24. CASE UNCHANGED vars
  BY <1>24 DEF vars
<1> QED
  BY <1>1, <1>2, <1>3, <1>4, <1>5, <1>6, <1>7, <1>8, <1>9, <1>10, <1>11, <1>12, <1>13, <1>14, <1>15, <1>16, <1>17, <1>18, <1>19, <1>20, <1>21, <1>22, <1>23, <1>24 DEF Next, Connection, Reader, Writer

\* Every step keeps the session state coherent.
LEMMA SessionStep == IInv /\ [Next]_vars => SessionInv'
PROOF
<1> SUFFICES ASSUME IInv, [Next]_vars PROVE SessionInv'
  OBVIOUS
<1> USE FrameTypes, DaemonAssumption DEF RegistryInsert, RegistryRemove, InsertWorld,
    UniqueServer, FreshPeerId, SelfRoute, SendCompletes, IInv, DaemonTypeOK, SessionInv, PeerKnown, UuidKnown, ChannelOpen, PendingFrame, CloneHeld, db, Stages, Serving, Reasons
<1>1. ASSUME NEW s \in Sessions, NEW u \in Uuids, Accept(s, u) PROVE SessionInv'
  BY <1>1 DEF Accept
<1>2. ASSUME NEW s \in Sessions, ConnectionLost(s) PROVE SessionInv'
  BY <1>2 DEF ConnectionLost, task
<1>3. ASSUME NEW s \in Sessions, HelloRejected(s) PROVE SessionInv'
  BY <1>3 DEF HelloRejected
<1>4. ASSUME NEW s \in Sessions, UpsertExisting(s) PROVE SessionInv'
  BY <1>4 DEF UpsertExisting
<1>5. ASSUME NEW s \in Sessions, UpsertMissing(s) PROVE SessionInv'
  BY <1>5 DEF UpsertMissing
<1>6. ASSUME NEW s \in Sessions, NEW p \in PeerIds, UpsertInsert(s, p) PROVE SessionInv'
  BY <1>6 DEF UpsertInsert
<1>7. ASSUME NEW s \in Sessions, Register(s) PROVE SessionInv'
  BY <1>7 DEF Register
<1>8. ASSUME NEW s \in Sessions, SendReply(s) PROVE SessionInv'
  BY <1>8 DEF SendReply
<1>9. ASSUME NEW s \in Sessions, Ping(s) PROVE SessionInv'
  BY <1>9 DEF Ping, Answer
<1>10. ASSUME NEW s \in Sessions, NEW k \in Sectors, ClaimSector(s, k) PROVE SessionInv'
  BY <1>10 DEF ClaimSector, Answer
<1>11. ASSUME NEW s \in Sessions, NEW k \in Sectors, ResolveSector(s, k) PROVE SessionInv'
  BY <1>11 DEF ResolveSector, Answer
<1>12. ASSUME NEW s \in Sessions, NEW p \in PeerIds, NEW d \in Payloads, ForwardRefused(s, p, d) PROVE SessionInv'
  <2>1. \E f \in OutFrames \ Deliveries : Answer(s, f)
    BY <1>12, FrameTypes DEF ForwardRefused, Reasons
  <2>2. PICK f \in OutFrames \ Deliveries : Answer(s, f)
    BY <2>1
  <2> QED BY <1>12, <2>2 DEF ForwardRefused, Answer
<1>13. ASSUME NEW s \in Sessions, NEW p \in PeerIds, NEW d \in Payloads, ForwardLookup(s, p, d) PROVE SessionInv'
  <2>1. peer[s] \in PeerIds /\ registry[p] \in Sessions
    <3>1. stage[s] \notin {"free", "hello", "insert"} /\ registry[p] # None
      BY <1>13 DEF ForwardLookup
    <3> QED BY <3>1, ServingPeer
  <2>2. Delivery(peer[s], d) \in Deliveries /\ Delivery(peer[s], d).from = peer[s]
    BY <2>1, FrameTypes
  <2> QED BY <1>13, <2>1, <2>2 DEF ForwardLookup
<1>14. ASSUME NEW s \in Sessions, ForwardDeliver(s) PROVE SessionInv'
  BY <1>14 DEF ForwardDeliver
<1>15. ASSUME NEW s \in Sessions, ForwardFailed(s) PROVE SessionInv'
  <2>1. \E r \in Reasons : pending' = [pending EXCEPT ![s] = ForwardError(goal[s], r)]
    BY <1>15 DEF ForwardFailed, Reasons
  <2>2. goal[s] \in PeerIds
    BY <1>15 DEF ForwardFailed
  <2>3. PICK f \in OutFrames \ Deliveries : pending' = [pending EXCEPT ![s] = f]
    BY <2>1, <2>2, FrameTypes
  <2> QED BY <1>15, <2>3 DEF ForwardFailed
<1>16. ASSUME NEW s \in Sessions, ReaderEof(s) PROVE SessionInv'
  <2>1. stage[s] = "read" /\ stage' = [stage EXCEPT ![s] = "ended"]
    BY <1>16 DEF ReaderEof
  <2>2. PeerKnown' /\ UuidKnown'
    BY <1>16, <2>1 DEF ReaderEof
  <2>3. ChannelOpen'
    BY <1>16, <2>1 DEF ReaderEof
  <2>4. PendingFrame'
    BY <1>16, <2>1 DEF ReaderEof
  <2>5. CloneHeld'
    BY <1>16, <2>1 DEF ReaderEof
  <2> QED BY <2>2, <2>3, <2>4, <2>5
<1>17. ASSUME NEW s \in Sessions, ReaderError(s) PROVE SessionInv'
  <2>1. stage[s] = "read" /\ stage' = [stage EXCEPT ![s] = "ended"]
    BY <1>17 DEF ReaderError
  <2>2. PeerKnown' /\ UuidKnown'
    BY <1>17, <2>1 DEF ReaderError
  <2>3. ChannelOpen'
    BY <1>17, <2>1 DEF ReaderError
  <2>4. PendingFrame'
    BY <1>17, <2>1 DEF ReaderError
  <2>5. CloneHeld'
    BY <1>17, <2>1 DEF ReaderError
  <2> QED BY <2>2, <2>3, <2>4, <2>5
<1>18. ASSUME NEW s \in Sessions, Cleanup(s) PROVE SessionInv'
  BY <1>18 DEF Cleanup
<1>19. ASSUME NEW s \in Sessions, WriteFrame(s) PROVE SessionInv'
  BY <1>19 DEF WriteFrame, task
<1>20. ASSUME NEW s \in Sessions, WriterFails(s) PROVE SessionInv'
  BY <1>20 DEF WriterFails, task
<1>21. ASSUME NEW s \in Sessions, WriterEnds(s) PROVE SessionInv'
  BY <1>21 DEF WriterEnds, task, HasSender
<1>22. ASSUME NEW s \in Sessions, Close(s) PROVE SessionInv'
  <2>1. stage[s] = "drain" /\ stage' = [stage EXCEPT ![s] = "free"] /\ \A t \in Sessions : target[t] # s
    BY <1>22 DEF Close, HasSender
  <2>2. PeerKnown' /\ UuidKnown'
    BY <1>22, <2>1 DEF Close
  <2>3. ChannelOpen'
    BY <1>22, <2>1 DEF Close
  <2>4. PendingFrame'
    BY <1>22, <2>1 DEF Close
  <2>5. CloneHeld'
    BY <1>22, <2>1 DEF Close
  <2> QED BY <2>2, <2>3, <2>4, <2>5
<1>23. CASE Restart
  BY <1>23 DEF Restart
<1>24. CASE UNCHANGED vars
  BY <1>24 DEF vars
<1> QED
  BY <1>1, <1>2, <1>3, <1>4, <1>5, <1>6, <1>7, <1>8, <1>9, <1>10, <1>11, <1>12, <1>13, <1>14, <1>15, <1>16, <1>17, <1>18, <1>19, <1>20, <1>21, <1>22, <1>23, <1>24 DEF Next, Connection, Reader, Writer

\* Every step keeps the two tables and the sessions' peer ids consistent.
LEMMA TableStep == IInv /\ [Next]_vars => TablesSound'
PROOF
<1> SUFFICES ASSUME IInv, [Next]_vars PROVE TablesSound'
  OBVIOUS
<1> USE FrameTypes, DaemonAssumption DEF RegistryInsert, RegistryRemove, InsertWorld,
    UniqueServer, FreshPeerId, SelfRoute, SendCompletes, IInv, DaemonTypeOK, SessionInv, PeerKnown, UuidKnown, TablesSound, PeerIdsDistinct, SessionHasTablePeer, ClaimsHaveOwners, db, Stages
<1>1. ASSUME NEW s \in Sessions, NEW u \in Uuids, Accept(s, u) PROVE TablesSound'
  BY <1>1 DEF Accept
<1>2. ASSUME NEW s \in Sessions, ConnectionLost(s) PROVE TablesSound'
  BY <1>2 DEF ConnectionLost, task
<1>3. ASSUME NEW s \in Sessions, HelloRejected(s) PROVE TablesSound'
  BY <1>3 DEF HelloRejected
<1>4. ASSUME NEW s \in Sessions, UpsertExisting(s) PROVE TablesSound'
  BY <1>4 DEF UpsertExisting
<1>5. ASSUME NEW s \in Sessions, UpsertMissing(s) PROVE TablesSound'
  BY <1>5 DEF UpsertMissing
<1>6. ASSUME NEW s \in Sessions, NEW p \in PeerIds, UpsertInsert(s, p) PROVE TablesSound'
  BY <1>6 DEF UpsertInsert
<1>7. ASSUME NEW s \in Sessions, Register(s) PROVE TablesSound'
  BY <1>7 DEF Register
<1>8. ASSUME NEW s \in Sessions, SendReply(s) PROVE TablesSound'
  BY <1>8 DEF SendReply
<1>9. ASSUME NEW s \in Sessions, Ping(s) PROVE TablesSound'
  BY <1>9 DEF Ping, Answer
<1>10. ASSUME NEW s \in Sessions, NEW k \in Sectors, ClaimSector(s, k) PROVE TablesSound'
  BY <1>10 DEF ClaimSector, Answer
<1>11. ASSUME NEW s \in Sessions, NEW k \in Sectors, ResolveSector(s, k) PROVE TablesSound'
  BY <1>11 DEF ResolveSector, Answer
<1>12. ASSUME NEW s \in Sessions, NEW p \in PeerIds, NEW d \in Payloads, ForwardRefused(s, p, d) PROVE TablesSound'
  BY <1>12 DEF ForwardRefused, Answer
<1>13. ASSUME NEW s \in Sessions, NEW p \in PeerIds, NEW d \in Payloads, ForwardLookup(s, p, d) PROVE TablesSound'
  BY <1>13 DEF ForwardLookup
<1>14. ASSUME NEW s \in Sessions, ForwardDeliver(s) PROVE TablesSound'
  BY <1>14 DEF ForwardDeliver
<1>15. ASSUME NEW s \in Sessions, ForwardFailed(s) PROVE TablesSound'
  BY <1>15 DEF ForwardFailed
<1>16. ASSUME NEW s \in Sessions, ReaderEof(s) PROVE TablesSound'
  BY <1>16 DEF ReaderEof
<1>17. ASSUME NEW s \in Sessions, ReaderError(s) PROVE TablesSound'
  BY <1>17 DEF ReaderError
<1>18. ASSUME NEW s \in Sessions, Cleanup(s) PROVE TablesSound'
  BY <1>18 DEF Cleanup
<1>19. ASSUME NEW s \in Sessions, WriteFrame(s) PROVE TablesSound'
  BY <1>19 DEF WriteFrame, task
<1>20. ASSUME NEW s \in Sessions, WriterFails(s) PROVE TablesSound'
  BY <1>20 DEF WriterFails, task
<1>21. ASSUME NEW s \in Sessions, WriterEnds(s) PROVE TablesSound'
  BY <1>21 DEF WriterEnds, task, HasSender
<1>22. ASSUME NEW s \in Sessions, Close(s) PROVE TablesSound'
  BY <1>22 DEF Close, HasSender
<1>23. CASE Restart
  BY <1>23 DEF Restart
<1>24. CASE UNCHANGED vars
  BY <1>24 DEF vars
<1> QED
  BY <1>1, <1>2, <1>3, <1>4, <1>5, <1>6, <1>7, <1>8, <1>9, <1>10, <1>11, <1>12, <1>13, <1>14, <1>15, <1>16, <1>17, <1>18, <1>19, <1>20, <1>21, <1>22, <1>23, <1>24 DEF Next, Connection, Reader, Writer

\* Every step keeps the registry fresh and the forwards on their way to the right peer.
LEMMA RoutingStep == IInv /\ [Next]_vars => RoutingInv'
PROOF
<1> SUFFICES ASSUME IInv, [Next]_vars PROVE RoutingInv'
  OBVIOUS
<1> USE FrameTypes, DaemonAssumption DEF RegistryInsert, RegistryRemove, InsertWorld,
    UniqueServer, FreshPeerId, SelfRoute, SendCompletes, IInv, DaemonTypeOK, SessionInv, PeerKnown, ChannelOpen, PendingFrame, CloneHeld, RoutingInv, NoStaleRegistration, ForwardReachesAddressee, NoSelfDelivery, db, Stages, Serving
<1>1. ASSUME NEW s \in Sessions, NEW u \in Uuids, Accept(s, u) PROVE RoutingInv'
  BY <1>1 DEF Accept
<1>2. ASSUME NEW s \in Sessions, ConnectionLost(s) PROVE RoutingInv'
  BY <1>2 DEF ConnectionLost, task
<1>3. ASSUME NEW s \in Sessions, HelloRejected(s) PROVE RoutingInv'
  BY <1>3 DEF HelloRejected
<1>4. ASSUME NEW s \in Sessions, UpsertExisting(s) PROVE RoutingInv'
  <2>1. peer[s] = None /\ queue[s] = <<>>
    BY <1>4 DEF UpsertExisting
  <2>2. \A t \in Sessions : t # s => peer'[t] = peer[t] /\ stage'[t] = stage[t]
    BY <1>4 DEF UpsertExisting
  <2>3. NoStaleRegistration'
    <3>1. \A q \in PeerIds : registry[q] # s
      BY <2>1
    <3> QED BY <1>4, <2>2, <3>1 DEF UpsertExisting
  <2>4. ForwardReachesAddressee'
    <3>1. \A t \in Sessions : stage[t] = "forward" => target[t] # s
      BY <2>1
    <3> QED BY <1>4, <2>2, <3>1 DEF UpsertExisting
  <2>5. NoSelfDelivery'
    BY <1>4, <2>1, <2>2 DEF UpsertExisting
  <2> QED BY <2>3, <2>4, <2>5
<1>5. ASSUME NEW s \in Sessions, UpsertMissing(s) PROVE RoutingInv'
  BY <1>5 DEF UpsertMissing
<1>6. ASSUME NEW s \in Sessions, NEW p \in PeerIds, UpsertInsert(s, p) PROVE RoutingInv'
  <2>1. peer[s] = None /\ queue[s] = <<>>
    BY <1>6 DEF UpsertInsert
  <2>2. \A t \in Sessions : t # s => peer'[t] = peer[t] /\ stage'[t] = stage[t]
    BY <1>6 DEF UpsertInsert
  <2>3. NoStaleRegistration'
    <3>1. \A q \in PeerIds : registry[q] # s
      BY <2>1
    <3> QED BY <1>6, <2>2, <3>1 DEF UpsertInsert
  <2>4. ForwardReachesAddressee'
    <3>1. \A t \in Sessions : stage[t] = "forward" => target[t] # s
      BY <2>1
    <3> QED BY <1>6, <2>2, <3>1 DEF UpsertInsert
  <2>5. NoSelfDelivery'
    BY <1>6, <2>1, <2>2 DEF UpsertInsert
  <2> QED BY <2>3, <2>4, <2>5
<1>7. ASSUME NEW s \in Sessions, Register(s) PROVE RoutingInv'
  BY <1>7 DEF Register
<1>8. ASSUME NEW s \in Sessions, SendReply(s) PROVE RoutingInv'
  <2>1. NoSelfDelivery'
    <3>1. CASE writing[s]
      <4>1. queue' = [queue EXCEPT ![s] = Append(queue[s], pending[s])]
        BY <1>8, <3>1 DEF SendReply
      <4>2. pending[s] \in OutFrames \ Deliveries
        BY <1>8 DEF SendReply
      <4>3. ASSUME NEW t \in Sessions, NEW i \in 1..Len(queue'[t]), queue'[t][i] \in Deliveries
            PROVE  i \in 1..Len(queue[t]) /\ queue'[t][i] = queue[t][i]
        BY <4>1, <4>2, <4>3
      <4> QED BY <1>8, <4>3 DEF SendReply
    <3>2. CASE ~writing[s]
      BY <1>8, <3>2 DEF SendReply
    <3> QED BY <3>1, <3>2
  <2>2. NoStaleRegistration' /\ ForwardReachesAddressee'
    BY <1>8 DEF SendReply
  <2> QED BY <2>1, <2>2
<1>9. ASSUME NEW s \in Sessions, Ping(s) PROVE RoutingInv'
  BY <1>9 DEF Ping, Answer
<1>10. ASSUME NEW s \in Sessions, NEW k \in Sectors, ClaimSector(s, k) PROVE RoutingInv'
  BY <1>10 DEF ClaimSector, Answer
<1>11. ASSUME NEW s \in Sessions, NEW k \in Sectors, ResolveSector(s, k) PROVE RoutingInv'
  BY <1>11 DEF ResolveSector, Answer
<1>12. ASSUME NEW s \in Sessions, NEW p \in PeerIds, NEW d \in Payloads, ForwardRefused(s, p, d) PROVE RoutingInv'
  <2>1. \E f \in OutFrames \ Deliveries : Answer(s, f)
    BY <1>12, FrameTypes DEF ForwardRefused, Reasons
  <2>2. PICK f \in OutFrames \ Deliveries : Answer(s, f)
    BY <2>1
  <2> QED BY <1>12, <2>2 DEF ForwardRefused, Answer
<1>13. ASSUME NEW s \in Sessions, NEW p \in PeerIds, NEW d \in Payloads, ForwardLookup(s, p, d) PROVE RoutingInv'
  BY <1>13 DEF ForwardLookup
<1>14. ASSUME NEW s \in Sessions, ForwardDeliver(s) PROVE RoutingInv'
  BY <1>14 DEF ForwardDeliver
<1>15. ASSUME NEW s \in Sessions, ForwardFailed(s) PROVE RoutingInv'
  BY <1>15 DEF ForwardFailed
<1>16. ASSUME NEW s \in Sessions, ReaderEof(s) PROVE RoutingInv'
  BY <1>16 DEF ReaderEof
<1>17. ASSUME NEW s \in Sessions, ReaderError(s) PROVE RoutingInv'
  BY <1>17 DEF ReaderError
<1>18. ASSUME NEW s \in Sessions, Cleanup(s) PROVE RoutingInv'
  BY <1>18 DEF Cleanup
<1>19. ASSUME NEW s \in Sessions, WriteFrame(s) PROVE RoutingInv'
  BY <1>19 DEF WriteFrame, task
<1>20. ASSUME NEW s \in Sessions, WriterFails(s) PROVE RoutingInv'
  BY <1>20 DEF WriterFails, task
<1>21. ASSUME NEW s \in Sessions, WriterEnds(s) PROVE RoutingInv'
  BY <1>21 DEF WriterEnds, task, HasSender
<1>22. ASSUME NEW s \in Sessions, Close(s) PROVE RoutingInv'
  BY <1>22 DEF Close, HasSender
<1>23. CASE Restart
  BY <1>23 DEF Restart
<1>24. CASE UNCHANGED vars
  BY <1>24 DEF vars
<1> QED
  BY <1>1, <1>2, <1>3, <1>4, <1>5, <1>6, <1>7, <1>8, <1>9, <1>10, <1>11, <1>12, <1>13, <1>14, <1>15, <1>16, <1>17, <1>18, <1>19, <1>20, <1>21, <1>22, <1>23, <1>24 DEF Next, Connection, Reader, Writer

-----------------------------------------------------------------------------
(* The theorems.                                                            *)

LEMMA InitInv == Init => IInv
PROOF
  BY DaemonAssumption DEF Init, IInv, DaemonTypeOK, SessionInv, PeerKnown, UuidKnown,
     ChannelOpen, PendingFrame, CloneHeld, TablesSound, PeerIdsDistinct,
     SessionHasTablePeer, ClaimsHaveOwners, RoutingInv, NoStaleRegistration,
     ForwardReachesAddressee, NoSelfDelivery, Stages, Serving

\* IInv is inductive, ...
LEMMA InvStep == IInv /\ [Next]_vars => IInv'
  BY TypeStep, SessionStep, TableStep, RoutingStep DEF IInv

\* ... so that it holds of every daemon.
THEOREM Invariance == Spec => []IInv
  BY InitInv, InvStep, PTL DEF Spec

\* The variables have their types and no queue outgrows WRITER_QUEUE_DEPTH.
THEOREM TypeCorrect == Spec => []DaemonTypeOK
PROOF
<1>1. IInv => DaemonTypeOK
  BY DEF IInv
<1> QED BY <1>1, Invariance, PTL

\* No registry entry outlives its session's cleanup.
THEOREM RegistryFresh == Spec => []NoStaleRegistration
PROOF
<1>1. IInv => NoStaleRegistration
  BY DEF IInv, RoutingInv
<1> QED BY <1>1, Invariance, PTL

\* A forward in flight can only reach the peer it is addressed to.
THEOREM ForwardAddressed == Spec => []ForwardReachesAddressee
PROOF
<1>1. IInv => ForwardReachesAddressee
  BY DEF IInv, RoutingInv
<1> QED BY <1>1, Invariance, PTL

\* No peer is delivered a frame of its own.
THEOREM NoEcho == Spec => []NoSelfDelivery
PROOF
<1>1. IInv => NoSelfDelivery
  BY DEF IInv, RoutingInv
<1> QED BY <1>1, Invariance, PTL

\* Different servers have different peer ids, a session runs under the id of
\* its server, and claimed sectors belong to known servers.
THEOREM TablesConsistent == Spec => []TablesSound
PROOF
<1>1. IInv => TablesSound
  BY DEF IInv
<1> QED BY <1>1, Invariance, PTL

\* Claims change only by a claim of a served session: neither a disconnect nor
\* a restart of the daemon loses one.
THEOREM ClaimsDurable == Spec => ClaimsSurvive
PROOF
<1> DEFINE ByClaim ==
      \A k \in Sectors : sectors'[k] # sectors[k] =>
        \E s \in Sessions : stage[s] = "read" /\ sectors'[k] = peer[s] /\ peer[s] # None
<1>1. ASSUME IInv, [Next]_vars PROVE ByClaim
  <2>1. ASSUME NEW s \in Sessions, NEW k \in Sectors, ClaimSector(s, k) PROVE ByClaim
    <3>1. stage[s] = "read" /\ sectors' = [sectors EXCEPT ![k] = peer[s]]
      BY <2>1 DEF ClaimSector
    <3>2. peer[s] # None
      BY <1>1, <3>1 DEF IInv, SessionInv, PeerKnown
    <3> QED BY <1>1, <3>1, <3>2 DEF IInv, DaemonTypeOK
  <2>2. CASE UNCHANGED sectors
    BY <2>2
  <2>3. (\E s \in Sessions, k \in Sectors : ClaimSector(s, k)) \/ UNCHANGED sectors
    <3>1. ASSUME NEW s \in Sessions, Connection(s)
          PROVE  (\E t \in Sessions, k \in Sectors : ClaimSector(t, k)) \/ UNCHANGED sectors
      BY <3>1 DEF Connection, db, Accept, ConnectionLost, HelloRejected, UpsertExisting, UpsertMissing,
         UpsertInsert, Register
    <3>2. ASSUME NEW s \in Sessions, Reader(s)
          PROVE  (\E t \in Sessions, k \in Sectors : ClaimSector(t, k)) \/ UNCHANGED sectors
      BY <3>2 DEF Reader, db, SendReply, Ping, ResolveSector, ForwardRefused, ForwardLookup,
         ForwardDeliver, ForwardFailed, ReaderEof, ReaderError, Cleanup
    <3>3. ASSUME NEW s \in Sessions, Writer(s) \/ Close(s) PROVE UNCHANGED sectors
      BY <3>3 DEF Writer, db, WriteFrame, WriterFails, WriterEnds, Close
    <3>4. CASE Restart \/ UNCHANGED vars
      BY <3>4 DEF Restart, db, vars
    <3> QED
      BY <1>1, <3>1, <3>2, <3>3, <3>4 DEF Next
  <2> QED BY <2>1, <2>2, <2>3
<1>2. IInv /\ [Next]_vars => [ByClaim]_vars
  BY <1>1
<1> QED BY <1>2, Invariance, PTL DEF Spec, ClaimsSurvive

\* A server keeps its peer_id for ever.
THEOREM PeerIdDurable == Spec => PeerIdStable
PROOF
<1> DEFINE Kept == \A u \in Uuids : worlds[u] # None => worlds'[u] = worlds[u]
<1>1. ASSUME IInv, [Next]_vars PROVE Kept
  <2>1. ASSUME NEW s \in Sessions, NEW p \in PeerIds, UpsertInsert(s, p) PROVE Kept
    BY <1>1, <2>1 DEF UpsertInsert, InsertWorld, UniqueServer, IInv, DaemonTypeOK
  <2>2. CASE UNCHANGED worlds
    BY <2>2
  <2>3. (\E s \in Sessions, p \in PeerIds : UpsertInsert(s, p)) \/ UNCHANGED worlds
    <3>1. ASSUME NEW s \in Sessions, Connection(s)
          PROVE  (\E t \in Sessions, p \in PeerIds : UpsertInsert(t, p)) \/ UNCHANGED worlds
      BY <3>1 DEF Connection, db, Accept, ConnectionLost, HelloRejected, UpsertExisting, UpsertMissing,
         Register
    <3>2. ASSUME NEW s \in Sessions, Reader(s)
          PROVE  (\E t \in Sessions, p \in PeerIds : UpsertInsert(t, p)) \/ UNCHANGED worlds
      BY <3>2 DEF Reader, db, SendReply, Ping, ClaimSector, ResolveSector, ForwardRefused, ForwardLookup,
         ForwardDeliver, ForwardFailed, ReaderEof, ReaderError, Cleanup
    <3>3. ASSUME NEW s \in Sessions, Writer(s) \/ Close(s) PROVE UNCHANGED worlds
      BY <3>3 DEF Writer, db, WriteFrame, WriterFails, WriterEnds, Close
    <3>4. CASE Restart \/ UNCHANGED vars
      BY <3>4 DEF Restart, db, vars
    <3> QED
      BY <1>1, <3>1, <3>2, <3>3, <3>4 DEF Next
  <2> QED BY <2>1, <2>2, <2>3
<1>2. IInv /\ [Next]_vars => [Kept]_vars
  BY <1>1
<1> QED BY <1>2, Invariance, PTL DEF Spec, PeerIdStable

\* What the tables hold survives every disconnect and every restart.
THEOREM TablesKept == Spec => TablesDurable
PROOF BY ClaimsDurable, PeerIdDurable, PTL DEF TablesDurable
=============================================================================
