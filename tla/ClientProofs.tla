--------------------------- MODULE ClientProofs ---------------------------
(***************************************************************************)
(* That the client hands a payload to its socket at most once, and that no   *)
(* callback of a refused call stays registered, for any number of servers,   *)
(* calls, sectors and claims and any depth of the queue.                     *)
(***************************************************************************)
EXTENDS DispatcherClient, SequenceTheorems, TLAPS

\* What a call that is under way has, and that one that has not yet registered
\* its callback, or has none, is in no table.
CallInv ==
  \A h \in Calls :
    /\ status[h] = "idle" => pc[h] = "out"
    /\ pc[h] # "out" => server[h] \in Servers
    /\ pc[h] \in {"reg", "put"} => /\ status[h] = "pending"
                                   /\ \A c \in Servers, k \in Sectors : cbs[c][k] # h
    /\ pc[h] \in {"reg", "enq"} => sector[h] \in Sectors
    /\ pc[h] = "put" => dest[h] \in PeerIds

\* Where the session thread stands tells what it holds.
SessionInv ==
  \A c \in Servers :
    /\ phase[c] = "callback" => /\ running[c] \in Calls
                                /\ status[running[c]] = "answered"
                                /\ server[running[c]] = c
                                /\ dest[running[c]] \in PeerIds
    /\ phase[c] # "send" => batch[c] = <<>>

\* A forward carries the payload of an accepted call of this server.
Mine(c, f) ==
  f.kind = "forward" =>
    /\ f.payload \in Calls
    /\ server[f.payload] = c /\ status[f.payload] = "accepted"
    /\ f = ForwardFrame(dest[f.payload], f.payload)

Carries(f, h) == f.kind = "forward" /\ f.payload = h

FramesAreMine ==
  \A c \in Servers :
    /\ \A i \in 1..Len(queue[c]) : Mine(c, queue[c][i])
    /\ \A i \in 1..Len(batch[c]) : Mine(c, batch[c][i])

\* No payload is in two frames.
FramesApart ==
  \A c \in Servers, h \in Calls :
    /\ \A i, j \in 1..Len(queue[c]) : Carries(queue[c][i], h) /\ Carries(queue[c][j], h) => i = j
    /\ \A i, j \in 1..Len(batch[c]) : Carries(batch[c][i], h) /\ Carries(batch[c][j], h) => i = j
    /\ \A i \in 1..Len(queue[c]), j \in 1..Len(batch[c]) :
         ~(Carries(queue[c][i], h) /\ Carries(batch[c][j], h))

\* What is accepted is in a frame.
AcceptedCarried ==
  \A h \in Calls : status[h] = "accepted" =>
    /\ server[h] \in Servers
    /\ \/ \E i \in 1..Len(queue[server[h]]) : Carries(queue[server[h]][i], h)
       \/ \E i \in 1..Len(batch[server[h]]) : Carries(batch[server[h]][i], h)

FrameInv == FramesAreMine /\ FramesApart /\ AcceptedCarried

IInv == TypeOK /\ CallInv /\ SessionInv /\ NoDanglingCallback /\ FrameInv

-----------------------------------------------------------------------------
LEMMA Appended ==
  ASSUME NEW s \in Seq(QueueFrames), NEW f \in QueueFrames
  PROVE  /\ Append(s, f) \in Seq(QueueFrames)
         /\ Len(s) \in Nat /\ Len(Append(s, f)) = Len(s) + 1
         /\ \A i \in 1..Len(s) : Append(s, f)[i] = s[i]
         /\ Append(s, f)[Len(s) + 1] = f
OBVIOUS

LEMMA Shortened ==
  ASSUME NEW s \in Seq(QueueFrames), s # <<>>
  PROVE  /\ Tail(s) \in Seq(QueueFrames) /\ Head(s) \in QueueFrames /\ Head(s) = s[1]
         /\ Len(s) \in Nat /\ Len(s) > 0 /\ Len(Tail(s)) = Len(s) - 1
         /\ \A i \in 1..(Len(s) - 1) : Tail(s)[i] = s[i + 1]
BY EmptySeq

\* The three kinds of frames.
LEMMA Kinds ==
  /\ \A k \in Sectors : ClaimFrame(k) \in QueueFrames /\ ~(ClaimFrame(k).kind = "forward")
  /\ \A k \in Sectors : ResolveFrame(k) \in QueueFrames /\ ~(ResolveFrame(k).kind = "forward")
  /\ \A p \in PeerIds, h \in Calls : /\ ForwardFrame(p, h) \in QueueFrames
                                     /\ ForwardFrame(p, h).kind = "forward"
                                     /\ ForwardFrame(p, h).payload = h
  /\ \A f \in QueueFrames : f.kind = "forward" => f.payload \in Calls /\ f.to \in PeerIds
  /\ \A f \in QueueFrames : f.kind = "resolve" => f.sector \in Sectors
BY DEF ClaimFrame, ResolveFrame, ForwardFrame, QueueFrames

\* Putting a frame into the queue, when there is room.
LEMMA Enqueued ==
  ASSUME TypeOK, NEW c \in Servers, NEW f \in QueueFrames, HasRoom(c), Enqueue(c, f)
  PROVE  /\ queue' \in [Servers -> Seq(QueueFrames)]
         /\ \A d \in Servers : Len(queue'[d]) <= QueueMax
         /\ queue'[c] = Append(queue[c], f)
         /\ \A d \in Servers \ {c} : queue'[d] = queue[d]
<1>1. queue \in [Servers -> Seq(QueueFrames)] /\ QueueMax \in Nat /\ \A d \in Servers : Len(queue[d]) <= QueueMax
  BY ClientAssumption DEF TypeOK
<1>2. queue[c] \in Seq(QueueFrames)
  BY <1>1
<1>3. Append(queue[c], f) \in Seq(QueueFrames) /\ Len(Append(queue[c], f)) = Len(queue[c]) + 1 /\ Len(queue[c]) \in Nat
  BY <1>2, Appended
<1>4. queue' = [queue EXCEPT ![c] = Append(queue[c], f)]
  BY DEF Enqueue
<1>5. Len(Append(queue[c], f)) <= QueueMax
  BY <1>1, <1>3 DEF HasRoom
<1> QED
  BY <1>1, <1>3, <1>4, <1>5

-----------------------------------------------------------------------------
(* Types.                                                                   *)

LEMMA TypeInit == Init => TypeOK
BY ClientAssumption DEF Init, TypeOK, Phases, Places, Statuses

LEMMA TypeEngine ==
  ASSUME TypeOK, CallInv, NEW h \in Calls, Engine(h)
  PROVE  TypeOK'
<1>1. ASSUME NEW c \in Servers, NEW k \in Sectors, StartResolve(c, h, k)
      PROVE  TypeOK'
  BY <1>1 DEF TypeOK, StartResolve, Begin, Becomes, Places, Statuses, sessionVars
<1>2. ASSUME NEW c \in Servers, NEW p \in PeerIds, StartSend(c, h, p)
      PROVE  TypeOK'
  BY <1>2 DEF TypeOK, StartSend, Begin, Becomes, Places, Statuses, sessionVars
<1>3. CASE ResolveRegister(h)
  <2>1. server[h] \in Servers /\ sector[h] \in Sectors
    BY <1>3 DEF CallInv, ResolveRegister
  <2> QED
    BY <1>3, <2>1 DEF TypeOK, ResolveRegister, RegisterCallback, Places, sessionVars
<1>4. CASE ResolveEnqueue(h)
  <2>1. server[h] \in Servers /\ sector[h] \in Sectors
    BY <1>4 DEF CallInv, ResolveEnqueue
  <2>2. queue' \in [Servers -> Seq(QueueFrames)] /\ \A d \in Servers : Len(queue'[d]) <= QueueMax
    BY <1>4, <2>1, Enqueued, Kinds DEF ResolveEnqueue
  <2>3. superseded' \in [Calls -> BOOLEAN]
    BY <1>4 DEF ResolveEnqueue, TypeOK
  <2> QED
    BY <1>4, <2>2, <2>3 DEF TypeOK, ResolveEnqueue, Return, Places, sessionVars
<1>5. CASE ResolveRefused(h)
  <2>1. server[h] \in Servers /\ sector[h] \in Sectors
    BY <1>5 DEF CallInv, ResolveRefused
  <2> QED
    BY <1>5, <2>1 DEF TypeOK, ResolveRefused, Rollback, Return, Places, sessionVars
<1>6. CASE SendEnqueue(h)
  <2>1. server[h] \in Servers /\ dest[h] \in PeerIds
    BY <1>6 DEF CallInv, SendEnqueue
  <2>2. queue' \in [Servers -> Seq(QueueFrames)] /\ \A d \in Servers : Len(queue'[d]) <= QueueMax
    <3>1. CASE HasRoom(server[h])
      BY <1>6, <2>1, <3>1, Enqueued, Kinds DEF SendEnqueue, PutForward
    <3>2. CASE ~HasRoom(server[h])
      BY <1>6, <3>2 DEF SendEnqueue, PutForward, TypeOK
    <3> QED
      BY <3>1, <3>2
  <2>3. status' \in [Calls -> Statuses]
    BY <1>6 DEF SendEnqueue, PutForward, Becomes, TypeOK, Statuses
  <2>4. result' \in [Calls -> BOOLEAN \union {None}]
    <3>1. result' = [result EXCEPT ![h] = HasRoom(server[h])] /\ result \in [Calls -> BOOLEAN \union {None}]
      BY <1>6 DEF SendEnqueue, Return, TypeOK
    <3>2. HasRoom(server[h]) \in BOOLEAN
      BY DEF HasRoom
    <3>3. PICK ok \in BOOLEAN : ok = HasRoom(server[h])
      BY <3>2, Zenon
    <3>4. result' = [result EXCEPT ![h] = ok]
      BY <3>1, <3>3, Zenon
    <3> QED
      BY <3>1, <3>4
  <2>5. pc' \in [Calls -> Places]
    BY <1>6 DEF TypeOK, SendEnqueue, Return, Places
  <2> QED
    BY <1>6, <2>2, <2>3, <2>4, <2>5 DEF TypeOK, SendEnqueue, sessionVars
<1> QED
  BY <1>1, <1>2, <1>3, <1>4, <1>5, <1>6 DEF Engine

LEMMA TypeSession ==
  ASSUME TypeOK, SessionInv, NEW c \in Servers, Session(c)
  PROVE  TypeOK'
<1>1. CASE Connect(c)
  BY <1>1 DEF TypeOK, Connect, callVars, Phases
<1>2. CASE ReceiveAck(c)
  BY <1>2 DEF TypeOK, ReceiveAck, callVars, Phases
<1>3. CASE AutoClaim(c)
  <2>1. claimed' \in [Servers -> Nat]
    BY <1>3 DEF AutoClaim, TypeOK
  <2>2. queue' \in [Servers -> Seq(QueueFrames)] /\ \A d \in Servers : Len(queue'[d]) <= QueueMax
    <3>1. CASE HasRoom(c)
      <4>1. Claims[c] \in Seq(Sectors) /\ claimed[c] \in Nat /\ claimed[c] < Len(Claims[c])
        BY <1>3, ClientAssumption DEF AutoClaim, TypeOK
      <4>2. Claims[c][claimed[c] + 1] \in Sectors
        BY <4>1
      <4> QED
        BY <1>3, <3>1, <4>2, Enqueued, Kinds DEF AutoClaim
    <3>2. CASE ~HasRoom(c)
      BY <1>3, <3>2 DEF AutoClaim, TypeOK
    <3> QED
      BY <3>1, <3>2
  <2> QED
    BY <1>3, <2>1, <2>2 DEF TypeOK, AutoClaim, callVars
<1>4. CASE ClaimsDone(c)
  BY <1>4 DEF TypeOK, ClaimsDone, callVars, Phases
<1>5. CASE Drain(c)
  <2>1. <<>> \in Seq(QueueFrames) /\ Len(<<>>) = 0 /\ QueueMax \in Nat
    BY ClientAssumption
  <2> QED
    BY <1>5, <2>1 DEF TypeOK, Drain, Taken, Emptied, callVars, Phases
<1>6. CASE SendFront(c)
  <2>1. batch[c] \in Seq(QueueFrames) /\ batch[c] # <<>>
    BY <1>6 DEF SendFront, TypeOK
  <2>2. Tail(batch[c]) \in Seq(QueueFrames) /\ Head(batch[c]) \in QueueFrames
    BY <2>1, Shortened
  <2>3. batch' \in [Servers -> Seq(QueueFrames)]
    BY <1>6, <2>2 DEF SendFront, TypeOK
  <2>4. status' \in [Calls -> Statuses]
    BY <1>6, <2>2, Kinds DEF SendFront, TypeOK, Statuses
  <2>5. asked' \in [Servers -> [Sectors -> Nat]]
    BY <1>6, <2>2, Kinds DEF SendFront, TypeOK
  <2> QED
    BY <1>6, <2>3, <2>4, <2>5 DEF TypeOK, SendFront
<1>7. CASE BatchDone(c)
  BY <1>7 DEF TypeOK, BatchDone, callVars, Phases
<1>8. CASE RecvIdle(c) \/ ReceiveOther(c)
  BY <1>8 DEF TypeOK, RecvIdle, ReceiveOther, callVars, Phases
<1>9. ASSUME NEW k \in Sectors, NEW p \in PeerIds \union {None}, ReceiveReply(c, k, p)
      PROVE  TypeOK'
  <2>1. cbs[c][k] \in Calls \union {None}
    BY DEF TypeOK
  <2>2. asked' \in [Servers -> [Sectors -> Nat]] /\ cbs' \in [Servers -> [Sectors -> Calls \union {None}]]
    BY <1>9 DEF ReceiveReply, PopCallback, TypeOK
  <2>3. /\ phase' \in [Servers -> Phases] /\ running' \in [Servers -> Calls \union {None}]
        /\ dest' \in [Calls -> PeerIds \union {None}] /\ status' \in [Calls -> Statuses]
    <3>1. CASE cbs[c][k] # None /\ p # None
      BY <1>9, <2>1, <3>1, ZenonT(60) DEF ReceiveReply, TypeOK, Phases, Statuses, Becomes
    <3>2. CASE ~(cbs[c][k] # None /\ p # None)
      BY <1>9, <2>1, <3>2 DEF ReceiveReply, TypeOK, Phases, Statuses
    <3> QED
      BY <3>1, <3>2
  <2> QED
    BY <1>9, <2>2, <2>3 DEF TypeOK, ReceiveReply
<1>10. CASE CallbackSends(c)
  <2>1. running[c] \in Calls /\ server[running[c]] = c /\ dest[running[c]] \in PeerIds
    BY <1>10 DEF CallbackSends, SessionInv
  <2>2. queue' \in [Servers -> Seq(QueueFrames)] /\ \A d \in Servers : Len(queue'[d]) <= QueueMax
    <3>1. CASE HasRoom(c)
      BY <1>10, <2>1, <3>1, Enqueued, Kinds DEF CallbackSends, PutForward
    <3>2. CASE ~HasRoom(c)
      BY <1>10, <2>1, <3>2 DEF CallbackSends, PutForward, TypeOK
    <3> QED
      BY <3>1, <3>2
  <2>3. status' \in [Calls -> Statuses]
    BY <1>10, <2>1 DEF CallbackSends, PutForward, Becomes, TypeOK, Statuses
  <2> QED
    BY <1>10, <2>2, <2>3 DEF TypeOK, CallbackSends, Phases
<1>11. CASE SessionEnds(c)
  <2>1. status' \in [Calls -> Statuses]
    BY <1>11 DEF SessionEnds, BatchLost, TypeOK, Statuses
  <2>2. <<>> \in Seq(QueueFrames) /\ [k \in Sectors |-> 0] \in [Sectors -> Nat]
    OBVIOUS
  <2> QED
    BY <1>11, <2>1, <2>2 DEF TypeOK, SessionEnds, Phases
<1> QED
  BY <1>1, <1>2, <1>3, <1>4, <1>5, <1>6, <1>7, <1>8, <1>9, <1>10, <1>11 DEF Session

-----------------------------------------------------------------------------
(* Calls, sessions and callbacks.                                           *)

CallsInv == CallInv /\ SessionInv /\ NoDanglingCallback

LEMMA CallsInit == Init => CallsInv
BY ClientAssumption DEF Init, CallsInv, CallInv, SessionInv, NoDanglingCallback

\* A call that begins is in no table yet.
LEMMA Unregistered ==
  ASSUME TypeOK, CallsInv, NEW h \in Calls, status[h] # "pending"
  PROVE  \A c \in Servers, k \in Sectors : cbs[c][k] # h
BY ClientAssumption DEF TypeOK, CallsInv, NoDanglingCallback

LEMMA CallsStartResolve ==
  ASSUME TypeOK, CallsInv, NEW c \in Servers, NEW h \in Calls, NEW k \in Sectors, StartResolve(c, h, k)
  PROVE  CallsInv'
<1>1. /\ status[h] = "idle" /\ pc[h] = "out"
      /\ \A d \in Servers, l \in Sectors : cbs[d][l] # h
  BY Unregistered DEF StartResolve, Begin, CallsInv, CallInv
<1>2. /\ pc' = [pc EXCEPT ![h] = IF sessionUp[c] THEN "reg" ELSE "out"]
      /\ status' = [status EXCEPT ![h] = "pending"] /\ server' = [server EXCEPT ![h] = c]
      /\ sector' = [sector EXCEPT ![h] = k]
      /\ result' = [result EXCEPT ![h] = IF sessionUp[c] THEN None ELSE FALSE]
      /\ UNCHANGED <<phase, batch, running, cbs, dest>>
  BY DEF StartResolve, Begin, Becomes, sessionVars
<1>3. CallInv'
  BY <1>1, <1>2 DEF TypeOK, CallsInv, CallInv
<1>4. SessionInv'
  BY <1>1, <1>2 DEF TypeOK, CallsInv, SessionInv
<1>5. NoDanglingCallback'
  BY <1>1, <1>2, ClientAssumption DEF TypeOK, CallsInv, NoDanglingCallback
<1> QED
  BY <1>3, <1>4, <1>5 DEF CallsInv

LEMMA CallsStartSend ==
  ASSUME TypeOK, CallsInv, NEW c \in Servers, NEW h \in Calls, NEW p \in PeerIds, StartSend(c, h, p)
  PROVE  CallsInv'
<1>1. /\ status[h] = "idle" /\ pc[h] = "out"
      /\ \A d \in Servers, l \in Sectors : cbs[d][l] # h
  BY Unregistered DEF StartSend, Begin, CallsInv, CallInv
<1>2. /\ pc' = [pc EXCEPT ![h] = IF sessionUp[c] THEN "put" ELSE "out"]
      /\ status' = [status EXCEPT ![h] = "pending"] /\ server' = [server EXCEPT ![h] = c]
      /\ dest' = [dest EXCEPT ![h] = p]
      /\ result' = [result EXCEPT ![h] = IF sessionUp[c] THEN None ELSE FALSE]
      /\ UNCHANGED <<phase, batch, running, cbs, sector>>
  BY DEF StartSend, Begin, Becomes, sessionVars
<1>3. CallInv'
  BY <1>1, <1>2 DEF TypeOK, CallsInv, CallInv
<1>4. SessionInv'
  BY <1>1, <1>2 DEF TypeOK, CallsInv, SessionInv
<1>5. NoDanglingCallback'
  BY <1>1, <1>2, ClientAssumption DEF TypeOK, CallsInv, NoDanglingCallback
<1> QED
  BY <1>3, <1>4, <1>5 DEF CallsInv

LEMMA CallsRegister ==
  ASSUME TypeOK, CallsInv, NEW h \in Calls, ResolveRegister(h)
  PROVE  CallsInv'
<1>1. /\ server[h] \in Servers /\ sector[h] \in Sectors /\ status[h] = "pending" /\ pc[h] = "reg"
      /\ \A d \in Servers, l \in Sectors : cbs[d][l] # h
  BY DEF ResolveRegister, CallsInv, CallInv
<1>2. /\ pc' = [pc EXCEPT ![h] = "enq"] /\ cbs' = [cbs EXCEPT ![server[h]][sector[h]] = h]
      /\ UNCHANGED <<phase, batch, running, status, server, sector, dest, result>>
  BY DEF ResolveRegister, RegisterCallback, sessionVars
<1>3. CallInv'
  BY <1>1, <1>2 DEF TypeOK, CallsInv, CallInv
<1>4. SessionInv'
  BY <1>1, <1>2 DEF TypeOK, CallsInv, SessionInv
<1>5. NoDanglingCallback'
  BY <1>1, <1>2, ClientAssumption DEF TypeOK, CallsInv, NoDanglingCallback
<1> QED
  BY <1>3, <1>4, <1>5 DEF CallsInv

\* A call that is accepted keeps its callback, if nobody has run it yet.
LEMMA CallsEnqueue ==
  ASSUME TypeOK, CallsInv, NEW h \in Calls, ResolveEnqueue(h)
  PROVE  CallsInv'
<1>1. /\ pc' = [pc EXCEPT ![h] = "out"] /\ result' = [result EXCEPT ![h] = TRUE] /\ pc[h] = "enq"
      /\ UNCHANGED <<phase, batch, running, cbs, status, server, sector, dest>>
  BY DEF ResolveEnqueue, Return, sessionVars
<1>2. CallInv'
  BY <1>1 DEF TypeOK, CallsInv, CallInv
<1>3. SessionInv'
  BY <1>1 DEF TypeOK, CallsInv, SessionInv
<1>4. NoDanglingCallback'
  BY <1>1, ClientAssumption DEF TypeOK, CallsInv, NoDanglingCallback
<1> QED
  BY <1>2, <1>3, <1>4 DEF CallsInv

\* A call that is refused is registered nowhere else than where it is erased.
LEMMA CallsRefused ==
  ASSUME TypeOK, CallsInv, NEW h \in Calls, ResolveRefused(h)
  PROVE  CallsInv'
<1>1. /\ server[h] \in Servers /\ sector[h] \in Sectors
      /\ \A d \in Servers, l \in Sectors : cbs[d][l] = h => d = server[h] /\ l = sector[h]
  BY ClientAssumption DEF TypeOK, ResolveRefused, CallsInv, CallInv, NoDanglingCallback
<1>2. /\ pc' = [pc EXCEPT ![h] = "out"] /\ result' = [result EXCEPT ![h] = FALSE]
      /\ cbs' = [cbs EXCEPT ![server[h]][sector[h]] = None]
      /\ UNCHANGED <<phase, batch, running, status, server, sector, dest>>
  BY DEF ResolveRefused, Rollback, Return, sessionVars
<1>3. CallInv'
  BY <1>1, <1>2, ClientAssumption DEF TypeOK, CallsInv, CallInv
<1>4. SessionInv'
  BY <1>1, <1>2 DEF TypeOK, CallsInv, SessionInv
<1>5. NoDanglingCallback'
  <2> SUFFICES ASSUME NEW c \in Servers, NEW k \in Sectors, cbs'[c][k] # None
               PROVE  LET g == cbs'[c][k] IN /\ server'[g] = c /\ sector'[g] = k /\ status'[g] = "pending"
                                             /\ pc'[g] = "enq" \/ result'[g] = TRUE
    BY DEF NoDanglingCallback
  <2>1. cbs'[c][k] = cbs[c][k] /\ cbs[c][k] \in Calls /\ cbs[c][k] # h
    BY <1>1, <1>2, ClientAssumption DEF TypeOK
  <2> QED
    BY <1>2, <2>1 DEF TypeOK, CallsInv, NoDanglingCallback
<1> QED
  BY <1>3, <1>4, <1>5 DEF CallsInv

\* A payload that is queued or dropped was in no table.
LEMMA CallsSend ==
  ASSUME TypeOK, CallsInv, NEW h \in Calls, SendEnqueue(h)
  PROVE  CallsInv'
<1>1. /\ server[h] \in Servers /\ status[h] = "pending" /\ pc[h] = "put"
      /\ \A d \in Servers, l \in Sectors : cbs[d][l] # h
  BY DEF SendEnqueue, CallsInv, CallInv
<1>2. /\ pc' = [pc EXCEPT ![h] = "out"] /\ \A g \in Calls : g # h => result'[g] = result[g]
      /\ status' = [status EXCEPT ![h] = "accepted"] \/ status' = [status EXCEPT ![h] = "full"]
      /\ UNCHANGED <<phase, batch, running, cbs, server, sector, dest>>
  BY DEF SendEnqueue, PutForward, Becomes, Return, sessionVars, TypeOK
<1>3. CallInv'
  BY <1>1, <1>2 DEF TypeOK, CallsInv, CallInv
<1>4. SessionInv'
  BY <1>1, <1>2 DEF TypeOK, CallsInv, SessionInv
<1>5. NoDanglingCallback'
  BY <1>1, <1>2, ClientAssumption DEF TypeOK, CallsInv, NoDanglingCallback
<1> QED
  BY <1>3, <1>4, <1>5 DEF CallsInv

\* The session thread between two sessions, claiming, draining and waiting.
LEMMA CallsPlain ==
  ASSUME TypeOK, CallsInv, NEW c \in Servers,
         \/ Connect(c) \/ ReceiveAck(c) \/ AutoClaim(c) \/ ClaimsDone(c) \/ Drain(c)
         \/ BatchDone(c) \/ RecvIdle(c) \/ ReceiveOther(c)
  PROVE  CallsInv'
<1>1. /\ UNCHANGED <<cbs, pc, result, status, server, sector, dest, running>>
      /\ \A d \in Servers : phase'[d] = "callback" => phase[d] = "callback"
      /\ \A d \in Servers : d # c => phase'[d] = phase[d] /\ batch'[d] = batch[d]
      /\ phase'[c] # "send" => batch'[c] = <<>>
  BY DEF Connect, ReceiveAck, AutoClaim, ClaimsDone, Drain, BatchDone, RecvIdle, ReceiveOther, callVars,
         TypeOK, CallsInv, SessionInv
<1>2. CallInv'
  BY <1>1 DEF CallsInv, CallInv
<1>3. SessionInv'
  BY <1>1 DEF CallsInv, SessionInv
<1>4. NoDanglingCallback'
  BY <1>1 DEF CallsInv, NoDanglingCallback
<1> QED
  BY <1>2, <1>3, <1>4 DEF CallsInv

\* A reply takes the callback out before it runs.
LEMMA CallsReply ==
  ASSUME TypeOK, CallsInv, NEW c \in Servers, NEW k \in Sectors, NEW p \in PeerIds \union {None},
         ReceiveReply(c, k, p)
  PROVE  CallsInv'
<1> DEFINE h == cbs[c][k]
<1>1. /\ cbs' = [cbs EXCEPT ![c][k] = None] /\ h \in Calls \union {None} /\ None \notin Calls
      /\ phase[c] = "recv" /\ UNCHANGED <<batch, pc, result, server, sector>>
  BY ClientAssumption DEF ReceiveReply, PopCallback, TypeOK
<1>2. h # None => /\ server[h] = c /\ sector[h] = k /\ status[h] = "pending"
                  /\ pc[h] \notin {"reg", "put"}
                  /\ \A d \in Servers, l \in Sectors : cbs[d][l] = h => d = c /\ l = k
  BY <1>1 DEF CallsInv, CallInv, NoDanglingCallback
<1>3. CASE h # None /\ p # None
  <2>1. /\ phase' = [phase EXCEPT ![c] = "callback"] /\ running' = [running EXCEPT ![c] = h]
        /\ dest' = [dest EXCEPT ![h] = p] /\ status' = [status EXCEPT ![h] = "answered"]
        /\ h \in Calls /\ p \in PeerIds
    BY <1>1, <1>3 DEF ReceiveReply, Becomes
  <2> HIDE DEF h
  <2>2. CallInv'
    BY <1>1, <1>2, <1>3, <2>1 DEF TypeOK, CallsInv, CallInv
  <2>3. SessionInv'
    BY <1>1, <1>2, <1>3, <2>1 DEF TypeOK, CallsInv, SessionInv
  <2>4. NoDanglingCallback'
    BY <1>1, <1>2, <1>3, <2>1 DEF TypeOK, CallsInv, NoDanglingCallback
  <2> QED
    BY <2>2, <2>3, <2>4 DEF CallsInv
<1>4. CASE ~(h # None /\ p # None)
  <2>1. /\ phase' = [phase EXCEPT ![c] = "drain"] /\ UNCHANGED <<running, dest>>
        /\ status' = IF h # None THEN [status EXCEPT ![h] = "unknown"] ELSE status
    BY <1>1, <1>4 DEF ReceiveReply
  <2> HIDE DEF h
  <2>2. CallInv'
    BY <1>1, <1>2, <2>1 DEF TypeOK, CallsInv, CallInv
  <2>3. SessionInv'
    BY <1>1, <1>2, <2>1 DEF TypeOK, CallsInv, SessionInv
  <2>4. NoDanglingCallback'
    BY <1>1, <1>2, <2>1 DEF TypeOK, CallsInv, NoDanglingCallback
  <2> QED
    BY <2>2, <2>3, <2>4 DEF CallsInv
<1> QED
  BY <1>3, <1>4

\* What the callback sends is in no table any more.
LEMMA CallsCallback ==
  ASSUME TypeOK, CallsInv, NEW c \in Servers, CallbackSends(c)
  PROVE  CallsInv'
<1> DEFINE h == running[c]
<1>1. /\ h \in Calls /\ status[h] = "answered" /\ server[h] = c /\ phase[c] = "callback"
      /\ \A d \in Servers, l \in Sectors : cbs[d][l] # h
      /\ pc[h] \notin {"reg", "put"}
  BY Unregistered DEF CallbackSends, CallsInv, SessionInv, CallInv
<1>2. /\ phase' = [phase EXCEPT ![c] = "drain"] /\ running' = [running EXCEPT ![c] = None]
      /\ status' = [status EXCEPT ![h] = "accepted"] \/ status' = [status EXCEPT ![h] = "full"]
      /\ UNCHANGED <<batch, cbs, pc, result, server, sector, dest>>
  BY DEF CallbackSends, PutForward, Becomes
<1> HIDE DEF h
<1>3. CallInv'
  BY <1>1, <1>2 DEF TypeOK, CallsInv, CallInv
<1>4. SessionInv'
  BY <1>1, <1>2 DEF TypeOK, CallsInv, SessionInv
<1>5. NoDanglingCallback'
  BY <1>1, <1>2, ClientAssumption DEF TypeOK, CallsInv, NoDanglingCallback
<1> QED
  BY <1>3, <1>4, <1>5 DEF CallsInv

\* What is written or lost was accepted, so its callback had run.
LEMMA CallsFront ==
  ASSUME TypeOK, CallsInv, FramesAreMine, NEW c \in Servers, SendFront(c)
  PROVE  CallsInv'
<1> DEFINE f == Head(batch[c])
<1>1. /\ batch[c] \in Seq(QueueFrames) /\ batch[c] # <<>> /\ phase[c] = "send"
      /\ UNCHANGED <<phase, running, cbs, pc, result, server, sector, dest>>
      /\ status' = IF f.kind = "forward" THEN [status EXCEPT ![f.payload] = "sent"] ELSE status
      /\ \A d \in Servers : d # c => batch'[d] = batch[d]
  BY DEF SendFront, TypeOK
<1>2. f = batch[c][1] /\ 1 \in 1..Len(batch[c])
  BY <1>1, Shortened
<1>3. f.kind = "forward" => f.payload \in Calls /\ status[f.payload] = "accepted"
  BY <1>2 DEF FramesAreMine, Mine
<1> HIDE DEF f
<1>4. CallInv'
  BY <1>1, <1>3 DEF TypeOK, CallsInv, CallInv
<1>5. SessionInv'
  BY <1>1, <1>3 DEF TypeOK, CallsInv, SessionInv
<1>6. NoDanglingCallback'
  BY <1>1, <1>3, ClientAssumption DEF TypeOK, CallsInv, NoDanglingCallback
<1> QED
  BY <1>4, <1>5, <1>6 DEF CallsInv

\* The calls whose payload goes down with the batch of a session.
LEMMA LostWithBatch ==
  ASSUME FramesAreMine, NEW c \in Servers, NEW h \in Calls
  PROVE  /\ (\E i \in 1..Len(batch[c]) : batch[c][i] = ForwardFrame(dest[h], h)) =>
              /\ \E i \in 1..Len(batch[c]) : Carries(batch[c][i], h)
              /\ status[h] = "accepted" /\ server[h] = c
         /\ (\E i \in 1..Len(batch[c]) : Carries(batch[c][i], h)) =>
              \E i \in 1..Len(batch[c]) : batch[c][i] = ForwardFrame(dest[h], h)
<1>1. \A i \in 1..Len(batch[c]) : Mine(c, batch[c][i])
  BY DEF FramesAreMine
<1>2. ForwardFrame(dest[h], h).kind = "forward" /\ ForwardFrame(dest[h], h).payload = h
  BY DEF ForwardFrame
<1> QED
  BY <1>1, <1>2 DEF Mine, Carries

LEMMA CallsEnd ==
  ASSUME TypeOK, CallsInv, FramesAreMine, NEW c \in Servers, SessionEnds(c)
  PROVE  CallsInv'
<1>1. /\ phase' = [phase EXCEPT ![c] = "down"] /\ batch' = [batch EXCEPT ![c] = <<>>]
      /\ UNCHANGED <<running, cbs, pc, result, server, sector, dest>>
      /\ phase[c] # "callback"
  BY DEF SessionEnds
<1>2. \A h \in Calls : status'[h] = status[h] \/ (status[h] = "accepted" /\ status'[h] = "lost")
  BY LostWithBatch DEF SessionEnds, BatchLost
<1>3. CallInv'
  BY <1>1, <1>2 DEF TypeOK, CallsInv, CallInv
<1>4. SessionInv'
  BY <1>1, <1>2 DEF TypeOK, CallsInv, SessionInv
<1>5. NoDanglingCallback'
  BY <1>1, <1>2, ClientAssumption DEF TypeOK, CallsInv, NoDanglingCallback
<1> QED
  BY <1>3, <1>4, <1>5 DEF CallsInv

-----------------------------------------------------------------------------
(* Frames.                                                                  *)

LEMMA FramesInit == Init => FrameInv
BY DEF Init, FrameInv, FramesAreMine, FramesApart, AcceptedCarried

\* The frames stay as good as they are while no call changes that has one.
LEMMA FramesKept ==
  ASSUME TypeOK, FrameInv, UNCHANGED <<queue, batch>>,
         \A h \in Calls : status[h] = "accepted" => /\ status'[h] = "accepted"
                                                    /\ server'[h] = server[h] /\ dest'[h] = dest[h],
         \A h \in Calls : status'[h] = "accepted" => status[h] = "accepted"
  PROVE  FrameInv'
<1>1. FramesAreMine'
  BY DEF FrameInv, FramesAreMine, Mine
<1>2. FramesApart'
  BY DEF FrameInv, FramesApart
<1>3. AcceptedCarried'
  BY DEF FrameInv, AcceptedCarried
<1> QED
  BY <1>1, <1>2, <1>3 DEF FrameInv

\* A frame that is no forward changes nothing.
LEMMA FramesOther ==
  ASSUME TypeOK, FrameInv, NEW c \in Servers, NEW f \in QueueFrames, f.kind # "forward",
         HasRoom(c), Enqueue(c, f), UNCHANGED <<batch, status, server, dest>>
  PROVE  FrameInv'
<1>1. /\ queue'[c] = Append(queue[c], f) /\ \A d \in Servers \ {c} : queue'[d] = queue[d]
      /\ queue[c] \in Seq(QueueFrames)
  BY Enqueued DEF TypeOK
<1>2. /\ Len(queue[c]) \in Nat /\ Len(queue'[c]) = Len(queue[c]) + 1
      /\ \A i \in 1..Len(queue[c]) : queue'[c][i] = queue[c][i]
      /\ queue'[c][Len(queue[c]) + 1] = f
  BY <1>1, Appended
<1>3. \A i \in 1..Len(queue'[c]) : i \in 1..Len(queue[c]) \/ queue'[c][i] = f
  BY <1>2
<1>4. FramesAreMine'
  <2>1. /\ \A d \in Servers : \A i \in 1..Len(queue[d]) : Mine(d, queue[d][i])
        /\ \A d \in Servers : \A i \in 1..Len(batch[d]) : Mine(d, batch[d][i])
    BY DEF FrameInv, FramesAreMine
  <2>2. Mine(c, f)
    BY DEF Mine
  <2>3. \A d, x : Mine(d, x)' <=> Mine(d, x)
    BY Zenon DEF Mine
  <2>4. ASSUME NEW d \in Servers, NEW i \in 1..Len(queue'[d]) PROVE Mine(d, queue'[d][i])
    <3>1. CASE d = c
      BY <1>2, <1>3, <2>1, <2>2, <2>4, <3>1
    <3>2. CASE d # c
      BY <1>1, <2>1, <2>4, <3>2
    <3> QED
      BY <3>1, <3>2
  <2> SUFFICES ASSUME NEW d \in Servers
               PROVE  /\ (\A i \in 1..Len(queue[d]) : Mine(d, queue[d][i]))'
                      /\ (\A i \in 1..Len(batch[d]) : Mine(d, batch[d][i]))'
    BY DEF FramesAreMine
  <2> QED
    BY <2>1, <2>3, <2>4
<1>5. FramesApart'
  <2> SUFFICES ASSUME NEW d \in Servers, NEW h \in Calls
               PROVE  /\ \A i, j \in 1..Len(queue'[d]) : Carries(queue'[d][i], h) /\ Carries(queue'[d][j], h) => i = j
                      /\ \A i, j \in 1..Len(batch[d]) : Carries(batch[d][i], h) /\ Carries(batch[d][j], h) => i = j
                      /\ \A i \in 1..Len(queue'[d]), j \in 1..Len(batch[d]) :
                           ~(Carries(queue'[d][i], h) /\ Carries(batch[d][j], h))
    BY DEF FramesApart
  <2>1. \A i \in 1..Len(queue'[d]) : Carries(queue'[d][i], h) =>
          i \in 1..Len(queue[d]) /\ Carries(queue[d][i], h)
    <3>1. CASE d = c
      BY <1>2, <1>3, <3>1 DEF Carries
    <3>2. CASE d # c
      BY <1>1, <3>2
    <3> QED
      BY <3>1, <3>2
  <2> QED
    BY <2>1 DEF FrameInv, FramesApart
<1>6. AcceptedCarried'
  <2>1. \A i \in 1..Len(queue[c]) : i \in 1..Len(queue'[c])
    BY <1>2
  <2> QED
    BY <1>1, <1>2, <2>1 DEF FrameInv, AcceptedCarried
<1> QED
  BY <1>4, <1>5, <1>6 DEF FrameInv

\* SendTo puts the one frame of a payload that had none, or drops it.
LEMMA FramesPut ==
  ASSUME TypeOK, FrameInv, NEW h \in Calls, server[h] \in Servers, dest[h] \in PeerIds,
         status[h] # "accepted", PutForward(h), UNCHANGED <<batch, server, dest>>
  PROVE  FrameInv'
<1> DEFINE c == server[h]
           f == ForwardFrame(dest[h], h)
<1>1. CASE ~HasRoom(c)
  <2>1. UNCHANGED queue /\ status' = [status EXCEPT ![h] = "full"]
    BY <1>1 DEF PutForward, Becomes
  <2> QED
    BY <2>1, FramesKept DEF TypeOK
<1>2. CASE HasRoom(c)
  <2>0. f \in QueueFrames /\ f.kind = "forward" /\ f.payload = h /\ f = ForwardFrame(dest[h], h) /\ c \in Servers
    BY Kinds
  <2>1. Enqueue(c, f) /\ status' = [status EXCEPT ![h] = "accepted"]
    BY <1>2 DEF PutForward, Becomes
  <2>2. /\ queue'[c] = Append(queue[c], f) /\ \A d \in Servers \ {c} : queue'[d] = queue[d]
        /\ queue[c] \in Seq(QueueFrames)
    BY <1>2, <2>0, <2>1, Enqueued DEF TypeOK
  <2>3. /\ Len(queue[c]) \in Nat /\ Len(queue'[c]) = Len(queue[c]) + 1
        /\ \A i \in 1..Len(queue[c]) : queue'[c][i] = queue[c][i]
        /\ queue'[c][Len(queue[c]) + 1] = f
    BY <2>0, <2>2, Appended
  <2>4. \A i \in 1..Len(queue'[c]) : i \in 1..Len(queue[c]) \/ (i = Len(queue[c]) + 1 /\ queue'[c][i] = f)
    BY <2>3
  <2>5. \A d \in Servers : /\ \A i \in 1..Len(queue[d]) : ~Carries(queue[d][i], h)
                           /\ \A i \in 1..Len(batch[d]) : ~Carries(batch[d][i], h)
    BY DEF FrameInv, FramesAreMine, Mine, Carries
  <2>6. \A g \in Calls : g # h => status'[g] = status[g]
    BY <2>1 DEF TypeOK
  <2>7. status'[h] = "accepted" /\ server[h] = c
    BY <2>1 DEF TypeOK
  <2> HIDE DEF c, f
  <2>8. FramesAreMine'
    <3> DEFINE Now(d, g) == g.kind = "forward" =>
                 /\ g.payload \in Calls
                 /\ server[g.payload] = d /\ status'[g.payload] = "accepted"
                 /\ g = ForwardFrame(dest[g.payload], g.payload)
    <3>1. ASSUME NEW d \in Servers, NEW g, Mine(d, g), ~Carries(g, h)
          PROVE  Now(d, g)
      BY <2>6, <3>1 DEF Mine, Carries
    <3>2. ASSUME NEW d \in Servers, NEW i \in 1..Len(queue[d])
          PROVE  Mine(d, queue[d][i]) /\ ~Carries(queue[d][i], h)
      BY <2>5 DEF FrameInv, FramesAreMine
    <3>3. ASSUME NEW d \in Servers, NEW i \in 1..Len(batch[d])
          PROVE  Mine(d, batch[d][i]) /\ ~Carries(batch[d][i], h)
      BY <2>5 DEF FrameInv, FramesAreMine
    <3>4. Now(c, f)
      BY <2>0, <2>7 DEF Mine
    <3> HIDE DEF Now
    <3>5. ASSUME NEW d \in Servers, NEW i \in 1..Len(queue'[d])
          PROVE  Now(d, queue'[d][i])
      <4>1. CASE d # c
        BY <2>2, <3>1, <3>2, <4>1
      <4>2. CASE d = c /\ i \in 1..Len(queue[c])
        BY <2>3, <3>1, <3>2, <4>2
      <4>3. CASE d = c /\ i \notin 1..Len(queue[c])
        BY <2>4, <3>4, <4>3
      <4> QED
        BY <4>1, <4>2, <4>3
    <3>6. ASSUME NEW d \in Servers, NEW i \in 1..Len(batch[d])
          PROVE  Now(d, batch[d][i])
      BY <3>1, <3>3
    <3> QED
      BY <3>5, <3>6 DEF FramesAreMine, Mine, Now
  <2>9. FramesApart'
    <3> SUFFICES ASSUME NEW d \in Servers, NEW g \in Calls
                 PROVE  /\ \A i, j \in 1..Len(queue'[d]) : Carries(queue'[d][i], g) /\ Carries(queue'[d][j], g) => i = j
                        /\ \A i, j \in 1..Len(batch[d]) : Carries(batch[d][i], g) /\ Carries(batch[d][j], g) => i = j
                        /\ \A i \in 1..Len(queue'[d]), j \in 1..Len(batch[d]) :
                             ~(Carries(queue'[d][i], g) /\ Carries(batch[d][j], g))
      BY DEF FramesApart
    <3>1. /\ \A i, j \in 1..Len(queue[d]) : Carries(queue[d][i], g) /\ Carries(queue[d][j], g) => i = j
          /\ \A i, j \in 1..Len(batch[d]) : Carries(batch[d][i], g) /\ Carries(batch[d][j], g) => i = j
          /\ \A i \in 1..Len(queue[d]), j \in 1..Len(batch[d]) :
               ~(Carries(queue[d][i], g) /\ Carries(batch[d][j], g))
      BY DEF FrameInv, FramesApart
    <3>2. CASE d # c
      BY <2>2, <3>1, <3>2
    <3>3. CASE d = c /\ g # h
      <4>1. \A i \in 1..Len(queue'[c]) : Carries(queue'[c][i], g) =>
              i \in 1..Len(queue[c]) /\ Carries(queue[c][i], g)
        BY <2>0, <2>3, <2>4, <3>3 DEF Carries
      <4> QED
        BY <3>1, <3>3, <4>1
    <3>4. CASE d = c /\ g = h
      <4>1. \A i \in 1..Len(queue'[c]) : Carries(queue'[c][i], g) => i = Len(queue[c]) + 1
        BY <2>3, <2>4, <2>5, <3>4
      <4>2. \A j \in 1..Len(batch[c]) : ~Carries(batch[c][j], g)
        BY <2>5, <3>4
      <4> QED
        BY <3>4, <4>1, <4>2
    <3> QED
      BY <3>2, <3>3, <3>4
  <2>10. AcceptedCarried'
    <3> SUFFICES ASSUME NEW g \in Calls, status'[g] = "accepted"
                 PROVE  /\ server[g] \in Servers
                        /\ \/ \E i \in 1..Len(queue'[server[g]]) : Carries(queue'[server[g]][i], g)
                           \/ \E i \in 1..Len(batch[server[g]]) : Carries(batch[server[g]][i], g)
      BY DEF AcceptedCarried
    <3>1. CASE g = h
      <4>1. Len(queue[c]) + 1 \in 1..Len(queue'[c])
        BY <2>3
      <4> QED
        BY <2>0, <2>3, <2>7, <3>1, <4>1 DEF Carries
    <3>2. CASE g # h
      <4>1. status[g] = "accepted"
        BY <2>6, <3>2
      <4>2. \A i \in 1..Len(queue[c]) : i \in 1..Len(queue'[c])
        BY <2>3
      <4> QED
        BY <2>2, <2>3, <4>1, <4>2 DEF FrameInv, AcceptedCarried
    <3> QED
      BY <3>1, <3>2
  <2> QED
    BY <2>8, <2>9, <2>10 DEF FrameInv
<1> QED
  BY <1>1, <1>2

\* batch.swap(g_queue), with an empty batch.
LEMMA FramesDrain ==
  ASSUME TypeOK, SessionInv, FrameInv, NEW c \in Servers, Drain(c)
  PROVE  FrameInv'
<1>1. batch[c] = <<>> /\ Len(<<>>) = 0 /\ 1..0 = {}
  BY DEF Drain, SessionInv
<1>2. /\ batch'[c] = queue[c] /\ queue'[c] = <<>>
      /\ \A d \in Servers \ {c} : batch'[d] = batch[d] /\ queue'[d] = queue[d]
      /\ UNCHANGED <<status, server, dest>>
  BY DEF Drain, Taken, Emptied, TypeOK, callVars
<1>3. FramesAreMine'
  BY <1>1, <1>2, SMTT(60) DEF FrameInv, FramesAreMine, Mine
<1>4. FramesApart'
  BY <1>1, <1>2, SMTT(60) DEF FrameInv, FramesApart
<1>5. AcceptedCarried'
  BY <1>1, <1>2 DEF FrameInv, AcceptedCarried
<1> QED
  BY <1>3, <1>4, <1>5 DEF FrameInv

\* The front of the batch is written, and its payload is in no other frame.
LEMMA FramesFront ==
  ASSUME TypeOK, FrameInv, NEW c \in Servers, SendFront(c)
  PROVE  FrameInv'
<1> DEFINE f == Head(batch[c])
<1>1. /\ batch[c] \in Seq(QueueFrames) /\ batch[c] # <<>>
      /\ UNCHANGED <<queue, server, dest>>
      /\ status' = IF f.kind = "forward" THEN [status EXCEPT ![f.payload] = "sent"] ELSE status
      /\ batch'[c] = Tail(batch[c]) /\ \A d \in Servers : d # c => batch'[d] = batch[d]
  BY DEF SendFront, TypeOK
<1>2. /\ f = batch[c][1] /\ 1 \in 1..Len(batch[c])
      /\ Len(batch[c]) \in Nat /\ Len(batch'[c]) = Len(batch[c]) - 1
      /\ \A i \in 1..Len(batch'[c]) : batch'[c][i] = batch[c][i + 1] /\ i + 1 \in 1..Len(batch[c]) /\ i + 1 # 1
  BY <1>1, Shortened
<1>3. f.kind = "forward" => f.payload \in Calls /\ status[f.payload] = "accepted" /\ server[f.payload] = c
  BY <1>2 DEF FrameInv, FramesAreMine, Mine
<1>4. \A h \in Calls : status'[h] = IF Carries(f, h) THEN "sent" ELSE status[h]
  BY <1>1, <1>3 DEF Carries, TypeOK
<1>5. \A h \in Calls : Carries(f, h) =>
        /\ server[h] = c
        /\ \A d \in Servers : \A i \in 1..Len(queue[d]) : ~Carries(queue[d][i], h)
        /\ \A d \in Servers : \A i \in 1..Len(batch'[d]) : ~Carries(batch'[d][i], h)
  <2> SUFFICES ASSUME NEW h \in Calls, Carries(f, h)
               PROVE  /\ server[h] = c
                      /\ \A d \in Servers : \A i \in 1..Len(queue[d]) : ~Carries(queue[d][i], h)
                      /\ \A d \in Servers : \A i \in 1..Len(batch'[d]) : ~Carries(batch'[d][i], h)
    OBVIOUS
  <2>1. server[h] = c
    BY <1>3 DEF Carries
  <2>2. \A d \in Servers : \A i \in 1..Len(queue[d]) : ~Carries(queue[d][i], h)
    <3>1. \A i \in 1..Len(queue[c]) : ~Carries(queue[c][i], h)
      BY <1>2 DEF FrameInv, FramesApart
    <3> QED
      BY <2>1, <3>1 DEF FrameInv, FramesAreMine, Mine, Carries
  <2>3. \A d \in Servers : \A i \in 1..Len(batch'[d]) : ~Carries(batch'[d][i], h)
    <3>1. \A i \in 1..Len(batch'[c]) : ~Carries(batch'[c][i], h)
      BY <1>2, SMTT(60) DEF FrameInv, FramesApart
    <3>2. ASSUME NEW d \in Servers, d # c, NEW i \in 1..Len(batch[d])
          PROVE  ~Carries(batch[d][i], h)
      BY <2>1, <3>2 DEF FrameInv, FramesAreMine, Mine, Carries
    <3> QED
      BY <1>1, <3>1, <3>2
  <2> QED
    BY <2>1, <2>2, <2>3
<1> HIDE DEF f
<1>6. FramesAreMine'
  <2>1. \A d \in Servers : /\ \A i \in 1..Len(queue[d]) : Mine(d, queue[d][i])
                           /\ \A i \in 1..Len(batch'[d]) : Mine(d, batch'[d][i])
    BY <1>1, <1>2 DEF FrameInv, FramesAreMine
  <2>2. \A d \in Servers : /\ \A i \in 1..Len(queue[d]) :
                                queue[d][i].kind = "forward" =>
                                  /\ queue[d][i].payload \in Calls
                                  /\ server[queue[d][i].payload] = d /\ status'[queue[d][i].payload] = "accepted"
                                  /\ queue[d][i] = ForwardFrame(dest[queue[d][i].payload], queue[d][i].payload)
                           /\ \A i \in 1..Len(batch'[d]) :
                                batch'[d][i].kind = "forward" =>
                                  /\ batch'[d][i].payload \in Calls
                                  /\ server[batch'[d][i].payload] = d /\ status'[batch'[d][i].payload] = "accepted"
                                  /\ batch'[d][i] = ForwardFrame(dest[batch'[d][i].payload], batch'[d][i].payload)
    BY <1>1, <1>4, <1>5, <2>1 DEF Mine, Carries
  <2> QED
    BY <1>1, <2>2 DEF FramesAreMine, Mine
<1>7. FramesApart'
  <2> SUFFICES ASSUME NEW d \in Servers, NEW h \in Calls
               PROVE  /\ \A i, j \in 1..Len(queue[d]) : Carries(queue[d][i], h) /\ Carries(queue[d][j], h) => i = j
                      /\ \A i, j \in 1..Len(batch'[d]) : Carries(batch'[d][i], h) /\ Carries(batch'[d][j], h) => i = j
                      /\ \A i \in 1..Len(queue[d]), j \in 1..Len(batch'[d]) :
                           ~(Carries(queue[d][i], h) /\ Carries(batch'[d][j], h))
    BY <1>1 DEF FramesApart
  <2>1. /\ \A i, j \in 1..Len(queue[d]) : Carries(queue[d][i], h) /\ Carries(queue[d][j], h) => i = j
        /\ \A i, j \in 1..Len(batch[d]) : Carries(batch[d][i], h) /\ Carries(batch[d][j], h) => i = j
        /\ \A i \in 1..Len(queue[d]), j \in 1..Len(batch[d]) :
             ~(Carries(queue[d][i], h) /\ Carries(batch[d][j], h))
    BY DEF FrameInv, FramesApart
  <2>2. CASE d # c
    BY <1>1, <2>1, <2>2
  <2>3. CASE d = c
    <3>1. \A i, j \in 1..Len(batch'[c]) : i + 1 = j + 1 => i = j
      BY <1>2
    <3>2. \A i, j \in 1..Len(batch'[c]) : Carries(batch'[c][i], h) /\ Carries(batch'[c][j], h) => i = j
      BY <1>2, <2>1, <2>3, <3>1
    <3> QED
      BY <1>2, <2>1, <2>3, <3>2, ZenonT(60)
  <2> QED
    BY <2>2, <2>3
<1>8. AcceptedCarried'
  <2> SUFFICES ASSUME NEW h \in Calls, status'[h] = "accepted"
               PROVE  /\ server[h] \in Servers
                      /\ \/ \E i \in 1..Len(queue[server[h]]) : Carries(queue[server[h]][i], h)
                         \/ \E i \in 1..Len(batch'[server[h]]) : Carries(batch'[server[h]][i], h)
    BY <1>1 DEF AcceptedCarried
  <2>1. status[h] = "accepted" /\ ~Carries(f, h)
    BY <1>4
  <2>2. \A i \in 1..Len(batch[c]) : i # 1 => i - 1 \in 1..Len(batch'[c]) /\ batch'[c][i - 1] = batch[c][i]
    <3> SUFFICES ASSUME NEW i \in 1..Len(batch[c]), i # 1
                 PROVE  i - 1 \in 1..Len(batch'[c]) /\ batch'[c][i - 1] = batch[c][i]
      OBVIOUS
    <3>1. i - 1 \in 1..Len(batch'[c]) /\ (i - 1) + 1 = i
      BY <1>2
    <3> QED
      BY <1>2, <3>1
  <2> QED
    <3>1. /\ server[h] \in Servers
          /\ \/ \E i \in 1..Len(queue[server[h]]) : Carries(queue[server[h]][i], h)
             \/ \E i \in 1..Len(batch[server[h]]) : Carries(batch[server[h]][i], h)
      BY <2>1 DEF FrameInv, AcceptedCarried
    <3>2. CASE server[h] # c
      BY <1>1, <3>1, <3>2
    <3>3. ASSUME NEW i \in 1..Len(batch[c]), Carries(batch[c][i], h)
          PROVE  \E j \in 1..Len(batch'[c]) : Carries(batch'[c][j], h)
      <4>1. i # 1
        BY <1>2, <2>1, <3>3
      <4> QED
        BY <2>2, <3>3, <4>1
    <3> QED
      BY <3>1, <3>2, <3>3
<1> QED
  BY <1>6, <1>7, <1>8 DEF FrameInv

\* A session that ends takes its batch and nothing else.
LEMMA FramesEnd ==
  ASSUME TypeOK, FrameInv, NEW c \in Servers, SessionEnds(c)
  PROVE  FrameInv'
<1>1. /\ batch'[c] = <<>> /\ Len(<<>>) = 0 /\ \A d \in Servers : d # c => batch'[d] = batch[d]
      /\ UNCHANGED <<queue, server, dest>>
  BY DEF SessionEnds, TypeOK
<1>2. \A h \in Calls : status'[h] = IF \E i \in 1..Len(batch[c]) : Carries(batch[c][i], h)
                                   THEN "lost" ELSE status[h]
  BY LostWithBatch DEF SessionEnds, BatchLost, FrameInv
<1>3. \A h \in Calls : (\E i \in 1..Len(batch[c]) : Carries(batch[c][i], h)) =>
        /\ server[h] = c
        /\ \A d \in Servers : \A i \in 1..Len(queue[d]) : ~Carries(queue[d][i], h)
        /\ \A d \in Servers : \A i \in 1..Len(batch'[d]) : ~Carries(batch'[d][i], h)
  <2> SUFFICES ASSUME NEW h \in Calls, NEW j \in 1..Len(batch[c]), Carries(batch[c][j], h)
               PROVE  /\ server[h] = c
                      /\ \A d \in Servers : \A i \in 1..Len(queue[d]) : ~Carries(queue[d][i], h)
                      /\ \A d \in Servers : \A i \in 1..Len(batch'[d]) : ~Carries(batch'[d][i], h)
    OBVIOUS
  <2>1. server[h] = c
    BY DEF FrameInv, FramesAreMine, Mine, Carries
  <2>2. \A i \in 1..Len(queue[c]) : ~Carries(queue[c][i], h)
    BY DEF FrameInv, FramesApart
  <2> QED
    BY <1>1, <2>1, <2>2, SMTT(60) DEF FrameInv, FramesAreMine, Mine, Carries
<1>4. FramesAreMine'
  BY <1>1, <1>2, <1>3, SMTT(60) DEF FrameInv, FramesAreMine, Mine, Carries
<1>5. FramesApart'
  BY <1>1 DEF FrameInv, FramesApart
<1>6. AcceptedCarried'
  BY <1>1, <1>2 DEF FrameInv, AcceptedCarried
<1> QED
  BY <1>4, <1>5, <1>6 DEF FrameInv

-----------------------------------------------------------------------------
(* The steps of both threads.                                               *)

LEMMA FramesEngine ==
  ASSUME TypeOK, CallsInv, FrameInv, NEW h \in Calls, Engine(h)
  PROVE  FrameInv'
<1>1. ASSUME NEW c \in Servers, NEW k \in Sectors, StartResolve(c, h, k)
      PROVE  FrameInv'
  BY <1>1, FramesKept DEF StartResolve, Begin, Becomes, sessionVars, TypeOK
<1>2. ASSUME NEW c \in Servers, NEW p \in PeerIds, StartSend(c, h, p)
      PROVE  FrameInv'
  BY <1>2, FramesKept DEF StartSend, Begin, Becomes, sessionVars, TypeOK
<1>3. CASE ResolveRegister(h)
  BY <1>3, FramesKept DEF ResolveRegister, sessionVars
<1>4. CASE ResolveEnqueue(h)
  <2>1. server[h] \in Servers /\ sector[h] \in Sectors
    BY <1>4 DEF ResolveEnqueue, CallsInv, CallInv
  <2> QED
    BY <1>4, <2>1, FramesOther, Kinds DEF ResolveEnqueue, sessionVars
<1>5. CASE ResolveRefused(h)
  BY <1>5, FramesKept DEF ResolveRefused, sessionVars
<1>6. CASE SendEnqueue(h)
  <2>1. server[h] \in Servers /\ dest[h] \in PeerIds /\ status[h] = "pending"
    BY <1>6 DEF SendEnqueue, CallsInv, CallInv
  <2> QED
    BY <1>6, <2>1, FramesPut DEF SendEnqueue, sessionVars
<1> QED
  BY <1>1, <1>2, <1>3, <1>4, <1>5, <1>6 DEF Engine

LEMMA FramesSession ==
  ASSUME TypeOK, CallsInv, FrameInv, NEW c \in Servers, Session(c)
  PROVE  FrameInv'
<1>1. CASE \/ Connect(c) \/ ReceiveAck(c) \/ ClaimsDone(c) \/ BatchDone(c) \/ RecvIdle(c) \/ ReceiveOther(c)
  BY <1>1, FramesKept DEF Connect, ReceiveAck, ClaimsDone, BatchDone, RecvIdle, ReceiveOther, callVars
<1>2. CASE AutoClaim(c)
  <2>1. CASE HasRoom(c)
    <3>1. Claims[c] \in Seq(Sectors) /\ claimed[c] \in Nat /\ claimed[c] < Len(Claims[c])
      BY <1>2, ClientAssumption DEF AutoClaim, TypeOK
    <3>2. Claims[c][claimed[c] + 1] \in Sectors
      BY <3>1
    <3> QED
      BY <1>2, <2>1, <3>2, FramesOther, Kinds DEF AutoClaim, callVars
  <2>2. CASE ~HasRoom(c)
    BY <1>2, <2>2, FramesKept DEF AutoClaim, callVars
  <2> QED
    BY <2>1, <2>2
<1>3. CASE Drain(c)
  BY <1>3, FramesDrain DEF CallsInv
<1>4. CASE SendFront(c)
  BY <1>4, FramesFront
<1>5. ASSUME NEW k \in Sectors, NEW p \in PeerIds \union {None}, ReceiveReply(c, k, p)
      PROVE  FrameInv'
  <2> DEFINE h == cbs[c][k]
  <2>1. h # None => h \in Calls /\ status[h] = "pending"
    BY DEF TypeOK, CallsInv, NoDanglingCallback
  <2>2. /\ UNCHANGED <<queue, batch, server>>
        /\ \A g \in Calls : g # h => status'[g] = status[g] /\ dest'[g] = dest[g]
        /\ h # None => status'[h] # "accepted"
    BY <1>5, <2>1 DEF ReceiveReply, Becomes, TypeOK
  <2>3. None \notin Calls
    BY ClientAssumption
  <2> HIDE DEF h
  <2>4. \A g \in Calls : status[g] = "accepted" => /\ status'[g] = "accepted"
                                                    /\ server'[g] = server[g] /\ dest'[g] = dest[g]
    BY <2>1, <2>2, <2>3
  <2>5. \A g \in Calls : status'[g] = "accepted" => status[g] = "accepted"
    BY <2>1, <2>2, <2>3
  <2> QED
    BY <2>2, <2>4, <2>5, FramesKept
<1>6. CASE CallbackSends(c)
  <2>1. /\ running[c] \in Calls /\ server[running[c]] = c /\ dest[running[c]] \in PeerIds
        /\ status[running[c]] = "answered"
    BY <1>6 DEF CallbackSends, CallsInv, SessionInv
  <2>2. PutForward(running[c]) /\ UNCHANGED <<batch, server, dest>>
    BY <1>6 DEF CallbackSends
  <2> QED
    BY <2>1, <2>2, FramesPut
<1>7. CASE SessionEnds(c)
  BY <1>7, FramesEnd
<1> QED
  BY <1>1, <1>2, <1>3, <1>4, <1>5, <1>6, <1>7 DEF Session

LEMMA CallsStep ==
  ASSUME TypeOK, CallsInv, FrameInv, Next
  PROVE  CallsInv'
<1>1. ASSUME NEW h \in Calls, Engine(h)
      PROVE  CallsInv'
  BY <1>1, CallsStartResolve, CallsStartSend, CallsRegister, CallsEnqueue, CallsRefused, CallsSend DEF Engine
<1>2. ASSUME NEW c \in Servers, Session(c)
      PROVE  CallsInv'
  BY <1>2, CallsPlain, CallsFront, CallsReply, CallsCallback, CallsEnd DEF Session, FrameInv
<1> QED
  BY <1>1, <1>2 DEF Next

LEMMA InvInit == Init => IInv
BY TypeInit, CallsInit, FramesInit DEF IInv, CallsInv

LEMMA InvStep == IInv /\ [Next]_vars => IInv'
<1>1. ASSUME IInv, Next PROVE IInv'
  <2>1. TypeOK /\ CallsInv /\ CallInv /\ SessionInv /\ FrameInv
    BY <1>1 DEF IInv, CallsInv
  <2>2. TypeOK'
    BY <1>1, <2>1, TypeEngine, TypeSession DEF Next
  <2>3. CallsInv'
    BY <1>1, <2>1, CallsStep
  <2>4. FrameInv'
    BY <1>1, <2>1, FramesEngine, FramesSession DEF Next
  <2> QED
    BY <2>2, <2>3, <2>4 DEF IInv, CallsInv
<1>2. ASSUME IInv, UNCHANGED vars PROVE IInv'
  <2>1. TypeOK' /\ CallInv' /\ SessionInv' /\ NoDanglingCallback'
    BY <1>2 DEF IInv, TypeOK, CallInv, SessionInv, NoDanglingCallback, vars
  <2>2. FrameInv'
    BY <1>2 DEF IInv, FrameInv, FramesAreMine, Mine, FramesApart, AcceptedCarried, vars
  <2> QED
    BY <2>1, <2>2 DEF IInv
<1> QED
  BY <1>1, <1>2

LEMMA Invariance == Spec => []IInv
BY InvInit, InvStep, PTL DEF Spec

-----------------------------------------------------------------------------
\* TypeOK: the variables have their types and g_queue stays within kSendQueueMax.
THEOREM ClientTypes == Spec => []TypeOK
<1>1. IInv => TypeOK
  BY DEF IInv
<1> QED
  BY <1>1, Invariance, PTL

\* NoDanglingCallback: a reply never runs the callback of a call that has reported
\* a failure or whose callback has run before (ResolveSector, recvLoop).
THEOREM CallbacksNeverDangle == Spec => []NoDanglingCallback
<1>1. IInv => NoDanglingCallback
  BY DEF IInv
<1> QED
  BY <1>1, Invariance, PTL

\* OneForwardPerCall: between SendTo and the socket there is exactly one frame of a
\* payload that is accepted, and none of any other (SendTo, runSession).
THEOREM ForwardedOnce == Spec => []OneForwardPerCall
<1>1. IInv => OneForwardPerCall
  <2> SUFFICES ASSUME IInv, NEW c \in Servers, NEW h \in Calls
               PROVE  /\ \A i, j \in Copies(c, h) : i = j
                      /\ Copies(c, h) # {} <=> (status[h] = "accepted" /\ server[h] = c)
    BY DEF OneForwardPerCall
  <2> DEFINE q == queue[c]
             b == batch[c]
             s == q \o b
  <2>1. q \in Seq(QueueFrames) /\ b \in Seq(QueueFrames) /\ Len(q) \in Nat /\ Len(b) \in Nat
    BY DEF IInv, TypeOK
  <2> HIDE DEF q, b
  <2>2. /\ Len(s) = Len(q) + Len(b)
        /\ \A i \in 1..Len(q) + Len(b) : s[i] = IF i <= Len(q) THEN q[i] ELSE b[i - Len(q)]
    BY <2>1, ConcatProperties
  <2>3. /\ \A i \in 1..Len(q) : Mine(c, q[i])
        /\ \A i \in 1..Len(b) : Mine(c, b[i])
        /\ \A i, j \in 1..Len(q) : Carries(q[i], h) /\ Carries(q[j], h) => i = j
        /\ \A i, j \in 1..Len(b) : Carries(b[i], h) /\ Carries(b[j], h) => i = j
        /\ \A i \in 1..Len(q), j \in 1..Len(b) : ~(Carries(q[i], h) /\ Carries(b[j], h))
        /\ status[h] = "accepted" /\ server[h] = c =>
             (\E i \in 1..Len(q) : Carries(q[i], h)) \/ (\E i \in 1..Len(b) : Carries(b[i], h))
    BY DEF IInv, FrameInv, FramesAreMine, FramesApart, AcceptedCarried, q, b
  <2>4. \A f : Mine(c, f) => (f = ForwardFrame(dest[h], h) <=> Carries(f, h))
    BY DEF Mine, Carries, ForwardFrame
  <2>5. \A f : Mine(c, f) /\ Carries(f, h) => status[h] = "accepted" /\ server[h] = c
    BY DEF Mine, Carries
  <2>6. Copies(c, h) = {i \in 1..Len(s) : s[i] = ForwardFrame(dest[h], h)}
    BY DEF Copies, q, b
  <2> HIDE DEF s
  <2>7. \A i \in 1..Len(s) : \/ i \in 1..Len(q) /\ s[i] = q[i]
                             \/ i > Len(q) /\ i - Len(q) \in 1..Len(b) /\ s[i] = b[i - Len(q)]
    BY <2>1, <2>2
  <2>8. \A i \in Copies(c, h) : /\ i \in 1..Len(s)
                                /\ \/ i \in 1..Len(q) /\ Carries(q[i], h)
                                   \/ i > Len(q) /\ i - Len(q) \in 1..Len(b) /\ Carries(b[i - Len(q)], h)
    BY <2>3, <2>4, <2>6, <2>7
  <2>9. \A i, j \in Copies(c, h) : i = j
    <3> SUFFICES ASSUME NEW i \in Copies(c, h), NEW j \in Copies(c, h) PROVE i = j
      OBVIOUS
    <3>1. i \in Nat /\ j \in Nat
      BY <2>1, <2>2, <2>8
    <3>2. CASE i \in 1..Len(q) /\ Carries(q[i], h)
      BY <2>1, <2>3, <2>8, <3>1, <3>2
    <3>3. CASE i > Len(q) /\ i - Len(q) \in 1..Len(b) /\ Carries(b[i - Len(q)], h)
      <4>1. j > Len(q) /\ j - Len(q) \in 1..Len(b) /\ Carries(b[j - Len(q)], h)
        BY <2>3, <2>8, <3>3
      <4>2. i - Len(q) = j - Len(q)
        BY <2>3, <3>3, <4>1
      <4> QED
        BY <2>1, <3>1, <4>2
    <3> QED
      BY <2>8, <3>2, <3>3
  <2>10. Copies(c, h) # {} => status[h] = "accepted" /\ server[h] = c
    BY <2>3, <2>5, <2>8
  <2>11. status[h] = "accepted" /\ server[h] = c => Copies(c, h) # {}
    <3>1. ASSUME NEW i \in 1..Len(q), Carries(q[i], h) PROVE Copies(c, h) # {}
      <4>1. i \in 1..Len(s) /\ s[i] = q[i]
        BY <2>1, <2>2
      <4> QED
        BY <2>3, <2>4, <2>6, <3>1, <4>1
    <3>2. ASSUME NEW i \in 1..Len(b), Carries(b[i], h) PROVE Copies(c, h) # {}
      <4>1. Len(q) + i \in 1..Len(s) /\ s[Len(q) + i] = b[i]
        <5>1. Len(q) + i \in 1..Len(q) + Len(b) /\ ~(Len(q) + i <= Len(q)) /\ Len(q) + i - Len(q) = i
          BY <2>1
        <5> QED
          BY <2>2, <5>1
      <4> QED
        BY <2>3, <2>4, <2>6, <3>2, <4>1
    <3> QED
      BY <2>3, <3>1, <3>2
  <2> QED
    BY <2>9, <2>10, <2>11
<1> QED
  BY <1>1, Invariance, PTL
=============================================================================
