-------------------------- MODULE DispatcherClient --------------------------
(***************************************************************************)
(* The dispatcher client inside each game server's DLL                      *)
(* (hooks/dispatcher/dispatcher_client.cpp) with its callers: the engine    *)
(* thread runs SendTo and ResolveSector, which take the locks one by one;   *)
(* the session thread connects, claims the configured sectors, drains the   *)
(* send queue, receives frames and runs the resolve callbacks.              *)
(*                                                                         *)
(* A call stands for one payload on its way: a sector handoff, which        *)
(* ForwardToSector resolves first and sends from the callback, or a direct  *)
(* SendTo.  What the socket delivers is a parameter of the receiving        *)
(* actions: alone, this module talks to a daemon of which it only assumes   *)
(* that it answers a resolve frame once, in the session that sent it.       *)
(***************************************************************************)
EXTENDS Naturals, Sequences

CONSTANTS
  Servers,     \* game servers
  Calls,       \* calls of SendTo and ForwardToSector
  Sectors,     \* world_sector_id
  PeerIds,     \* peer ids a caller or a daemon may name
  Claims,      \* Config::sector_claims of each server
  QueueMax,    \* kSendQueueMax
  None

ASSUME ClientAssumption ==
  /\ QueueMax \in Nat \ {0}
  /\ Claims \in [Servers -> Seq(Sectors)]
  /\ None \notin Servers \union Calls \union Sectors \union PeerIds

VARIABLES
  phase,       \* where runSession stands
  sessionUp,   \* g_sessionUp
  claimed,     \* how many sector claims the session has gone through
  queue,       \* g_queue
  batch,       \* the swapped-out queue being written
  cbs,         \* g_resolveCbs: the call whose callback waits for a sector
  running,     \* the call whose callback the session thread runs
  asked,       \* resolve frames of this session the daemon has yet to answer
  pc,          \* where the engine thread is inside a call
  result,      \* what the call returned
  status,      \* what became of the call's payload
  server,      \* the server that made the call
  sector,      \* the sector a call resolves
  dest,        \* the peer a call sends to
  superseded   \* history: a later resolve of the same sector was accepted

sessionVars == <<phase, sessionUp, claimed, batch, running, asked>>
callVars    == <<pc, result, status, server, sector, dest, superseded>>
vars == <<phase, sessionUp, claimed, queue, batch, cbs, running, asked,
          pc, result, status, server, sector, dest, superseded>>

-----------------------------------------------------------------------------
Phases == {"down", "hello", "claims", "drain", "send", "recv", "callback"}

\* Inside ResolveSector, before it takes g_resolveMu ("reg") and before it
\* takes g_qMu ("enq"); inside SendTo, before it takes g_qMu ("put").
Places == {"out", "reg", "enq", "put"}

\* "pending": nothing has been sent for it yet; "answered": its callback runs;
\* "unknown": sector_unknown; "accepted": SendTo queued its forward; "full":
\* SendTo refused it; "sent": written to the socket; "lost": with its batch.
Statuses == {"idle", "pending", "answered", "unknown", "accepted", "full", "sent", "lost"}

ClaimFrame(k)      == [kind |-> "claim", sector |-> k]
ResolveFrame(k)    == [kind |-> "resolve", sector |-> k]
ForwardFrame(p, h) == [kind |-> "forward", to |-> p, payload |-> h]

QueueFrames ==
  [kind : {"claim", "resolve"}, sector : Sectors]
  \union [kind : {"forward"}, to : PeerIds, payload : Calls]

\* An operator called a Slip is a bug someone could write in place of the one
\* that follows it; nothing here uses it, it is there to show that the
\* properties would notice.
HasRoom(c) == Len(queue[c]) < QueueMax

Enqueue(c, f) == queue' = [queue EXCEPT ![c] = Append(@, f)]

Becomes(h, st) == status' = [status EXCEPT ![h] = st]

Init ==
  /\ phase      = [c \in Servers |-> "down"]
  /\ sessionUp  = [c \in Servers |-> FALSE]
  /\ claimed    = [c \in Servers |-> 0]
  /\ queue      = [c \in Servers |-> <<>>]
  /\ batch      = [c \in Servers |-> <<>>]
  /\ cbs        = [c \in Servers |-> [k \in Sectors |-> None]]
  /\ running    = [c \in Servers |-> None]
  /\ asked      = [c \in Servers |-> [k \in Sectors |-> 0]]
  /\ pc         = [h \in Calls |-> "out"]
  /\ result     = [h \in Calls |-> None]
  /\ status     = [h \in Calls |-> "idle"]
  /\ server     = [h \in Calls |-> None]
  /\ sector     = [h \in Calls |-> None]
  /\ dest       = [h \in Calls |-> None]
  /\ superseded = [h \in Calls |-> FALSE]

-----------------------------------------------------------------------------
(* The engine thread.                                                       *)

\* The engine thread of c is between two calls.
EngineFree(c) == \A h \in Calls : server[h] = c => pc[h] = "out"

\* A call begins: it looks at g_sessionUp without a lock and returns false when
\* the session is down.
Begin(c, h, place) ==
  /\ status[h] = "idle"
  /\ EngineFree(c)
  /\ server' = [server EXCEPT ![h] = c]
  /\ pc'     = [pc EXCEPT ![h] = IF sessionUp[c] THEN place ELSE "out"]
  /\ result' = [result EXCEPT ![h] = IF sessionUp[c] THEN None ELSE FALSE]
  /\ Becomes(h, "pending")

Return(h, ok) ==
  /\ pc'     = [pc EXCEPT ![h] = "out"]
  /\ result' = [result EXCEPT ![h] = ok]

\* ForwardToSector calls ResolveSector.
StartResolve(c, h, k) ==
  /\ Begin(c, h, "reg")
  /\ sector' = [sector EXCEPT ![h] = k]
  /\ UNCHANGED <<sessionVars, queue, cbs, dest, superseded>>

\* g_resolveCbs[sid] = cb: the most recent registration wins.
RegisterCallback(c, k, h) == [cbs EXCEPT ![c][k] = h]

\* Under g_resolveMu.
ResolveRegister(h) ==
  /\ pc[h] = "reg"
  /\ cbs' = RegisterCallback(server[h], sector[h], h)
  /\ pc'  = [pc EXCEPT ![h] = "enq"]
  /\ UNCHANGED <<sessionVars, queue, result, status, server, sector, dest, superseded>>

\* Under g_qMu.  The call supersedes the ones that still wait for the sector.
\* A reply to one of those may have run this call's callback already.
ResolveEnqueue(h) ==
  LET c == server[h] IN
  /\ pc[h] = "enq"
  /\ HasRoom(c)
  /\ Enqueue(c, ResolveFrame(sector[h]))
  /\ Return(h, TRUE)
  /\ superseded' = [g \in Calls |->
       superseded[g] \/ (g # h /\ status[g] = "pending" /\ server[g] = c /\ sector[g] = sector[h])]
  /\ UNCHANGED <<sessionVars, cbs, status, server, sector, dest>>

SlipNoRollback(c, k) == cbs

\* g_resolveCbs.erase(sid), whoever's callback was there before.
Rollback(c, k) == [cbs EXCEPT ![c][k] = None]

\* Under g_qMu and g_resolveMu: the queue is full.
ResolveRefused(h) ==
  /\ pc[h] = "enq"
  /\ ~HasRoom(server[h])
  /\ cbs' = Rollback(server[h], sector[h])
  /\ Return(h, FALSE)
  /\ UNCHANGED <<sessionVars, queue, status, server, sector, dest, superseded>>

\* SendTo from the engine thread (console sendTo, PostTo, TriggerSampleForward).
StartSend(c, h, p) ==
  /\ Begin(c, h, "put")
  /\ dest' = [dest EXCEPT ![h] = p]
  /\ UNCHANGED <<sessionVars, queue, cbs, sector, superseded>>

\* The rest of SendTo, under g_qMu: queued, or refused because it is full.
PutForward(h) ==
  IF HasRoom(server[h])
    THEN Enqueue(server[h], ForwardFrame(dest[h], h)) /\ Becomes(h, "accepted")
    ELSE UNCHANGED queue /\ Becomes(h, "full")

SendEnqueue(h) ==
  /\ pc[h] = "put"
  /\ PutForward(h)
  /\ Return(h, HasRoom(server[h]))
  /\ UNCHANGED <<sessionVars, cbs, server, sector, dest, superseded>>

-----------------------------------------------------------------------------
(* The session thread.                                                      *)

\* connectOnce succeeded and the hello is written.
Connect(c) ==
  /\ phase[c] = "down"
  /\ phase' = [phase EXCEPT ![c] = "hello"]
  /\ UNCHANGED <<sessionUp, asked, claimed, batch, running, queue, cbs, callVars>>

\* Whatever frame comes first is taken for the hello_ack.
ReceiveAck(c) ==
  /\ phase[c] = "hello"
  /\ phase'     = [phase EXCEPT ![c] = "claims"]
  /\ sessionUp' = [sessionUp EXCEPT ![c] = TRUE]
  /\ claimed'   = [claimed EXCEPT ![c] = 0]
  /\ UNCHANGED <<batch, asked, running, queue, cbs, callVars>>

\* One auto-claim, under g_qMu; silently skipped when the queue is full.
AutoClaim(c) ==
  /\ phase[c] = "claims"
  /\ claimed[c] < Len(Claims[c])
  /\ claimed' = [claimed EXCEPT ![c] = @ + 1]
  /\ IF HasRoom(c) THEN Enqueue(c, ClaimFrame(Claims[c][claimed[c] + 1]))
                   ELSE UNCHANGED queue
  /\ UNCHANGED <<phase, asked, sessionUp, batch, running, cbs, callVars>>

ClaimsDone(c) ==
  /\ phase[c] = "claims"
  /\ claimed[c] = Len(Claims[c])
  /\ phase' = [phase EXCEPT ![c] = "drain"]
  /\ UNCHANGED <<sessionUp, asked, claimed, batch, running, queue, cbs, callVars>>

SlipCopied(c) == queue
SlipClearedFirst(c) == <<>>

\* batch.swap(g_queue)
Emptied(c) == [queue EXCEPT ![c] = <<>>]
Taken(c) == queue[c]

\* Under g_qMu.
Drain(c) ==
  /\ phase[c] = "drain"
  /\ batch' = [batch EXCEPT ![c] = Taken(c)]
  /\ queue' = Emptied(c)
  /\ phase' = [phase EXCEPT ![c] = "send"]
  /\ UNCHANGED <<sessionUp, asked, claimed, running, cbs, callVars>>

\* sendFrame(batch.front()) succeeded.
SendFront(c) ==
  LET f == Head(batch[c]) IN
  /\ phase[c] = "send"
  /\ batch[c] # <<>>
  /\ batch'  = [batch EXCEPT ![c] = Tail(@)]
  /\ status' = IF f.kind = "forward" THEN [status EXCEPT ![f.payload] = "sent"] ELSE status
  /\ asked'  = IF f.kind = "resolve" THEN [asked EXCEPT ![c][f.sector] = @ + 1] ELSE asked
  /\ UNCHANGED <<phase, sessionUp, claimed, running, queue, cbs,
                 pc, result, server, sector, dest, superseded>>

\* Past the ping as well, whether its interval had elapsed and one was written
\* or not; a ping that fails is the SessionEnds of an empty batch.
BatchDone(c) ==
  /\ phase[c] = "send"
  /\ batch[c] = <<>>
  /\ phase' = [phase EXCEPT ![c] = "recv"]
  /\ UNCHANGED <<sessionUp, asked, claimed, batch, running, queue, cbs, callVars>>

\* select() timed out.
RecvIdle(c) ==
  /\ phase[c] = "recv"
  /\ phase' = [phase EXCEPT ![c] = "drain"]
  /\ UNCHANGED <<sessionUp, asked, claimed, batch, running, queue, cbs, callVars>>

\* pong, forward_error, sector_claimed, delivery, or a type it does not know:
\* nothing here changes (the delivery callback is the handoff receiver's).
ReceiveOther(c) ==
  /\ phase[c] = "recv"
  /\ phase' = [phase EXCEPT ![c] = "drain"]
  /\ UNCHANGED <<sessionUp, asked, claimed, batch, running, queue, cbs, callVars>>

\* The callback is moved out of g_resolveCbs, under g_resolveMu.
PopCallback(c, k) == [cbs EXCEPT ![c][k] = None]

\* sector_resolved (p is the owner) or sector_unknown (p is None) for sector k,
\* the daemon's one reply to a resolve frame of this session.
\* Its callback runs outside the lock; without a waiter there is only a log line.
ReceiveReply(c, k, p) ==
  LET h == cbs[c][k] IN
  /\ phase[c] = "recv"
  /\ asked[c][k] > 0
  /\ asked' = [asked EXCEPT ![c][k] = @ - 1]
  /\ cbs' = PopCallback(c, k)
  /\ IF h # None /\ p # None
       THEN /\ phase'   = [phase EXCEPT ![c] = "callback"]
            /\ running' = [running EXCEPT ![c] = h]
            /\ dest'    = [dest EXCEPT ![h] = p]
            /\ Becomes(h, "answered")
       ELSE /\ phase'   = [phase EXCEPT ![c] = "drain"]
            /\ status'  = IF h # None THEN [status EXCEPT ![h] = "unknown"] ELSE status
            /\ UNCHANGED <<running, dest>>
  /\ UNCHANGED <<sessionUp, claimed, batch, queue, pc, result, server, sector, superseded>>

\* The callback of ForwardToSector calls SendTo; g_sessionUp is true here.
CallbackSends(c) ==
  /\ phase[c] = "callback"
  /\ PutForward(running[c])
  /\ running' = [running EXCEPT ![c] = None]
  /\ phase'   = [phase EXCEPT ![c] = "drain"]
  /\ UNCHANGED <<sessionUp, asked, claimed, batch, cbs, pc, result, server, sector, dest, superseded>>

\* The rest of the batch goes down with the session that was writing it.
BatchLost(c) ==
  [h \in Calls |-> IF \E i \in 1..Len(batch[c]) : batch[c][i] = ForwardFrame(dest[h], h)
                     THEN "lost" ELSE status[h]]

\* connect, send or recv fails, or the 5 s socket timeouts strike: runSession
\* returns and RunForever sleeps.  g_queue and g_resolveCbs stay as they are.
SessionEnds(c) ==
  /\ phase[c] \in {"hello", "send", "recv"}
  /\ phase'     = [phase EXCEPT ![c] = "down"]
  /\ sessionUp' = [sessionUp EXCEPT ![c] = FALSE]
  /\ status'    = BatchLost(c)
  /\ batch'     = [batch EXCEPT ![c] = <<>>]
  /\ asked'     = [asked EXCEPT ![c] = [k \in Sectors |-> 0]]
  /\ UNCHANGED <<claimed, running, queue, cbs, pc, result, server, sector, dest, superseded>>

-----------------------------------------------------------------------------
Engine(h) ==
  \/ \E c \in Servers, k \in Sectors : StartResolve(c, h, k)
  \/ \E c \in Servers, p \in PeerIds : StartSend(c, h, p)
  \/ ResolveRegister(h)
  \/ ResolveEnqueue(h)
  \/ ResolveRefused(h)
  \/ SendEnqueue(h)

Session(c) ==
  \/ Connect(c)
  \/ ReceiveAck(c)
  \/ AutoClaim(c)
  \/ ClaimsDone(c)
  \/ Drain(c)
  \/ SendFront(c)
  \/ BatchDone(c)
  \/ RecvIdle(c)
  \/ ReceiveOther(c)
  \/ \E k \in Sectors, p \in PeerIds \union {None} : ReceiveReply(c, k, p)
  \/ CallbackSends(c)
  \/ SessionEnds(c)

Next == (\E h \in Calls : Engine(h)) \/ (\E c \in Servers : Session(c))

Spec == Init /\ [][Next]_vars

\* Both threads keep running.  Nothing is assumed of the daemon: a select that
\* times out lets the session thread go on.
Fairness ==
  /\ \A h \in Calls :
       WF_vars(ResolveRegister(h) \/ ResolveEnqueue(h) \/ ResolveRefused(h) \/ SendEnqueue(h))
  /\ \A c \in Servers : WF_vars(Session(c))

FairSpec == Spec /\ Fairness

-----------------------------------------------------------------------------
(* Properties.                                                              *)

\* Every variable has its type and g_queue stays within kSendQueueMax.
TypeOK ==
  /\ phase \in [Servers -> Phases]
  /\ sessionUp \in [Servers -> BOOLEAN]
  /\ claimed \in [Servers -> Nat]
  /\ queue \in [Servers -> Seq(QueueFrames)]
  /\ \A c \in Servers : Len(queue[c]) <= QueueMax
  /\ batch \in [Servers -> Seq(QueueFrames)]
  /\ cbs \in [Servers -> [Sectors -> Calls \union {None}]]
  /\ running \in [Servers -> Calls \union {None}]
  /\ asked \in [Servers -> [Sectors -> Nat]]
  /\ pc \in [Calls -> Places]
  /\ result \in [Calls -> BOOLEAN \union {None}]
  /\ status \in [Calls -> Statuses]
  /\ server \in [Calls -> Servers \union {None}]
  /\ sector \in [Calls -> Sectors \union {None}]
  /\ dest \in [Calls -> PeerIds \union {None}]
  /\ superseded \in [Calls -> BOOLEAN]

\* How often call h's payload is in frames that are still to be written by c.
Copies(c, h) ==
  LET frames == queue[c] \o batch[c]
  IN  {i \in 1..Len(frames) : frames[i] = ForwardFrame(dest[h], h)}

\* A payload is handed to the socket at most once and by its own server only:
\* as long as SendTo's answer was true and it is not yet written there is
\* exactly one frame with it, in every other case there is none.  Neither a
\* reconnect nor a callback that fires again may send a character twice.
OneForwardPerCall ==
  \A c \in Servers, h \in Calls :
    /\ \A i, j \in Copies(c, h) : i = j
    /\ Copies(c, h) # {} <=> (status[h] = "accepted" /\ server[h] = c)

\* "Roll back the callback registration so it doesn't dangle": a registered
\* callback belongs to a call of this server for that sector that is under way
\* or returned true, so a reply never runs the callback of a call that has
\* already reported a failure, nor one that has run before.
NoDanglingCallback ==
  \A c \in Servers, k \in Sectors :
    LET h == cbs[c][k] IN
    h # None => /\ server[h] = c /\ sector[h] = k /\ status[h] = "pending"
                /\ pc[h] = "enq" \/ result[h] = TRUE

\* While the engine thread is not inside ResolveSector for the same sector, a
\* call that returned true and that no later accepted call replaced still has
\* its callback ("most-recent-wins"; "invoke cb when the reply arrives").
CallbackHeld ==
  \A h \in Calls :
    /\ result[h] = TRUE /\ status[h] = "pending"
    /\ ~superseded[h]
    /\ \A g \in Calls : ~(pc[g] = "enq" /\ server[g] = server[h] /\ sector[g] = sector[h])
    => cbs[server[h]][sector[h]] = h

\* An accepted payload does not wait for ever on a session that stays up: it
\* is written, or lost with the session.
AcceptedIsWritten ==
  \A h \in Calls :
    (status[h] = "accepted") ~> (status[h] # "accepted" \/ ~sessionUp[server[h]])
=============================================================================
