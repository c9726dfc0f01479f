----------------------------- MODULE Federation -----------------------------
(***************************************************************************)
(* The game servers' dispatcher clients and the daemon, joined by TCP.  A   *)
(* connection is a pair of byte streams, here of frames, that outlives the  *)
(* client's interest in it: what a client wrote before it closed its socket *)
(* can still be read by the daemon while the next session is under way.     *)
(***************************************************************************)
EXTENDS Naturals, Sequences

CONSTANTS
  Servers, Calls, Sectors, PeerIds, Claims, Sessions,
  QueueMax, QueueDepth,
  WireMax,     \* bound: frames in flight in one direction of a connection
  MaxFaults,   \* bound: connections and processes that fail in a behaviour
  None

\* What the client and the daemon assume, and the two bounds.
ASSUME FederationAssumption ==
  /\ {QueueMax, QueueDepth, WireMax} \subseteq Nat \ {0}
  /\ MaxFaults \in Nat
  /\ Claims \in [Servers -> Seq(Sectors)]
  /\ None \notin Servers \union Calls \union Sectors \union PeerIds \union Sessions

VARIABLES
  phase, sessionUp, claimed, queue, batch, cbs, running, asked,
  pc, result, status, server, sector, dest, superseded,
  worlds, sectors, registry, stage, uuid, peer, alive, mpsc, writing,
  pending, target, goal,
  cur,       \* the connection a client is using
  up,        \* frames on their way to the daemon
  down,      \* frames on their way to the client
  received,  \* history: the servers whose delivery callback saw a payload
  faults     \* history: how many faults there were

clientVars == <<phase, sessionUp, claimed, queue, batch, cbs, running, asked,
                pc, result, status, server, sector, dest, superseded>>
daemonVars == <<worlds, sectors, registry, stage, uuid, peer, alive, mpsc,
                writing, pending, target, goal>>
vars == <<clientVars, daemonVars, cur, up, down, received, faults>>

C == INSTANCE DispatcherClient
D == INSTANCE Daemon WITH Uuids <- Servers, Payloads <- Calls, BadPayloads <- {},
                          queue <- mpsc

\* None is a value of its own.
ASSUME NoneIsNoFrame == None \notin C!QueueFrames \union D!OutFrames

Init ==
  /\ C!Init
  /\ D!Init
  /\ cur      = [c \in Servers |-> None]
  /\ up       = [s \in Sessions |-> <<>>]
  /\ down     = [s \in Sessions |-> <<>>]
  /\ received = [h \in Calls |-> <<>>]
  /\ faults   = 0

Fault == faults < MaxFaults /\ faults' = faults + 1

-----------------------------------------------------------------------------
(* Steps of one side alone.                                                 *)

\* A select that times out while the send queue is empty leads back to the
\* select and is left out.
ClientOnly ==
  /\ \/ \E h \in Calls : C!Engine(h)
     \/ \E c \in Servers :
          \/ C!AutoClaim(c) \/ C!ClaimsDone(c) \/ C!Drain(c) \/ C!BatchDone(c)
          \/ C!CallbackSends(c)
          \/ C!RecvIdle(c) /\ down[cur[c]] = <<>> /\ queue[c] # <<>>
  /\ UNCHANGED <<daemonVars, cur, up, down, received, faults>>

DaemonOnly ==
  /\ \E s \in Sessions :
       \/ D!UpsertExisting(s) \/ D!UpsertMissing(s)
       \/ D!HelloRejected(s) /\ ~D!UniqueServer(uuid[s])
       \/ \E p \in PeerIds : D!UpsertInsert(s, p)
       \/ D!Register(s) \/ D!SendReply(s) \/ D!ForwardDeliver(s) \/ D!ForwardFailed(s)
       \/ D!ReaderEof(s) /\ up[s] = <<>>
       \/ D!Cleanup(s) \/ D!WriterFails(s) \/ D!WriterEnds(s)
       \/ D!Close(s)
  /\ UNCHANGED <<clientVars, cur, up, down, received, faults>>

\* The daemon ends a session of its own accord, or the network breaks the
\* connection and the daemon is the first to notice.
SessionFault(s) ==
  /\ D!HelloRejected(s) \/ D!ReaderError(s) \/ D!ConnectionLost(s)
  /\ Fault
  /\ UNCHANGED <<clientVars, cur, up, down, received>>

-----------------------------------------------------------------------------
(* Steps of both sides.                                                     *)

\* The client connects and its hello reaches the daemon.  A connection's name is
\* used again when neither end has an interest in it.
Connect(c, s) ==
  /\ C!Connect(c)
  /\ \A b \in Servers : cur[b] # s
  /\ D!Accept(s, c)
  /\ cur'  = [cur EXCEPT ![c] = s]
  /\ up'   = [up EXCEPT ![s] = <<>>]
  /\ down' = [down EXCEPT ![s] = <<>>]
  /\ UNCHANGED <<received, faults>>

\* The client closes its socket, or finds that the daemon's end is gone.
Disconnect(c) ==
  LET s == cur[c] IN
  /\ C!SessionEnds(c)
  /\ IF alive[s] THEN D!ConnectionLost(s) /\ Fault ELSE UNCHANGED <<daemonVars, faults>>
  /\ cur' = [cur EXCEPT ![c] = None]
  /\ UNCHANGED <<up, down, received>>

\* A write to a socket whose other end is gone may succeed and be lost.
ClientSends(c) ==
  LET s == cur[c] IN
  /\ C!SendFront(c)
  /\ IF alive[s]
       THEN Len(up[s]) < WireMax /\ up' = [up EXCEPT ![s] = Append(@, Head(batch[c]))]
       ELSE UNCHANGED up
  /\ UNCHANGED <<daemonVars, cur, down, received, faults>>

DaemonReads(s) ==
  LET f == Head(up[s]) IN
  /\ up[s] # <<>>
  /\ \/ f.kind = "claim"   /\ D!ClaimSector(s, f.sector)
     \/ f.kind = "resolve" /\ D!ResolveSector(s, f.sector)
     \/ f.kind = "forward" /\ (D!ForwardRefused(s, f.to, f.payload) \/ D!ForwardLookup(s, f.to, f.payload))
  /\ up' = [up EXCEPT ![s] = Tail(@)]
  /\ UNCHANGED <<clientVars, cur, down, received, faults>>

DaemonWrites(s) ==
  /\ D!WriteFrame(s)
  /\ IF alive[s]
       THEN Len(down[s]) < WireMax /\ down' = [down EXCEPT ![s] = Append(@, Head(mpsc[s]))]
       ELSE UNCHANGED down
  /\ UNCHANGED <<clientVars, cur, up, received, faults>>

\* runSession takes the first frame for the hello_ack, whatever it is.
ClientReadsAck(c) ==
  LET s == cur[c] IN
  /\ C!ReceiveAck(c)
  /\ down[s] # <<>>
  /\ down' = [down EXCEPT ![s] = Tail(@)]
  /\ UNCHANGED <<daemonVars, cur, up, received, faults>>

SlipDeliverAgain(s) == down

\* recvFrame consumes the frame.
Consume(s) == [down EXCEPT ![s] = Tail(@)]

ClientReads(c) ==
  LET s == cur[c]
      f == Head(down[s]) IN
  /\ phase[c] = "recv"
  /\ down[s] # <<>>
  /\ \/ /\ f.kind = "sector_resolved"
        /\ C!ReceiveReply(c, f.sector, f.peer)
        /\ UNCHANGED received
     \/ /\ f.kind = "sector_unknown"
        /\ C!ReceiveReply(c, f.sector, None)
        /\ UNCHANGED received
     \/ /\ f.kind \in {"pong", "hello_ack", "forward_error", "sector_claimed"}
        /\ C!ReceiveOther(c)
        /\ UNCHANGED received
     \/ /\ f.kind = "delivery"
        /\ C!ReceiveOther(c)
        /\ received' = [received EXCEPT ![f.payload] = Append(@, c)]
  /\ down' = Consume(s)
  /\ UNCHANGED <<daemonVars, cur, up, faults>>

\* The daemon's machine takes the unread frames with it.
DaemonRestarts ==
  /\ D!Restart
  /\ up' = [s \in Sessions |-> <<>>]
  /\ Fault
  /\ UNCHANGED <<clientVars, cur, down, received>>

Next ==
  \/ ClientOnly
  \/ DaemonOnly
  \/ \E c \in Servers, s \in Sessions : Connect(c, s)
  \/ \E c \in Servers : Disconnect(c) \/ ClientSends(c) \/ ClientReadsAck(c) \/ ClientReads(c)
  \/ \E s \in Sessions : SessionFault(s) \/ DaemonReads(s) \/ DaemonWrites(s)
  \/ DaemonRestarts

Spec == Init /\ [][Next]_vars

-----------------------------------------------------------------------------
(* Properties.                                                              *)

\* The two sides and the streams between them have their types and bounds.
TypeOK ==
  /\ C!TypeOK
  /\ D!DaemonTypeOK
  /\ cur \in [Servers -> Sessions \union {None}]
  /\ up \in [Sessions -> Seq(C!QueueFrames)]
  /\ down \in [Sessions -> Seq(D!OutFrames)]
  /\ \A s \in Sessions : Len(up[s]) <= WireMax /\ Len(down[s]) <= WireMax
  /\ received \in [Calls -> Seq(Servers)]
  /\ faults \in 0..MaxFaults

\* What DispatcherClient assumes of a daemon: a sector_resolved or
\* sector_unknown that reaches dispatchFrame answers a resolve frame that this
\* very session wrote and that had no answer yet, also when an older connection
\* of the same server still has frames in flight.
RepliesWereAsked ==
  \A c \in Servers :
    phase[c] = "recv" /\ down[cur[c]] # <<>> =>
      LET f == Head(down[cur[c]]) IN
      f.kind \in {"sector_resolved", "sector_unknown"} => asked[c][f.sector] > 0

\* A payload that a delivery callback saw arrived at the server that runs under
\* the peer id its sender had named or resolved, and never at the sender.
DeliveredToAddressee ==
  \A h \in Calls : \A i \in 1..Len(received[h]) :
    LET c == received[h][i] IN worlds[c] = dest[h] /\ c # server[h]

-----------------------------------------------------------------------------
(* Refinement of Handoff.                                                   *)

Carries(frame, h) ==
  frame # None /\ frame.kind \in {"forward", "delivery"} /\ frame.payload = h

Carried(frames, h) == \E i \in 1..Len(frames) : Carries(frames[i], h)

InTransit(h) ==
  \/ \E c \in Servers : Carried(queue[c], h) \/ Carried(batch[c], h)
  \/ \E s \in Sessions :
       Carried(up[s], h) \/ Carries(pending[s], h) \/ Carried(mpsc[s], h) \/ Carried(down[s], h)

fateBar == [h \in Calls |->
  CASE status[h] \in {"idle", "pending", "answered", "unknown", "full"} -> "new"
    [] received[h] # <<>> -> "delivered"
    [] received[h] = <<>> /\ InTransit(h) -> "travelling"
    [] OTHER -> "gone"]

H == INSTANCE Handoff WITH fate <- fateBar, at <- received

\* The federation implements Handoff: a payload SendTo has accepted is handed to
\* at most one delivery callback and at most once, whatever connections and
\* processes die on the way; once it is gone it does not come back.
ImplementsHandoff == H!Spec
=============================================================================
