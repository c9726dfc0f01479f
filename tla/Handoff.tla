------------------------------- MODULE Handoff -------------------------------
(***************************************************************************)
(* What the federation promises about a payload that SendTo or              *)
(* ForwardToSector takes: it reaches at most one game server, at most once, *)
(* and that server runs under the peer id the payload was addressed to.     *)
(* It may get lost anywhere: there is no acknowledgement and no retry.      *)
(***************************************************************************)
EXTENDS Sequences

CONSTANTS Calls, Servers

VARIABLES
  fate,   \* what became of a payload
  at      \* the servers it was delivered to

vars == <<fate, at>>

Fates == {"new", "travelling", "delivered", "gone"}

Init ==
  /\ fate = [h \in Calls |-> "new"]
  /\ at   = [h \in Calls |-> <<>>]

\* SendTo accepts the payload.
Submit(h) ==
  /\ fate[h] = "new"
  /\ fate' = [fate EXCEPT ![h] = "travelling"]
  /\ UNCHANGED at

Deliver(h, c) ==
  /\ fate[h] = "travelling"
  /\ fate' = [fate EXCEPT ![h] = "delivered"]
  /\ at'   = [at EXCEPT ![h] = Append(@, c)]

\* Dropped before or on the way; several at once when a process dies.
Drop(H) ==
  /\ H # {}
  /\ \A h \in H : fate[h] = "travelling"
  /\ fate' = [h \in Calls |-> IF h \in H THEN "gone" ELSE fate[h]]
  /\ UNCHANGED at

Next ==
  \/ \E h \in Calls : Submit(h) \/ \E c \in Servers : Deliver(h, c)
  \/ \E H \in SUBSET Calls : Drop(H)

Spec == Init /\ [][Next]_vars
=============================================================================
