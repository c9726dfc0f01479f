------------------------------ MODULE MCClient ------------------------------
(* One game server without sector claims, with its engine thread and its    *)
(* session thread.                                                          *)
EXTENDS DispatcherClient

NoClaims == [c \in Servers |-> <<>>]
=============================================================================
