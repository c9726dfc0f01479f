---------------------------- MODULE PlainStreams ----------------------------
(***************************************************************************)
(* What core/crypto/lfxe_filestream.h promises the engine: a stream that     *)
(* reads a file behaves like a stream over one content of a fixed length,    *)
(* and that content is the plaintext wherever the file can be decrypted.     *)
(***************************************************************************)
EXTENDS Integers

CONSTANTS Streams, Files, ReadSizes, Closed,
          MayShow(_)   \* the contents a read stream over a file may have

VARIABLES view, pos, result

streamVars == <<view, pos, result>>

Lesser(m, n) == IF m <= n THEN m ELSE n

Init ==
  /\ view = [s \in Streams |-> Closed]
  /\ pos = [s \in Streams |-> 0]
  /\ result = Closed

Open(s) ==
  /\ \E f \in Files : \E content \in MayShow(f) : view' = [view EXCEPT ![s] = content]
  /\ pos' = [pos EXCEPT ![s] = 0]
  /\ result' = Closed

\* A read takes what is left, up to n; it is full when it took all of n.
Read(s) ==
  /\ view[s] # Closed
  /\ \E n \in ReadSizes :
       LET take == Lesser(n, view[s].len - pos[s]) IN
       /\ pos' = [pos EXCEPT ![s] = @ + take]
       /\ result' = [of |-> view[s], from |-> pos[s], take |-> take, full |-> take = n]
  /\ UNCHANGED view

\* A seek past the end is refused.
Seek(s) ==
  /\ view[s] # Closed
  /\ \E p \in 0..view[s].len : pos' = [pos EXCEPT ![s] = p]
  /\ result' = Closed
  /\ UNCHANGED view

Close(s) ==
  /\ view' = [view EXCEPT ![s] = Closed]
  /\ pos'  = [pos EXCEPT ![s] = 0]
  /\ result' = Closed

Next == \E s \in Streams : Open(s) \/ Read(s) \/ Seek(s) \/ Close(s)
Spec == Init /\ [][Next]_streamVars
=============================================================================
