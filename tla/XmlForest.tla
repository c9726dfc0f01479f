----------------------------- MODULE XmlForest -----------------------------
(* What core/tinyxml2.h promises of the nodes of a document: they form        *)
(* ordered trees, and a node that is inserted is moved there.                 *)
EXTENDS Integers, Sequences, FiniteSets

CONSTANT Doc
VARIABLE kids  \* of each node that exists, its children in order

\* A set of nodes that has the children of its nodes; p is below n, or is n.
Closed(f, S)   == \A p \in S : \A i \in DOMAIN f[p] : f[p][i] \in S
Below(f, n, p) == \A S \in SUBSET DOMAIN f : n \in S /\ Closed(f, S) => p \in S

Without(s, gone) == SelectSeq(s, LAMBDA k : k \notin gone)

Init == kids = [d \in {Doc} |-> <<>>]

Create(f, g) ==
  \E n \in DOMAIN g \ DOMAIN f :
    g = [k \in DOMAIN f \cup {n} |-> IF k = n THEN <<>> ELSE f[k]]

\* "If the child node is already part of the document, it is moved from its
\* old location to the new location": n is a child of p, nothing else moves.
Insert(f, g) ==
  /\ DOMAIN g = DOMAIN f
  /\ \E p \in DOMAIN f : \E i \in DOMAIN g[p] :
       LET n == g[p][i] IN
       /\ \A k \in DOMAIN f : g[k] = IF k = p THEN g[p] ELSE Without(f[k], {n})
       /\ Without(g[p], {n}) = Without(f[p], {n})
       /\ Len(g[p]) = Len(Without(f[p], {n})) + 1
       /\ ~Below(f, n, p)

\* Some nodes are deleted with everything below them.
Delete(f, g) ==
  LET gone == DOMAIN f \ DOMAIN g IN
  /\ Doc \notin gone
  /\ Closed(f, gone)
  /\ g = [k \in DOMAIN f \ gone |-> Without(f[k], gone)]

Step(f, g) == Create(f, g) \/ Insert(f, g) \/ Delete(f, g)
Next == \E old \in {kids}, new \in {kids'} : Step(old, new)

Spec == Init /\ [][Next]_kids
=============================================================================
