----------------------------- MODULE DomProofs ------------------------------
(***************************************************************************)
(* That a document of tinyxml2 stays sound, whatever is made, moved and     *)
(* deleted: its pointers lead to nodes that exist and back, no node is lost *)
(* or in the list of unlinked ones by mistake, and every item of a pool is   *)
(* free or in use, and not both.                                            *)
(***************************************************************************)
EXTENDS XmlDom, SequenceTheorems, FiniteSetTheorems, Numbers, TLAPS

-----------------------------------------------------------------------------
(* The links.                                                               *)

NodeFields == {"kind", "name", "closing", "attrs", "parent", "prev", "next", "first", "last"}
Pointers   == {"parent", "prev", "next", "first", "last"}
DocFields  == {"live", "unlinked", "pool", "drifted", "crashed"}

Shaped(d) == DOMAIN d = DocFields /\ \A k \in DOMAIN d.live : DOMAIN d.live[k] = NodeFields

\* Only the links of the nodes differ.
Relinked(d, e) ==
  /\ Shaped(e) /\ DOMAIN e.live = DOMAIN d.live
  /\ e.unlinked = d.unlinked /\ e.pool = d.pool /\ e.drifted = d.drifted /\ e.crashed = d.crashed
  /\ \A k \in DOMAIN d.live : e.live[k].kind = d.live[k].kind /\ e.live[k].attrs = d.live[k].attrs

Sets(d, e, n, field, to) ==
  \A k \in DOMAIN d.live : \A g \in Pointers :
    e.live[k][g] = IF k = n /\ g = field THEN to ELSE d.live[k][g]

LEMMA PutIs ==
  ASSUME NEW d, Shaped(d), Null \notin DOMAIN d.live, NEW n \in DOMAIN d.live \cup {Null}, NEW field \in Pointers, NEW to,
         NEW e, e = Put(d, n, field, to)
  PROVE  Relinked(d, e) /\ Sets(d, e, n, field, to)
<1>1. CASE n = Null
  BY <1>1 DEF Put, Relinked, Sets
<1>2. CASE n \in DOMAIN d.live /\ n # Null
  <2>1. e = [d EXCEPT !.live[n][field] = to]
    BY <1>2 DEF Put
  <2>2. e.live = [d.live EXCEPT ![n] = [d.live[n] EXCEPT ![field] = to]]
    BY <2>1 DEF Shaped, DocFields
  <2>3. DOMAIN e = DocFields /\ e.unlinked = d.unlinked /\ e.pool = d.pool /\ e.drifted = d.drifted /\ e.crashed = d.crashed
    BY <2>1 DEF Shaped, DocFields
  <2>4. DOMAIN e.live = DOMAIN d.live
    BY <2>2
  <2>5. \A k \in DOMAIN d.live : e.live[k] = IF k = n THEN [d.live[n] EXCEPT ![field] = to] ELSE d.live[k]
    BY <2>2
  <2>6. \A k \in DOMAIN d.live : DOMAIN e.live[k] = NodeFields /\ e.live[k].kind = d.live[k].kind /\ e.live[k].attrs = d.live[k].attrs
    BY <2>5 DEF Shaped, NodeFields, Pointers
  <2>7. Sets(d, e, n, field, to)
    BY <2>5 DEF Shaped, NodeFields, Pointers, Sets
  <2> QED
    BY <2>3, <2>4, <2>6, <2>7 DEF Relinked, Shaped
<1> QED
  BY <1>1, <1>2

LEMMA Relinks ==
  ASSUME NEW d, NEW e, NEW f, Relinked(d, e), Relinked(e, f)
  PROVE  Relinked(d, f)
BY DEF Relinked

-----------------------------------------------------------------------------
\* The links of a document, as LinksWhole has them and as the calls keep them.
Typed(L) == \A n \in DOMAIN L : \A g \in Pointers : L[n][g] \in DOMAIN L \cup {Null}
Ends(L) ==
  \A n \in DOMAIN L :
    /\ (L[n].first = Null) <=> (L[n].last = Null)
    /\ L[n].first # Null => L[L[n].first].parent = n /\ L[L[n].first].prev = Null
    /\ L[n].last # Null  => L[L[n].last].parent = n /\ L[L[n].last].next = Null
Siblings(L) ==
  \A n \in DOMAIN L :
    /\ L[n].next # Null => L[L[n].next].prev = n /\ L[L[n].next].parent = L[n].parent
    /\ L[n].prev # Null => L[L[n].prev].next = n
Children(L) ==
  \A n \in DOMAIN L :
    /\ L[n].parent # Null /\ L[n].prev = Null => L[L[n].parent].first = n
    /\ L[n].parent # Null /\ L[n].next = Null => L[L[n].parent].last = n
    /\ L[n].parent = Null => L[n].prev = Null /\ L[n].next = Null
Locals(L) == Typed(L) /\ Ends(L) /\ Siblings(L) /\ Children(L)

\* A node is lower than its parent, and before its next sibling.
Lower(L, h)  == h \in [DOMAIN L -> Nat] /\ \A n \in DOMAIN L : L[n].parent # Null => h[n] < h[L[n].parent]
Before(L, r) == r \in [DOMAIN L -> Nat] /\ \A n \in DOMAIN L : L[n].next # Null => r[n] < r[L[n].next]

Linked(L) ==
  /\ Null \notin DOMAIN L /\ Locals(L)
  /\ \E h : Lower(L, h)
  /\ \E r : Before(L, r)

-----------------------------------------------------------------------------
\* What Unlink does to the links.
Unlinks(L, M, c) ==
  /\ DOMAIN M = DOMAIN L
  /\ \A k \in DOMAIN L :
       /\ M[k].parent = IF k = c THEN Null ELSE L[k].parent
       /\ M[k].prev   = IF k = c THEN Null ELSE IF k = L[c].next THEN L[c].prev ELSE L[k].prev
       /\ M[k].next   = IF k = c THEN Null ELSE IF k = L[c].prev THEN L[c].next ELSE L[k].next
       /\ M[k].first  = IF k = L[c].parent /\ L[k].first = c THEN L[c].next ELSE L[k].first
       /\ M[k].last   = IF k = L[c].parent /\ L[k].last = c THEN L[c].prev ELSE L[k].last

LEMMA UnlinkIs ==
  ASSUME NEW d, Shaped(d), Linked(d.live), NEW c \in DOMAIN d.live, d.live[c].parent # Null,
         NEW e, e = Unlink(d, c)
  PROVE  Relinked(d, e) /\ Unlinks(d.live, e.live, c)
<1> DEFINE x == d.live[c]
           p == x.parent
           d1 == IF d.live[p].first = c THEN Put(d, p, "first", x.next) ELSE d
           d2 == IF d.live[p].last = c THEN Put(d1, p, "last", x.prev) ELSE d1
           d3 == Put(d2, x.prev, "next", x.next)
           d4 == Put(d3, x.next, "prev", x.prev)
<1>1. p \in DOMAIN d.live /\ x.next \in DOMAIN d.live \cup {Null} /\ x.prev \in DOMAIN d.live \cup {Null} /\ Null \notin DOMAIN d.live
  BY DEF Linked, Locals, Typed, Pointers
<1>2. Relinked(d, d1) /\ (\A k \in DOMAIN d.live : \A g \in Pointers :
         d1.live[k][g] = IF k = p /\ g = "first" /\ d.live[p].first = c THEN x.next ELSE d.live[k][g])
  <2>1. CASE d.live[p].first = c
    <3>1. Relinked(d, d1) /\ Sets(d, d1, p, "first", x.next)
      BY <1>1, <2>1, PutIs DEF Pointers
    <3> QED
      BY <2>1, <3>1 DEF Sets
  <2>2. CASE d.live[p].first # c
    BY <2>2 DEF Relinked
  <2> QED
    BY <2>1, <2>2
<1>3. Relinked(d1, d2) /\ (\A k \in DOMAIN d.live : \A g \in Pointers :
         d2.live[k][g] = IF k = p /\ g = "last" /\ d.live[p].last = c THEN x.prev ELSE d1.live[k][g])
  <2>0. Shaped(d1) /\ DOMAIN d1.live = DOMAIN d.live
    BY <1>2 DEF Relinked
  <2> HIDE DEF d1
  <2>1. CASE d.live[p].last = c
    <3>1. Relinked(d1, d2) /\ Sets(d1, d2, p, "last", x.prev)
      BY <1>1, <2>0, <2>1, PutIs DEF Pointers
    <3> QED
      BY <2>0, <2>1, <3>1 DEF Sets
  <2>2. CASE d.live[p].last # c
    BY <2>0, <2>2 DEF Relinked
  <2> QED
    BY <2>1, <2>2
<1>4. Relinked(d2, d3) /\ Sets(d2, d3, x.prev, "next", x.next)
  <2>0. Shaped(d2) /\ DOMAIN d2.live = DOMAIN d.live
    BY <1>2, <1>3 DEF Relinked
  <2> HIDE DEF d1, d2
  <2> QED
    BY <1>1, <2>0, PutIs DEF Pointers
<1>5. Relinked(d3, d4) /\ Sets(d3, d4, x.next, "prev", x.prev)
  <2>0. Shaped(d3) /\ DOMAIN d3.live = DOMAIN d.live
    BY <1>2, <1>3, <1>4 DEF Relinked
  <2> HIDE DEF d1, d2, d3
  <2> QED
    BY <1>1, <2>0, PutIs DEF Pointers
<1>6. e = [d4 EXCEPT !.live[c] = [@ EXCEPT !.next = Null, !.prev = Null, !.parent = Null]]
  BY DEF Unlink
<1>7. Relinked(d, d4)
  <2> HIDE DEF d1, d2, d3, d4
  <2> QED
    BY <1>2, <1>3, <1>4, <1>5, Relinks
<1>8. \A k \in DOMAIN d.live :
       /\ d4.live[k].parent = d.live[k].parent
       /\ d4.live[k].prev   = IF k = x.next THEN x.prev ELSE d.live[k].prev
       /\ d4.live[k].next   = IF k = x.prev THEN x.next ELSE d.live[k].next
       /\ d4.live[k].first  = IF k = p /\ d.live[k].first = c THEN x.next ELSE d.live[k].first
       /\ d4.live[k].last   = IF k = p /\ d.live[k].last = c THEN x.prev ELSE d.live[k].last
  <2>0. DOMAIN d2.live = DOMAIN d.live /\ DOMAIN d3.live = DOMAIN d.live
    <3> HIDE DEF d1, d2, d3, d4
    <3> QED
      BY <1>2, <1>3, <1>4, <1>5 DEF Relinked
  <2> HIDE DEF d1, d2, d3, d4
  <2> QED
    BY <1>2, <1>3, <1>4, <1>5, <2>0 DEF Sets, Pointers
<1> HIDE DEF d1, d2, d3, d4
<1>9. /\ e.live = [d4.live EXCEPT ![c] = [d4.live[c] EXCEPT !.next = Null, !.prev = Null, !.parent = Null]]
      /\ DOMAIN e = DocFields /\ e.unlinked = d4.unlinked /\ e.pool = d4.pool /\ e.drifted = d4.drifted /\ e.crashed = d4.crashed
  BY <1>6, <1>7 DEF Relinked, Shaped, DocFields
<1>10. DOMAIN d4.live = DOMAIN d.live /\ \A k \in DOMAIN d.live : DOMAIN d4.live[k] = NodeFields
  BY <1>7 DEF Relinked, Shaped
<1>11. DOMAIN e.live = DOMAIN d.live /\ \A k \in DOMAIN d.live :
          e.live[k] = IF k = c THEN [d4.live[c] EXCEPT !.next = Null, !.prev = Null, !.parent = Null] ELSE d4.live[k]
  BY <1>9, <1>10
<1>12. \A k \in DOMAIN d.live :
          /\ DOMAIN e.live[k] = NodeFields /\ e.live[k].kind = d4.live[k].kind /\ e.live[k].attrs = d4.live[k].attrs
          /\ e.live[k].parent = IF k = c THEN Null ELSE d4.live[k].parent
          /\ e.live[k].prev = IF k = c THEN Null ELSE d4.live[k].prev
          /\ e.live[k].next = IF k = c THEN Null ELSE d4.live[k].next
          /\ e.live[k].first = d4.live[k].first /\ e.live[k].last = d4.live[k].last
  <2> DEFINE y == [d4.live[c] EXCEPT !.next = Null, !.prev = Null, !.parent = Null]
  <2>1. /\ DOMAIN y = NodeFields /\ y.kind = d4.live[c].kind /\ y.attrs = d4.live[c].attrs
        /\ y.parent = Null /\ y.prev = Null /\ y.next = Null
        /\ y.first = d4.live[c].first /\ y.last = d4.live[c].last
    BY <1>10 DEF NodeFields
  <2>2. \A k \in DOMAIN d.live : e.live[k] = IF k = c THEN y ELSE d4.live[k]
    BY <1>11
  <2> HIDE DEF y
  <2> QED
    BY <1>10, <2>1, <2>2
<1>13. Relinked(d, e)
  BY <1>7, <1>9, <1>11, <1>12 DEF Relinked, Shaped
<1>14. Unlinks(d.live, e.live, c)
  BY <1>8, <1>11, <1>12 DEF Unlinks
<1> QED
  BY <1>13, <1>14

\* Unlink keeps the links whole.
LEMMA Unlinking ==
  ASSUME NEW L, NEW M, NEW c \in DOMAIN L, Linked(L), L[c].parent # Null, Unlinks(L, M, c)
  PROVE  Linked(M) /\ M[c].parent = Null
<1>1. Locals(L) /\ Null \notin DOMAIN L /\ DOMAIN M = DOMAIN L
  BY DEF Linked, Unlinks
<1>2. PICK h : Lower(L, h)
  BY DEF Linked
<1>3. PICK r : Before(L, r)
  BY DEF Linked
<1>4. Typed(M)
  BY <1>1 DEF Locals, Typed, Unlinks, Pointers
<1>5. \A k \in DOMAIN L : /\ L[k].parent \in DOMAIN L \cup {Null} /\ L[k].prev \in DOMAIN L \cup {Null}
                          /\ L[k].next \in DOMAIN L \cup {Null} /\ L[k].first \in DOMAIN L \cup {Null}
                          /\ L[k].last \in DOMAIN L \cup {Null}
  BY <1>1 DEF Locals, Typed, Pointers
<1>6. L[c].parent # c /\ L[c].next # c /\ L[c].prev # c
  <2>1. L[c].parent # c
    BY <1>2 DEF Lower
  <2>2. L[c].next # c
    BY <1>1, <1>3 DEF Before
  <2> QED
    BY <1>1, <1>5, <2>1, <2>2 DEF Locals, Siblings
<1>7. Ends(M)
  BY <1>1, <1>5, <1>6 DEF Locals, Ends, Siblings, Children, Unlinks
<1>8. Siblings(M)
  BY <1>1, <1>5, <1>6 DEF Locals, Ends, Siblings, Children, Unlinks
<1>9. Children(M)
  BY <1>1, <1>5, <1>6 DEF Locals, Ends, Siblings, Children, Unlinks
<1>10. Lower(M, h)
  BY <1>1, <1>2 DEF Lower, Unlinks
<1>11. Before(M, r)
  BY <1>1, <1>3, <1>5, <1>6 DEF Locals, Siblings, Before, Unlinks
<1> QED
  BY <1>1, <1>4, <1>7, <1>8, <1>9, <1>10, <1>11 DEF Linked, Locals, Unlinks

-----------------------------------------------------------------------------
\* The three ways a node without a parent comes below p.
Appends(L, M, p, n) ==
  /\ DOMAIN M = DOMAIN L
  /\ \A k \in DOMAIN L :
       /\ M[k].parent = IF k = n THEN p ELSE L[k].parent
       /\ M[k].prev   = IF k = n THEN L[p].last ELSE L[k].prev
       /\ M[k].next   = IF k = L[p].last THEN n ELSE L[k].next
       /\ M[k].first  = IF k = p /\ L[p].last = Null THEN n ELSE L[k].first
       /\ M[k].last   = IF k = p THEN n ELSE L[k].last
Prepends(L, M, p, n) ==
  /\ DOMAIN M = DOMAIN L
  /\ \A k \in DOMAIN L :
       /\ M[k].parent = IF k = n THEN p ELSE L[k].parent
       /\ M[k].next   = IF k = n THEN L[p].first ELSE L[k].next
       /\ M[k].prev   = IF k = L[p].first THEN n ELSE L[k].prev
       /\ M[k].last   = IF k = p /\ L[p].first = Null THEN n ELSE L[k].last
       /\ M[k].first  = IF k = p THEN n ELSE L[k].first
Follows(L, M, after, n) ==
  /\ DOMAIN M = DOMAIN L
  /\ \A k \in DOMAIN L :
       /\ M[k].parent = IF k = n THEN L[after].parent ELSE L[k].parent
       /\ M[k].prev   = IF k = n THEN after ELSE IF k = L[after].next THEN n ELSE L[k].prev
       /\ M[k].next   = IF k = n THEN L[after].next ELSE IF k = after THEN n ELSE L[k].next
       /\ M[k].first  = L[k].first
       /\ M[k].last   = L[k].last

\* A set that has the children of its nodes.
Closed(L, S) == S \subseteq DOMAIN L /\ \A c \in DOMAIN L : L[c].parent \in S => c \in S

\* A node comes below one that is not below it.
LEMMA Lowers ==
  ASSUME NEW L, NEW M, NEW p \in DOMAIN L, NEW n \in DOMAIN L, NEW B, Closed(L, B), n \in B, p \notin B,
         NEW h, Lower(L, h), Typed(L), DOMAIN M = DOMAIN L,
         \A k \in DOMAIN L : M[k].parent = IF k = n THEN p ELSE L[k].parent
  PROVE  \E g : Lower(M, g)
<1> DEFINE g == [k \in DOMAIN L |-> IF k \in B THEN h[k] ELSE h[k] + h[n] + 1]
<1>1. \A k \in DOMAIN L : h[k] \in Nat /\ L[k].parent \in DOMAIN L \cup {Null}
  BY DEF Lower, Typed, Pointers
<1>2. g \in [DOMAIN L -> Nat]
  BY <1>1
<1>3. ASSUME NEW k \in DOMAIN M, M[k].parent # Null PROVE g[k] < g[M[k].parent]
  <2>1. CASE k = n
    BY <1>1, <2>1
  <2>2. CASE k # n
    <3>1. PICK q \in DOMAIN L : q = L[k].parent /\ q = M[k].parent /\ h[k] < h[q]
      BY <1>1, <1>3, <2>2 DEF Lower
    <3>2. q \in B => k \in B
      BY <3>1 DEF Closed
    <3> QED
      BY <1>1, <3>1, <3>2
  <2> QED
    BY <2>1, <2>2
<1>4. Lower(M, g)
  <2> HIDE DEF g
  <2> QED
    BY <1>2, <1>3 DEF Lower
<1> QED
  BY <1>4

LEMMA Pointed ==
  ASSUME NEW L, Typed(L), NEW k \in DOMAIN L
  PROVE  /\ L[k].parent \in DOMAIN L \cup {Null} /\ L[k].prev \in DOMAIN L \cup {Null}
         /\ L[k].next \in DOMAIN L \cup {Null} /\ L[k].first \in DOMAIN L \cup {Null}
         /\ L[k].last \in DOMAIN L \cup {Null}
BY DEF Typed, Pointers

LEMMA Appending ==
  ASSUME NEW L, NEW M, NEW p \in DOMAIN L, NEW n \in DOMAIN L, NEW B, Closed(L, B), n \in B, p \notin B,
         Linked(L), L[n].parent = Null, Appends(L, M, p, n)
  PROVE  Linked(M)
<1>1. Locals(L) /\ Null \notin DOMAIN L /\ DOMAIN M = DOMAIN L /\ n # p
  BY DEF Linked, Appends
<1>2. PICK h : Lower(L, h)
  BY DEF Linked
<1>3. PICK r : Before(L, r)
  BY DEF Linked
<1>4. Typed(M)
  BY <1>1 DEF Locals, Typed, Appends, Pointers
<1>5. \A k \in DOMAIN L : /\ L[k].parent \in DOMAIN L \cup {Null} /\ L[k].prev \in DOMAIN L \cup {Null}
                          /\ L[k].next \in DOMAIN L \cup {Null} /\ L[k].first \in DOMAIN L \cup {Null}
                          /\ L[k].last \in DOMAIN L \cup {Null}
  BY <1>1, Pointed DEF Locals
<1>6. L[n].prev = Null /\ L[n].next = Null /\ L[p].last # n /\ L[p].first # n
  BY <1>1 DEF Locals, Ends, Children
<1>7. Ends(M)
  BY <1>1, <1>5, <1>6 DEF Locals, Ends, Siblings, Children, Appends
<1>8. Siblings(M)
  BY <1>1, <1>5, <1>6 DEF Locals, Ends, Siblings, Children, Appends
<1>9. Children(M)
  BY <1>1, <1>5, <1>6 DEF Locals, Ends, Siblings, Children, Appends
<1>10. \E g : Lower(M, g)
  BY <1>1, <1>2, Lowers DEF Appends, Locals
<1>12. \A k \in DOMAIN L : L[k].next # n
  BY <1>1, <1>6 DEF Locals, Siblings
<1>11. \E g : Before(M, g)
  <2> DEFINE g == [k \in DOMAIN L |-> IF k = n THEN IF L[p].last = Null THEN 0 ELSE r[L[p].last] + 1 ELSE r[k]]
  <2>1. \A k \in DOMAIN L : r[k] \in Nat
    BY <1>3 DEF Before
  <2>2. g \in [DOMAIN L -> Nat]
    BY <1>5, <2>1
  <2>3. ASSUME NEW k \in DOMAIN M, M[k].next # Null PROVE g[k] < g[M[k].next]
    <3>1. CASE k = L[p].last
      BY <1>1, <1>6, <2>1, <3>1 DEF Appends
    <3>2. CASE k # L[p].last
      <4>1. PICK m \in DOMAIN L : m = L[k].next /\ m = M[k].next /\ r[k] < r[m]
        BY <1>1, <1>3, <1>5, <2>3, <3>2 DEF Before, Appends
      <4>2. m # n /\ k # n
        BY <1>1, <1>6, <1>12, <2>3, <4>1
      <4> QED
        BY <1>1, <2>3, <4>1, <4>2
    <3> QED
      BY <3>1, <3>2
  <2>4. Before(M, g)
    <3> HIDE DEF g
    <3> QED
      BY <1>1, <2>2, <2>3 DEF Before
  <2> QED
    BY <2>4
<1> QED
  BY <1>1, <1>4, <1>7, <1>8, <1>9, <1>10, <1>11 DEF Linked, Locals

LEMMA Prepending ==
  ASSUME NEW L, NEW M, NEW p \in DOMAIN L, NEW n \in DOMAIN L, NEW B, Closed(L, B), n \in B, p \notin B,
         Linked(L), L[n].parent = Null, Prepends(L, M, p, n)
  PROVE  Linked(M)
<1>1. Locals(L) /\ Null \notin DOMAIN L /\ DOMAIN M = DOMAIN L /\ n # p
  BY DEF Linked, Prepends
<1>2. PICK h : Lower(L, h)
  BY DEF Linked
<1>3. PICK r : Before(L, r)
  BY DEF Linked
<1>4. Typed(M)
  BY <1>1 DEF Locals, Typed, Prepends, Pointers
<1>5. \A k \in DOMAIN L : /\ L[k].parent \in DOMAIN L \cup {Null} /\ L[k].prev \in DOMAIN L \cup {Null}
                          /\ L[k].next \in DOMAIN L \cup {Null} /\ L[k].first \in DOMAIN L \cup {Null}
                          /\ L[k].last \in DOMAIN L \cup {Null}
  BY <1>1, Pointed DEF Locals
<1>6. L[n].prev = Null /\ L[n].next = Null /\ L[p].last # n /\ L[p].first # n
  BY <1>1 DEF Locals, Ends, Children
<1>7. Ends(M)
  BY <1>1, <1>5, <1>6 DEF Locals, Ends, Siblings, Children, Prepends
<1>8. Siblings(M)
  BY <1>1, <1>5, <1>6 DEF Locals, Ends, Siblings, Children, Prepends
<1>9. Children(M)
  BY <1>1, <1>5, <1>6 DEF Locals, Ends, Siblings, Children, Prepends
<1>10. \E g : Lower(M, g)
  BY <1>1, <1>2, Lowers DEF Prepends, Locals
<1>12. \A k \in DOMAIN L : L[k].next # n
  BY <1>1, <1>6 DEF Locals, Siblings
<1>11. \E g : Before(M, g)
  <2> DEFINE g == [k \in DOMAIN L |-> IF k = n THEN 0 ELSE r[k] + 1]
  <2>1. \A k \in DOMAIN L : r[k] \in Nat
    BY <1>3 DEF Before
  <2>2. g \in [DOMAIN L -> Nat]
    BY <2>1
  <2>3. ASSUME NEW k \in DOMAIN M, M[k].next # Null PROVE g[k] < g[M[k].next]
    <3>1. CASE k = n
      BY <1>1, <1>5, <1>6, <2>1, <2>3, <3>1 DEF Prepends
    <3>2. CASE k # n
      <4>1. PICK m \in DOMAIN L : m = L[k].next /\ m = M[k].next /\ r[k] < r[m]
        BY <1>1, <1>3, <1>5, <2>3, <3>2 DEF Before, Prepends
      <4>2. m # n
        BY <1>1, <1>12, <2>3, <4>1
      <4> QED
        BY <1>1, <2>1, <3>2, <4>1, <4>2
    <3> QED
      BY <3>1, <3>2
  <2>4. Before(M, g)
    <3> HIDE DEF g
    <3> QED
      BY <1>1, <2>2, <2>3 DEF Before
  <2> QED
    BY <2>4
<1> QED
  BY <1>1, <1>4, <1>7, <1>8, <1>9, <1>10, <1>11 DEF Linked, Locals

LEMMA Following ==
  ASSUME NEW L, NEW M, NEW after \in DOMAIN L, NEW n \in DOMAIN L, NEW B, Closed(L, B), n \in B,
         L[after].parent \in DOMAIN L, L[after].parent \notin B, L[after].next # Null,
         Linked(L), L[n].parent = Null, Follows(L, M, after, n)
  PROVE  Linked(M)
<1> DEFINE p == L[after].parent
<1>1. Locals(L) /\ Null \notin DOMAIN L /\ DOMAIN M = DOMAIN L /\ n # p /\ n # after
  BY DEF Linked, Follows
<1>2. PICK h : Lower(L, h)
  BY DEF Linked
<1>3. PICK r : Before(L, r)
  BY DEF Linked
<1>4. Typed(M)
  BY <1>1 DEF Locals, Typed, Follows, Pointers
<1>5. \A k \in DOMAIN L : /\ L[k].parent \in DOMAIN L \cup {Null} /\ L[k].prev \in DOMAIN L \cup {Null}
                          /\ L[k].next \in DOMAIN L \cup {Null} /\ L[k].first \in DOMAIN L \cup {Null}
                          /\ L[k].last \in DOMAIN L \cup {Null}
  BY <1>1, Pointed DEF Locals
<1>6. L[n].prev = Null /\ L[n].next = Null /\ L[p].last # n /\ L[p].first # n /\ L[after].next # n
  BY <1>1 DEF Locals, Ends, Children, Siblings
<1>0. L[after].next # after
  BY <1>1, <1>3 DEF Before
<1>7. Ends(M)
  BY <1>0, <1>1, <1>5, <1>6 DEF Locals, Ends, Siblings, Children, Follows
<1>8. Siblings(M)
  BY <1>0, <1>1, <1>5, <1>6 DEF Locals, Ends, Siblings, Children, Follows
<1>9. Children(M)
  BY <1>0, <1>1, <1>5, <1>6 DEF Locals, Ends, Siblings, Children, Follows
<1>10. \E g : Lower(M, g)
  BY <1>1, <1>2, Lowers DEF Follows, Locals
<1>12. \A k \in DOMAIN L : L[k].next # n
  BY <1>1, <1>6 DEF Locals, Siblings
<1>11. \E g : Before(M, g)
  <2> DEFINE g == [k \in DOMAIN L |-> IF k = n THEN 2 * r[after] + 1 ELSE 2 * r[k]]
  <2>1. \A k \in DOMAIN L : r[k] \in Nat
    BY <1>3 DEF Before
  <2>2. g \in [DOMAIN L -> Nat]
    BY <2>1
  <2>3. ASSUME NEW k \in DOMAIN M, M[k].next # Null PROVE g[k] < g[M[k].next]
    <3>1. CASE k = n
      <4>1. PICK m \in DOMAIN L : m = L[after].next /\ m = M[k].next /\ r[after] < r[m] /\ m # n
        BY <1>1, <1>3, <1>5, <1>6, <3>1 DEF Before, Follows
      <4> QED
        BY <1>1, <2>1, <3>1, <4>1
    <3>2. CASE k = after
      BY <1>1, <1>5, <1>6, <2>1, <2>3, <3>2 DEF Follows
    <3>3. CASE k # n /\ k # after
      <4>1. PICK m \in DOMAIN L : m = L[k].next /\ m = M[k].next /\ r[k] < r[m]
        BY <1>1, <1>3, <1>5, <2>3, <3>3 DEF Before, Follows
      <4>2. m # n
        BY <1>1, <1>12, <2>3, <4>1
      <4> QED
        BY <1>1, <2>1, <3>3, <4>1, <4>2
    <3> QED
      BY <3>1, <3>2, <3>3
  <2>4. Before(M, g)
    <3> HIDE DEF g
    <3> QED
      BY <1>1, <2>2, <2>3 DEF Before
  <2> QED
    BY <2>4
<1> QED
  BY <1>1, <1>4, <1>7, <1>8, <1>9, <1>10, <1>11 DEF Linked, Locals

LEMMA AppendIs ==
  ASSUME NEW d, Shaped(d), Linked(d.live), NEW p \in DOMAIN d.live, NEW n \in DOMAIN d.live, n # p, d.live[n].parent = Null,
         NEW e, NEW old, old = d.live[p].last,
         e = Put(Put(IF old = Null THEN Put(d, p, "first", n) ELSE Put(Put(d, old, "next", n), n, "prev", old),
                     p, "last", n), n, "parent", p)
  PROVE  Relinked(d, e) /\ Appends(d.live, e.live, p, n)
<1> DEFINE d1 == IF old = Null THEN Put(d, p, "first", n) ELSE Put(Put(d, old, "next", n), n, "prev", old)
           d2 == Put(d1, p, "last", n)
<1>1. Null \notin DOMAIN d.live /\ old \in DOMAIN d.live \cup {Null} /\ d.live[n].prev = Null
  BY DEF Linked, Locals, Children, Typed, Pointers
<1>2. Relinked(d, d1) /\ (\A k \in DOMAIN d.live :
         /\ d1.live[k].parent = d.live[k].parent /\ d1.live[k].last = d.live[k].last
         /\ d1.live[k].prev  = IF k = n THEN old ELSE d.live[k].prev
         /\ d1.live[k].next  = IF k = old THEN n ELSE d.live[k].next
         /\ d1.live[k].first = IF k = p /\ old = Null THEN n ELSE d.live[k].first)
  <2>1. CASE old = Null
    <3>1. Relinked(d, d1) /\ Sets(d, d1, p, "first", n)
      BY <1>1, <2>1, PutIs DEF Pointers
    <3> HIDE DEF d1
    <3> QED
      BY <1>1, <2>1, <3>1 DEF Sets, Pointers
  <2>2. CASE old # Null
    <3> DEFINE c == Put(d, old, "next", n)
    <3>1. Relinked(d, c) /\ Sets(d, c, old, "next", n)
      BY <1>1, PutIs DEF Pointers
    <3>2. d1 = Put(c, n, "prev", old)
      BY <2>2
    <3> HIDE DEF c, d1
    <3>3. Shaped(c) /\ DOMAIN c.live = DOMAIN d.live
      BY <3>1 DEF Relinked
    <3>4. Relinked(c, d1) /\ Sets(c, d1, n, "prev", old)
      BY <1>1, <3>2, <3>3, PutIs DEF Pointers
    <3>5. Relinked(d, d1)
      BY <3>1, <3>4, Relinks
    <3> QED
      BY <2>2, <1>1, <3>1, <3>3, <3>4, <3>5 DEF Sets, Pointers
  <2> QED
    BY <2>1, <2>2
<1>3. Shaped(d1) /\ DOMAIN d1.live = DOMAIN d.live
  BY <1>2 DEF Relinked
<1>4. e = Put(d2, n, "parent", p)
  OBVIOUS
<1> HIDE DEF d1
<1>5. Relinked(d1, d2) /\ Sets(d1, d2, p, "last", n)
  BY <1>1, <1>3, PutIs DEF Pointers
<1> HIDE DEF d2
<1>6. Shaped(d2) /\ DOMAIN d2.live = DOMAIN d.live
  BY <1>3, <1>5 DEF Relinked
<1>7. Relinked(d2, e) /\ Sets(d2, e, n, "parent", p)
  BY <1>1, <1>4, <1>6, PutIs DEF Pointers
<1>8. Relinked(d, e)
  BY <1>2, <1>5, <1>7, Relinks
<1>9. DOMAIN e.live = DOMAIN d.live
  BY <1>8 DEF Relinked
<1>10. \A k \in DOMAIN d.live :
          /\ d2.live[k].parent = d1.live[k].parent
          /\ d2.live[k].prev = d1.live[k].prev
          /\ d2.live[k].next = d1.live[k].next
          /\ d2.live[k].first = d1.live[k].first
          /\ d2.live[k].last = (IF k = p THEN n ELSE d1.live[k].last)
  BY <1>3, <1>5 DEF Sets, Pointers
<1>11. \A k \in DOMAIN d.live :
          /\ e.live[k].parent = (IF k = n THEN p ELSE d2.live[k].parent)
          /\ e.live[k].prev = d2.live[k].prev
          /\ e.live[k].next = d2.live[k].next
          /\ e.live[k].first = d2.live[k].first
          /\ e.live[k].last = d2.live[k].last
  BY <1>6, <1>7 DEF Sets, Pointers
<1>12. Appends(d.live, e.live, p, n)
  <2>1. ASSUME NEW k \in DOMAIN d.live
        PROVE  /\ e.live[k].parent = IF k = n THEN p ELSE d.live[k].parent
               /\ e.live[k].prev = IF k = n THEN old ELSE d.live[k].prev
               /\ e.live[k].next = IF k = old THEN n ELSE d.live[k].next
               /\ e.live[k].first = IF k = p /\ old = Null THEN n ELSE d.live[k].first
               /\ e.live[k].last = IF k = p THEN n ELSE d.live[k].last
    <3>1. /\ d1.live[k].parent = d.live[k].parent
          /\ d1.live[k].prev = (IF k = n THEN old ELSE d.live[k].prev)
          /\ d1.live[k].next = (IF k = old THEN n ELSE d.live[k].next)
          /\ d1.live[k].first = (IF k = p /\ old = Null THEN n ELSE d.live[k].first)
          /\ d1.live[k].last = d.live[k].last
      BY <1>2
    <3>2. /\ d2.live[k].parent = d1.live[k].parent
          /\ d2.live[k].prev = d1.live[k].prev
          /\ d2.live[k].next = d1.live[k].next
          /\ d2.live[k].first = d1.live[k].first
          /\ d2.live[k].last = (IF k = p THEN n ELSE d1.live[k].last)
      BY <1>10
    <3>3. /\ e.live[k].parent = (IF k = n THEN p ELSE d2.live[k].parent)
          /\ e.live[k].prev = d2.live[k].prev
          /\ e.live[k].next = d2.live[k].next
          /\ e.live[k].first = d2.live[k].first
          /\ e.live[k].last = d2.live[k].last
      BY <1>11
    <3> QED
      BY <3>1, <3>2, <3>3
  <2> QED
    BY <1>9, <2>1 DEF Appends
<1> QED
  BY <1>8, <1>12

LEMMA PrependIs ==
  ASSUME NEW d, Shaped(d), Linked(d.live), NEW p \in DOMAIN d.live, NEW n \in DOMAIN d.live, n # p, d.live[n].parent = Null,
         NEW e, NEW old, old = d.live[p].first,
         e = Put(Put(IF old = Null THEN Put(d, p, "last", n) ELSE Put(Put(d, old, "prev", n), n, "next", old),
                     p, "first", n), n, "parent", p)
  PROVE  Relinked(d, e) /\ Prepends(d.live, e.live, p, n)
<1> DEFINE d1 == IF old = Null THEN Put(d, p, "last", n) ELSE Put(Put(d, old, "prev", n), n, "next", old)
           d2 == Put(d1, p, "first", n)
<1>1. Null \notin DOMAIN d.live /\ old \in DOMAIN d.live \cup {Null} /\ d.live[n].next = Null
  BY DEF Linked, Locals, Children, Typed, Pointers
<1>2. Relinked(d, d1) /\ (\A k \in DOMAIN d.live :
         /\ d1.live[k].parent = d.live[k].parent /\ d1.live[k].first = d.live[k].first
         /\ d1.live[k].next = IF k = n THEN old ELSE d.live[k].next
         /\ d1.live[k].prev = IF k = old THEN n ELSE d.live[k].prev
         /\ d1.live[k].last = IF k = p /\ old = Null THEN n ELSE d.live[k].last)
  <2>1. CASE old = Null
    <3>1. Relinked(d, d1) /\ Sets(d, d1, p, "last", n)
      BY <1>1, <2>1, PutIs DEF Pointers
    <3> HIDE DEF d1
    <3> QED
      BY <1>1, <2>1, <3>1 DEF Sets, Pointers
  <2>2. CASE old # Null
    <3> DEFINE c == Put(d, old, "prev", n)
    <3>1. Relinked(d, c) /\ Sets(d, c, old, "prev", n)
      BY <1>1, PutIs DEF Pointers
    <3>2. d1 = Put(c, n, "next", old)
      BY <2>2
    <3> HIDE DEF c, d1
    <3>3. Shaped(c) /\ DOMAIN c.live = DOMAIN d.live
      BY <3>1 DEF Relinked
    <3>4. Relinked(c, d1) /\ Sets(c, d1, n, "next", old)
      BY <1>1, <3>2, <3>3, PutIs DEF Pointers
    <3>5. Relinked(d, d1)
      BY <3>1, <3>4, Relinks
    <3> QED
      BY <2>2, <1>1, <3>1, <3>3, <3>4, <3>5 DEF Sets, Pointers
  <2> QED
    BY <2>1, <2>2
<1>3. Shaped(d1) /\ DOMAIN d1.live = DOMAIN d.live
  BY <1>2 DEF Relinked
<1>4. e = Put(d2, n, "parent", p)
  OBVIOUS
<1> HIDE DEF d1
<1>5. Relinked(d1, d2) /\ Sets(d1, d2, p, "first", n)
  BY <1>1, <1>3, PutIs DEF Pointers
<1> HIDE DEF d2
<1>6. Shaped(d2) /\ DOMAIN d2.live = DOMAIN d.live
  BY <1>3, <1>5 DEF Relinked
<1>7. Relinked(d2, e) /\ Sets(d2, e, n, "parent", p)
  BY <1>1, <1>4, <1>6, PutIs DEF Pointers
<1>8. Relinked(d, e)
  BY <1>2, <1>5, <1>7, Relinks
<1>9. DOMAIN e.live = DOMAIN d.live
  BY <1>8 DEF Relinked
<1>10. \A k \in DOMAIN d.live :
          /\ d2.live[k].parent = d1.live[k].parent
          /\ d2.live[k].prev = d1.live[k].prev
          /\ d2.live[k].next = d1.live[k].next
          /\ d2.live[k].first = (IF k = p THEN n ELSE d1.live[k].first)
          /\ d2.live[k].last = d1.live[k].last
  BY <1>3, <1>5 DEF Sets, Pointers
<1>11. \A k \in DOMAIN d.live :
          /\ e.live[k].parent = (IF k = n THEN p ELSE d2.live[k].parent)
          /\ e.live[k].prev = d2.live[k].prev
          /\ e.live[k].next = d2.live[k].next
          /\ e.live[k].first = d2.live[k].first
          /\ e.live[k].last = d2.live[k].last
  BY <1>6, <1>7 DEF Sets, Pointers
<1>12. Prepends(d.live, e.live, p, n)
  <2>1. ASSUME NEW k \in DOMAIN d.live
        PROVE  /\ e.live[k].parent = IF k = n THEN p ELSE d.live[k].parent
               /\ e.live[k].next = IF k = n THEN old ELSE d.live[k].next
               /\ e.live[k].prev = IF k = old THEN n ELSE d.live[k].prev
               /\ e.live[k].last = IF k = p /\ old = Null THEN n ELSE d.live[k].last
               /\ e.live[k].first = IF k = p THEN n ELSE d.live[k].first
    <3>1. /\ d1.live[k].parent = d.live[k].parent
          /\ d1.live[k].next = (IF k = n THEN old ELSE d.live[k].next)
          /\ d1.live[k].prev = (IF k = old THEN n ELSE d.live[k].prev)
          /\ d1.live[k].last = (IF k = p /\ old = Null THEN n ELSE d.live[k].last)
          /\ d1.live[k].first = d.live[k].first
      BY <1>2
    <3>2. /\ d2.live[k].parent = d1.live[k].parent
          /\ d2.live[k].next = d1.live[k].next
          /\ d2.live[k].prev = d1.live[k].prev
          /\ d2.live[k].last = d1.live[k].last
          /\ d2.live[k].first = (IF k = p THEN n ELSE d1.live[k].first)
      BY <1>10
    <3>3. /\ e.live[k].parent = (IF k = n THEN p ELSE d2.live[k].parent)
          /\ e.live[k].next = d2.live[k].next
          /\ e.live[k].prev = d2.live[k].prev
          /\ e.live[k].last = d2.live[k].last
          /\ e.live[k].first = d2.live[k].first
      BY <1>11
    <3> QED
      BY <3>1, <3>2, <3>3
  <2> QED
    BY <1>9, <2>1 DEF Prepends
<1> QED
  BY <1>8, <1>12

LEMMA FollowIs ==
  ASSUME NEW d, Shaped(d), Linked(d.live), NEW after \in DOMAIN d.live, NEW n \in DOMAIN d.live, n # after,
         d.live[n].parent = Null, d.live[after].next # Null,
         NEW e, NEW next, next = d.live[after].next,
         e = Put(Put(Put(Put(Put(d, n, "prev", after), n, "next", next), next, "prev", n), after, "next", n),
                 n, "parent", d.live[after].parent)
  PROVE  Relinked(d, e) /\ Follows(d.live, e.live, after, n)
<1> DEFINE p  == d.live[after].parent
           d1 == Put(d, n, "prev", after)
           d2 == Put(d1, n, "next", next)
           d3 == Put(d2, next, "prev", n)
           d4 == Put(d3, after, "next", n)
<1>1. Null \notin DOMAIN d.live /\ next \in DOMAIN d.live /\ next # n
  <2>1. next \in DOMAIN d.live
    BY DEF Linked, Locals, Typed, Pointers
  <2>2. next # n
    BY DEF Linked, Locals, Siblings, Children
  <2> QED
    BY <2>1, <2>2 DEF Linked
<1>2. Relinked(d, d1) /\ Sets(d, d1, n, "prev", after)
  BY <1>1, PutIs DEF Pointers
<1>3. Shaped(d1) /\ DOMAIN d1.live = DOMAIN d.live
  BY <1>2 DEF Relinked
<1> HIDE DEF d1
<1>4. Relinked(d1, d2) /\ Sets(d1, d2, n, "next", next)
  BY <1>1, <1>3, PutIs DEF Pointers
<1>5. Shaped(d2) /\ DOMAIN d2.live = DOMAIN d.live
  BY <1>3, <1>4 DEF Relinked
<1> HIDE DEF d2
<1>6. Relinked(d2, d3) /\ Sets(d2, d3, next, "prev", n)
  BY <1>1, <1>5, PutIs DEF Pointers
<1>7. Shaped(d3) /\ DOMAIN d3.live = DOMAIN d.live
  BY <1>5, <1>6 DEF Relinked
<1> HIDE DEF d3
<1>8. Relinked(d3, d4) /\ Sets(d3, d4, after, "next", n)
  BY <1>1, <1>7, PutIs DEF Pointers
<1>9. Shaped(d4) /\ DOMAIN d4.live = DOMAIN d.live
  BY <1>7, <1>8 DEF Relinked
<1>10. e = Put(d4, n, "parent", p)
  BY DEF d1, d2, d3
<1> HIDE DEF d4, p
<1>11. Relinked(d4, e) /\ Sets(d4, e, n, "parent", p)
  BY <1>1, <1>9, <1>10, PutIs DEF Pointers
<1>12. Relinked(d, e)
  <2>1. Relinked(d, d2)
    BY <1>2, <1>4, Relinks
  <2>2. Relinked(d, d3)
    BY <1>6, <2>1, Relinks
  <2>3. Relinked(d, d4)
    BY <1>8, <2>2, Relinks
  <2> QED
    BY <1>11, <2>3, Relinks
<1>13. DOMAIN e.live = DOMAIN d.live
  BY <1>12 DEF Relinked
<1>14. p = d.live[after].parent
  BY DEF p
<1>15. \A k \in DOMAIN d.live :
          /\ d1.live[k].parent = d.live[k].parent
          /\ d1.live[k].prev = (IF k = n THEN after ELSE d.live[k].prev)
          /\ d1.live[k].next = d.live[k].next
          /\ d1.live[k].first = d.live[k].first
          /\ d1.live[k].last = d.live[k].last
  BY <1>2 DEF Sets, Pointers
<1>16. \A k \in DOMAIN d.live :
          /\ d2.live[k].parent = d1.live[k].parent
          /\ d2.live[k].prev = d1.live[k].prev
          /\ d2.live[k].next = (IF k = n THEN next ELSE d1.live[k].next)
          /\ d2.live[k].first = d1.live[k].first
          /\ d2.live[k].last = d1.live[k].last
  BY <1>3, <1>4 DEF Sets, Pointers
<1>17. \A k \in DOMAIN d.live :
          /\ d3.live[k].parent = d2.live[k].parent
          /\ d3.live[k].prev = (IF k = next THEN n ELSE d2.live[k].prev)
          /\ d3.live[k].next = d2.live[k].next
          /\ d3.live[k].first = d2.live[k].first
          /\ d3.live[k].last = d2.live[k].last
  BY <1>5, <1>6 DEF Sets, Pointers
<1>18. \A k \in DOMAIN d.live :
          /\ d4.live[k].parent = d3.live[k].parent
          /\ d4.live[k].prev = d3.live[k].prev
          /\ d4.live[k].next = (IF k = after THEN n ELSE d3.live[k].next)
          /\ d4.live[k].first = d3.live[k].first
          /\ d4.live[k].last = d3.live[k].last
  BY <1>7, <1>8 DEF Sets, Pointers
<1>19. \A k \in DOMAIN d.live :
          /\ e.live[k].parent = (IF k = n THEN p ELSE d4.live[k].parent)
          /\ e.live[k].prev = d4.live[k].prev
          /\ e.live[k].next = d4.live[k].next
          /\ e.live[k].first = d4.live[k].first
          /\ e.live[k].last = d4.live[k].last
  BY <1>9, <1>11 DEF Sets, Pointers
<1>20. Follows(d.live, e.live, after, n)
  <2>1. ASSUME NEW k \in DOMAIN d.live
        PROVE  /\ e.live[k].parent = IF k = n THEN p ELSE d.live[k].parent
               /\ e.live[k].prev = IF k = n THEN after ELSE IF k = next THEN n ELSE d.live[k].prev
               /\ e.live[k].next = IF k = n THEN next ELSE IF k = after THEN n ELSE d.live[k].next
               /\ e.live[k].first = d.live[k].first
               /\ e.live[k].last = d.live[k].last
    <3>1. /\ d1.live[k].parent = d.live[k].parent
          /\ d1.live[k].prev = (IF k = n THEN after ELSE d.live[k].prev)
          /\ d1.live[k].next = d.live[k].next
          /\ d1.live[k].first = d.live[k].first
          /\ d1.live[k].last = d.live[k].last
      BY <1>15
    <3>2. /\ d2.live[k].parent = d1.live[k].parent
          /\ d2.live[k].prev = d1.live[k].prev
          /\ d2.live[k].next = (IF k = n THEN next ELSE d1.live[k].next)
          /\ d2.live[k].first = d1.live[k].first
          /\ d2.live[k].last = d1.live[k].last
      BY <1>16
    <3>3. /\ d3.live[k].parent = d2.live[k].parent
          /\ d3.live[k].prev = (IF k = next THEN n ELSE d2.live[k].prev)
          /\ d3.live[k].next = d2.live[k].next
          /\ d3.live[k].first = d2.live[k].first
          /\ d3.live[k].last = d2.live[k].last
      BY <1>17
    <3>4. /\ d4.live[k].parent = d3.live[k].parent
          /\ d4.live[k].prev = d3.live[k].prev
          /\ d4.live[k].next = (IF k = after THEN n ELSE d3.live[k].next)
          /\ d4.live[k].first = d3.live[k].first
          /\ d4.live[k].last = d3.live[k].last
      BY <1>18
    <3>5. /\ e.live[k].parent = (IF k = n THEN p ELSE d4.live[k].parent)
          /\ e.live[k].prev = d4.live[k].prev
          /\ e.live[k].next = d4.live[k].next
          /\ e.live[k].first = d4.live[k].first
          /\ e.live[k].last = d4.live[k].last
      BY <1>19
    <3>6. /\ e.live[k].parent = IF k = n THEN p ELSE d.live[k].parent
          /\ e.live[k].first = d.live[k].first /\ e.live[k].last = d.live[k].last
      BY <3>1, <3>2, <3>3, <3>4, <3>5
    <3>7. e.live[k].prev = IF k = n THEN after ELSE IF k = next THEN n ELSE d.live[k].prev
      BY <1>1, <3>1, <3>2, <3>3, <3>4, <3>5
    <3>8. n # after
      OBVIOUS
    <3>9. e.live[k].next = IF k = n THEN next ELSE IF k = after THEN n ELSE d.live[k].next
      BY <3>1, <3>2, <3>3, <3>4, <3>5, <3>8
    <3> QED
      BY <3>6, <3>7, <3>9
  <2> QED
    BY <1>13, <1>14, <2>1 DEF Follows
<1> QED
  BY <1>12, <1>20

-----------------------------------------------------------------------------
\* A node without a first child is nobody's parent: the least of its children in the
\* order of the siblings would have no sibling before it.
LEMMA Childless ==
  ASSUME NEW L, Linked(L), NEW x \in DOMAIN L, L[x].first = Null, NEW k \in DOMAIN L
  PROVE  L[k].parent # x
<1> SUFFICES ASSUME L[k].parent = x PROVE FALSE
  OBVIOUS
<1>1. Locals(L) /\ Null \notin DOMAIN L
  BY DEF Linked
<1>2. PICK r : Before(L, r)
  BY DEF Linked
<1> DEFINE C == {c \in DOMAIN L : L[c].parent = x}
           T == {r[c] : c \in C}
<1>3. T \subseteq Nat /\ T # {}
  BY <1>2 DEF Before
<1>4. PICK t \in T : \A u \in T : t <= u
  <2> HIDE DEF T
  <2> QED
    BY <1>3, LeastOf
<1>5. PICK c \in C : t = r[c]
  BY <1>4
<1>6. L[c].prev # Null
  BY <1>1, <1>5 DEF Locals, Children
<1>7. PICK b \in DOMAIN L : b = L[c].prev
  BY <1>1, <1>5, <1>6 DEF Locals, Typed, Pointers
<1>8. L[b].next = c /\ L[b].parent = x
  BY <1>1, <1>5, <1>6, <1>7 DEF Locals, Siblings
<1>9. r[b] < r[c] /\ r[b] \in T
  BY <1>1, <1>2, <1>5, <1>7, <1>8 DEF Before
<1>10. r[b] \in Nat /\ r[c] \in Nat
  BY <1>2, <1>5, <1>7 DEF Before
<1> QED
  BY <1>4, <1>5, <1>9, <1>10

LEMMA Adding ==
  ASSUME NEW L, Linked(L), NEW x, x \notin DOMAIN L, x # Null, NEW M, DOMAIN M = DOMAIN L \cup {x},
         \A k \in DOMAIN L : M[k] = L[k],
         M[x].parent = Null, M[x].prev = Null, M[x].next = Null, M[x].first = Null, M[x].last = Null
  PROVE  Linked(M)
<1>1. Locals(L) /\ Null \notin DOMAIN L
  BY DEF Linked
<1>2. PICK h : Lower(L, h)
  BY DEF Linked
<1>3. PICK r : Before(L, r)
  BY DEF Linked
<1>4. Typed(M)
  BY <1>1 DEF Locals, Typed, Pointers
<1>5. \A k \in DOMAIN L : /\ L[k].parent \in DOMAIN L \cup {Null} /\ L[k].prev \in DOMAIN L \cup {Null}
                          /\ L[k].next \in DOMAIN L \cup {Null} /\ L[k].first \in DOMAIN L \cup {Null}
                          /\ L[k].last \in DOMAIN L \cup {Null}
  BY <1>1, Pointed DEF Locals
<1>6. Ends(M)
  BY <1>1, <1>5 DEF Locals, Ends
<1>7. Siblings(M)
  BY <1>1, <1>5 DEF Locals, Siblings
<1>8. Children(M)
  BY <1>1, <1>5 DEF Locals, Children
<1>9. Lower(M, [k \in DOMAIN M |-> IF k = x THEN 0 ELSE h[k]])
  BY <1>1, <1>2, <1>5 DEF Lower
<1>10. Before(M, [k \in DOMAIN M |-> IF k = x THEN 0 ELSE r[k]])
  BY <1>1, <1>3, <1>5 DEF Before
<1> QED
  BY <1>1, <1>4, <1>6, <1>7, <1>8, <1>9, <1>10 DEF Linked, Locals

LEMMA Removing ==
  ASSUME NEW L, Linked(L), NEW x \in DOMAIN L, L[x].parent = Null, L[x].first = Null,
         NEW M, M = [k \in DOMAIN L \ {x} |-> L[k]]
  PROVE  Linked(M)
<1>1. Locals(L) /\ Null \notin DOMAIN L
  BY DEF Linked
<1>2. PICK h : Lower(L, h)
  BY DEF Linked
<1>3. PICK r : Before(L, r)
  BY DEF Linked
<1>4. \A k \in DOMAIN L : L[k].parent # x
  BY Childless
<1>5. \A k \in DOMAIN L : /\ L[k].parent \in DOMAIN L \cup {Null} /\ L[k].prev \in DOMAIN L \cup {Null}
                          /\ L[k].next \in DOMAIN L \cup {Null} /\ L[k].first \in DOMAIN L \cup {Null}
                          /\ L[k].last \in DOMAIN L \cup {Null}
  BY <1>1, Pointed DEF Locals
<1>6. \A k \in DOMAIN L : L[k].first # x /\ L[k].last # x /\ L[k].next # x /\ L[k].prev # x
  BY <1>1, <1>5 DEF Locals, Ends, Siblings, Children
<1>7. DOMAIN M = DOMAIN L \ {x} /\ \A k \in DOMAIN M : M[k] = L[k]
  OBVIOUS
<1>8. Typed(M)
  BY <1>1, <1>4, <1>6, <1>7 DEF Locals, Typed, Pointers
<1>9. Ends(M)
  BY <1>1, <1>4, <1>5, <1>6, <1>7 DEF Locals, Ends
<1>10. Siblings(M)
  BY <1>1, <1>4, <1>5, <1>6, <1>7 DEF Locals, Siblings
<1>11. Children(M)
  BY <1>1, <1>4, <1>5, <1>6, <1>7 DEF Locals, Children
<1>12. Lower(M, [k \in DOMAIN M |-> h[k]])
  BY <1>1, <1>2, <1>4, <1>5, <1>7 DEF Lower
<1>13. Before(M, [k \in DOMAIN M |-> r[k]])
  BY <1>1, <1>3, <1>5, <1>6, <1>7 DEF Before
<1> QED
  BY <1>1, <1>7, <1>8, <1>9, <1>10, <1>11, <1>12, <1>13 DEF Linked, Locals

-----------------------------------------------------------------------------
(* Lists of things, each once.                                              *)

\* s has every element of T, once.
Lists(s, T) ==
  /\ s \in Seq(T)
  /\ \A x \in T : \E i \in 1..Len(s) : s[i] = x
  /\ \A i, j \in 1..Len(s) : s[i] = s[j] => i = j

LEMMA ListSet ==
  ASSUME NEW s, NEW T, Lists(s, T)
  PROVE  Seqs!ToSet(s) = T
<1>1. DOMAIN s = 1..Len(s) /\ \A i \in 1..Len(s) : s[i] \in T
  BY LenProperties, ElementOfSeq DEF Lists
<1> QED
  BY <1>1 DEF Lists, Seqs!ToSet

LEMMA ListHead ==
  ASSUME NEW s, NEW T, Lists(s, T), s # <<>>
  PROVE  Head(s) \in T /\ Lists(Tail(s), T \ {Head(s)}) /\ Len(s) \in Nat \ {0} /\ Len(Tail(s)) = Len(s) - 1
<1>1. s \in Seq(T) /\ Len(s) \in Nat \ {0} /\ Head(s) = s[1] /\ Head(s) \in T
  BY EmptySeq, HeadTailProperties DEF Lists
<1> DEFINE t == Tail(s)
<1>2. t \in Seq(T) /\ Len(t) = Len(s) - 1 /\ \A i \in 1..Len(t) : t[i] = s[i + 1]
  BY <1>1, HeadTailProperties
<1> HIDE DEF t
<1>3. \A i \in 1..Len(t) : t[i] \in T \ {Head(s)}
  <2>1. \A i \in 1..Len(t) : i + 1 \in 1..Len(s) /\ i + 1 # 1 /\ 1 \in 1..Len(s)
    BY <1>1, <1>2
  <2>2. \A i \in 1..Len(t) : t[i] # s[1]
    BY <1>2, <2>1 DEF Lists
  <2>3. \A i \in 1..Len(t) : t[i] \in T
    BY <1>2, ElementOfSeq
  <2> QED
    BY <1>1, <2>2, <2>3
<1>4. t \in Seq(T \ {Head(s)})
  <2>1. Len(t) \in Nat /\ DOMAIN t = 1..Len(t) /\ t = [i \in 1..Len(t) |-> t[i]]
    BY <1>2, LenProperties
  <2>2. t \in [1..Len(t) -> T \ {Head(s)}]
    BY <1>3, <2>1
  <2> QED
    BY <2>1, <2>2, SeqDef
<1>5. ASSUME NEW x \in T \ {Head(s)} PROVE \E i \in 1..Len(t) : t[i] = x
  <2>1. PICK i \in 1..Len(s) : s[i] = x
    BY DEF Lists
  <2>2. i # 1 /\ i - 1 \in 1..Len(t) /\ i - 1 + 1 = i
    BY <1>1, <1>2, <2>1
  <2>3. t[i - 1] = x
    BY <1>2, <2>1, <2>2
  <2> QED
    BY <2>2, <2>3
<1>6. ASSUME NEW i \in 1..Len(t), NEW j \in 1..Len(t), t[i] = t[j] PROVE i = j
  <2>1. i + 1 \in 1..Len(s) /\ j + 1 \in 1..Len(s)
    BY <1>1, <1>2
  <2>2. s[i + 1] = s[j + 1]
    BY <1>2, <1>6
  <2>3. i + 1 = j + 1
    BY <2>1, <2>2 DEF Lists
  <2> QED
    BY <2>3
<1>7. Lists(t, T \ {Head(s)})
  BY <1>4, <1>5, <1>6 DEF Lists
<1> QED
  BY <1>1, <1>2, <1>7 DEF t

LEMMA ListConcat ==
  ASSUME NEW s, NEW T, Lists(s, T), NEW t, NEW U, Lists(t, U), T \cap U = {}
  PROVE  Lists(s \o t, T \cup U) /\ Len(s \o t) = Len(s) + Len(t)
<1> DEFINE c == s \o t
<1>1. s \in Seq(T \cup U) /\ t \in Seq(T \cup U)
  BY SeqMonotonic DEF Lists
<1>2. c \in Seq(T \cup U) /\ Len(c) = Len(s) + Len(t)
      /\ \A i \in 1..Len(s) + Len(t) : c[i] = IF i <= Len(s) THEN s[i] ELSE t[i - Len(s)]
  BY <1>1, ConcatProperties
<1>3. Len(s) \in Nat /\ Len(t) \in Nat
  BY <1>1, LenProperties
<1>4. (\A i \in 1..Len(s) : s[i] \in T) /\ (\A i \in 1..Len(t) : t[i] \in U)
  BY ElementOfSeq DEF Lists
<1> HIDE DEF c
<1>5. ASSUME NEW x \in T \cup U PROVE \E i \in 1..Len(c) : c[i] = x
  <2>1. CASE x \in T
    <3>1. PICK i \in 1..Len(s) : s[i] = x
      BY <2>1 DEF Lists
    <3>2. i \in 1..Len(c) /\ c[i] = x
      BY <1>2, <1>3, <3>1
    <3> QED
      BY <3>2
  <2>2. CASE x \in U
    <3>1. PICK i \in 1..Len(t) : t[i] = x
      BY <2>2 DEF Lists
    <3>2. i + Len(s) \in 1..Len(c) /\ ~(i + Len(s) <= Len(s)) /\ i + Len(s) - Len(s) = i
      BY <1>2, <1>3, <3>1
    <3>3. c[i + Len(s)] = x
      BY <1>2, <3>1, <3>2
    <3> QED
      BY <3>2, <3>3
  <2> QED
    BY <2>1, <2>2
<1>6. ASSUME NEW i \in 1..Len(c), NEW j \in 1..Len(c), c[i] = c[j] PROVE i = j
  <2>1. CASE i <= Len(s) /\ j <= Len(s)
    <3>1. i \in 1..Len(s) /\ j \in 1..Len(s)
      BY <1>2, <1>3, <2>1
    <3>2. c[i] = s[i] /\ c[j] = s[j]
      BY <1>2, <2>1
    <3> QED
      BY <1>6, <3>1, <3>2 DEF Lists
  <2>2. CASE i <= Len(s) /\ ~(j <= Len(s))
    <3>1. i \in 1..Len(s) /\ j - Len(s) \in 1..Len(t)
      BY <1>2, <1>3, <2>2
    <3>2. c[i] = s[i] /\ c[j] = t[j - Len(s)]
      BY <1>2, <2>2
    <3> QED
      BY <1>4, <1>6, <3>1, <3>2
  <2>3. CASE ~(i <= Len(s)) /\ j <= Len(s)
    <3>1. j \in 1..Len(s) /\ i - Len(s) \in 1..Len(t)
      BY <1>2, <1>3, <2>3
    <3>2. c[j] = s[j] /\ c[i] = t[i - Len(s)]
      BY <1>2, <2>3
    <3> QED
      BY <1>4, <1>6, <3>1, <3>2
  <2>4. CASE ~(i <= Len(s)) /\ ~(j <= Len(s))
    <3>1. i - Len(s) \in 1..Len(t) /\ j - Len(s) \in 1..Len(t)
      BY <1>2, <1>3, <2>4
    <3>2. c[i] = t[i - Len(s)] /\ c[j] = t[j - Len(s)]
      BY <1>2, <2>4
    <3>3. i - Len(s) = j - Len(s)
      <4>1. \A k, m \in 1..Len(t) : t[k] = t[m] => k = m
        BY DEF Lists
      <4>2. t[i - Len(s)] = t[j - Len(s)]
        BY <1>6, <3>2
      <4> QED
        BY <3>1, <4>1, <4>2
    <3> QED
      BY <1>2, <1>3, <3>3
  <2> QED
    BY <2>1, <2>2, <2>3, <2>4
<1>7. Lists(c, T \cup U)
  BY <1>2, <1>5, <1>6 DEF Lists
<1> QED
  BY <1>2, <1>7 DEF c

LEMMA ListOne ==
  ASSUME NEW x
  PROVE  Lists(<<x>>, {x}) /\ Len(<<x>>) = 1
BY DEF Lists

LEMMA ListAppend ==
  ASSUME NEW s, NEW T, Lists(s, T), NEW x, x \notin T
  PROVE  Lists(Append(s, x), T \cup {x})
<1>1. s \in Seq(T \cup {x})
  BY SeqMonotonic DEF Lists
<1>2. Append(s, x) = s \o <<x>>
  BY <1>1, AppendIsConcat
<1>3. Lists(<<x>>, {x}) /\ T \cap {x} = {}
  BY ListOne
<1>4. Lists(s \o <<x>>, T \cup {x})
  BY <1>3, ListConcat
<1> QED
  BY <1>2, <1>4

LEMMA ListReverse ==
  ASSUME NEW s, NEW T, Lists(s, T)
  PROVE  Lists(Seqs!Reverse(s), T) /\ Len(Seqs!Reverse(s)) = Len(s)
<1> DEFINE r == Seqs!Reverse(s)
<1>1. Len(s) \in Nat /\ \A i \in 1..Len(s) : s[i] \in T
  BY LenProperties, ElementOfSeq DEF Lists
<1>2. r = [i \in 1..Len(s) |-> s[(Len(s) - i) + 1]]
  BY DEF Seqs!Reverse
<1>3. \A i \in 1..Len(s) : (Len(s) - i) + 1 \in 1..Len(s)
  BY <1>1
<1>4. r \in Seq(T) /\ Len(r) = Len(s) /\ \A i \in 1..Len(s) : r[i] = s[(Len(s) - i) + 1]
  <2>1. r \in [1..Len(s) -> T]
    BY <1>1, <1>2, <1>3
  <2> HIDE DEF r
  <2>2. r \in Seq(T)
    BY <1>1, <2>1, SeqDef
  <2>3. DOMAIN r = 1..Len(r) /\ DOMAIN r = 1..Len(s) /\ Len(r) \in Nat
    BY <1>2, <2>2, LenProperties
  <2>4. Len(r) = Len(s)
    BY <1>1, <2>3
  <2> QED
    BY <1>2, <2>2, <2>4
<1> HIDE DEF r
<1>5. ASSUME NEW x \in T PROVE \E i \in 1..Len(r) : r[i] = x
  <2>1. PICK i \in 1..Len(s) : s[i] = x
    BY DEF Lists
  <2>2. (Len(s) - i) + 1 \in 1..Len(s) /\ (Len(s) - ((Len(s) - i) + 1)) + 1 = i
    BY <1>1
  <2>3. r[(Len(s) - i) + 1] = x
    BY <1>4, <2>1, <2>2
  <2> QED
    BY <1>4, <2>2, <2>3
<1>6. ASSUME NEW i \in 1..Len(r), NEW j \in 1..Len(r), r[i] = r[j] PROVE i = j
  <2>0. /\ (Len(s) - i) + 1 \in 1..Len(s) /\ (Len(s) - j) + 1 \in 1..Len(s)
        /\ s[(Len(s) - i) + 1] = s[(Len(s) - j) + 1]
    BY <1>3, <1>4, <1>6
  <2>1. (Len(s) - i) + 1 = (Len(s) - j) + 1
    BY <2>0 DEF Lists
  <2> QED
    BY <1>1, <1>4, <2>1
<1>7. Lists(r, T)
  BY <1>4, <1>5, <1>6 DEF Lists
<1> QED
  BY <1>4, <1>7 DEF r

LEMMA ListCount ==
  ASSUME NEW s, NEW T, Lists(s, T)
  PROVE  IsFiniteSet(T) /\ Cardinality(T) = Len(s) /\ Len(s) \in Nat
<1>1. Len(s) \in Nat /\ s \in [1..Len(s) -> T]
  BY LenProperties DEF Lists
<1>2. s \in Bijection(1..Len(s), T)
  BY <1>1 DEF Lists, Bijection, Injection, Surjection, IsInjective
<1>3. IsFiniteSet(1..Len(s)) /\ Cardinality(1..Len(s)) = Len(s)
  <2>1. 1 \in Int /\ Len(s) \in Int
    BY <1>1
  <2> QED
    BY <1>1, <2>1, FS_Interval
<1>4. ExistsBijection(1..Len(s), T)
  BY <1>2 DEF ExistsBijection
<1> QED
  BY <1>1, <1>3, <1>4, FS_Bijection

LEMMA ListInterval ==
  ASSUME NEW a \in Nat, NEW n \in Nat
  PROVE  Lists([i \in 1..n |-> a + i], (a + 1)..(a + n)) /\ Len([i \in 1..n |-> a + i]) = n
<1> DEFINE s == [i \in 1..n |-> a + i]
           T == (a + 1)..(a + n)
<1>1. s \in [1..n -> T]
  OBVIOUS
<1>2. s \in Seq(T)
  <2> HIDE DEF s, T
  <2> QED
    BY <1>1, SeqDef
<1>3. Len(s) = n
  <2>1. DOMAIN s = 1..n
    OBVIOUS
  <2> HIDE DEF s, T
  <2>2. DOMAIN s = 1..Len(s) /\ Len(s) \in Nat
    BY <1>2, LenProperties
  <2> QED
    BY <2>1, <2>2
<1>4. ASSUME NEW x \in T PROVE \E i \in 1..n : s[i] = x
  <2>1. x - a \in 1..n /\ s[x - a] = x
    OBVIOUS
  <2> QED
    BY <2>1
<1>5. \A i, j \in 1..n : s[i] = s[j] => i = j
  OBVIOUS
<1> HIDE DEF s, T
<1>6. Lists(s, T)
  BY <1>2, <1>3, <1>4, <1>5 DEF Lists
<1> QED
  BY <1>3, <1>6 DEF s, T

\* DynArray::SwapRemove takes the element at i out.
LEMMA ListSwapRemove ==
  ASSUME NEW s, NEW T, Lists(s, T), NEW i \in 1..Len(s)
  PROVE  Lists(SwapRemove(s, i), T \ {s[i]})
<1> DEFINE n == Len(s)
           m == [s EXCEPT ![i] = s[n]]
           t == SwapRemove(s, i)
<1>1. n \in Nat \ {0} /\ s \in Seq(T) /\ (\A j \in 1..n : s[j] \in T) /\ n \in 1..n
  BY LenProperties, ElementOfSeq DEF Lists
<1>2. m \in Seq(T) /\ Len(m) = n /\ \A j \in 1..n : m[j] = IF j = i THEN s[n] ELSE s[j]
  BY <1>1, ExceptSeq
<1>3. t = SubSeq(m, 1, n - 1)
  BY <1>2 DEF SwapRemove, Seqs!Front, Seqs!Last
<1> HIDE DEF m, t
<1>4. \A j \in 1..(n - 1) : j \in 1..n /\ m[j] = (IF j = i THEN s[n] ELSE s[j]) /\ m[j] # s[i] /\ m[j] \in T
  <2> SUFFICES ASSUME NEW j \in 1..(n - 1)
               PROVE  j \in 1..n /\ m[j] = (IF j = i THEN s[n] ELSE s[j]) /\ m[j] # s[i] /\ m[j] \in T
    OBVIOUS
  <2>1. j \in 1..n /\ j # n
    BY <1>1
  <2>2. m[j] = (IF j = i THEN s[n] ELSE s[j])
    BY <1>2, <2>1
  <2>3. m[j] # s[i]
    BY <1>1, <2>1, <2>2 DEF Lists
  <2> QED
    BY <1>1, <2>1, <2>2, <2>3
<1>5. /\ t \in Seq(T \ {s[i]}) /\ Len(t) = n - 1
      /\ \A j \in 1..(n - 1) : t[j] = IF j = i THEN s[n] ELSE s[j]
  <2>1. 1 \in Int /\ n - 1 \in Int /\ (n - 1) - 1 + 1 = n - 1
    BY <1>1
  <2>2. \A j \in 1..(n - 1) : m[j] \in T \ {s[i]}
    BY <1>4
  <2>3. /\ t \in Seq(T \ {s[i]})
        /\ Len(t) = IF 1 <= n - 1 THEN (n - 1) - 1 + 1 ELSE 0
        /\ \A j \in 1..((n - 1) - 1 + 1) : t[j] = m[1 + j - 1]
    BY <1>3, <2>1, <2>2, SubSeqProperties
  <2>4. \A j \in 1..(n - 1) : 1 + j - 1 = j
    BY <1>1
  <2>5. \A j \in 1..(n - 1) : t[j] = m[j]
    BY <2>1, <2>3, <2>4
  <2>8. n = 1 \/ 1 <= n - 1
    <3>1. n \in Nat /\ n # 0
      BY <1>1
    <3> HIDE DEF n
    <3> QED
      BY <3>1
  <2>9. Len(t) = IF 1 <= n - 1 THEN (n - 1) - 1 + 1 ELSE 0
    BY <2>3
  <2>6. Len(t) = n - 1
    <3> HIDE DEF n
    <3> QED
      BY <2>1, <2>8, <2>9
  <2>7. \A j \in 1..(n - 1) : t[j] = IF j = i THEN s[n] ELSE s[j]
    BY <1>4, <2>5
  <2> QED
    BY <2>3, <2>6, <2>7
<1>6. ASSUME NEW x \in T \ {s[i]} PROVE \E j \in 1..(n - 1) : t[j] = x
  <2>1. PICK k \in 1..n : s[k] = x
    BY DEF Lists
  <2>2. k # i
    BY <2>1
  <2>3. CASE k = n
    <3>1. i \in 1..(n - 1)
      BY <1>1, <2>2, <2>3
    <3> QED
      BY <1>5, <2>1, <2>3, <3>1
  <2>4. CASE k # n
    <3>1. k \in 1..(n - 1)
      BY <1>1, <2>4
    <3> QED
      BY <1>5, <2>1, <2>2, <3>1
  <2> QED
    BY <2>3, <2>4
<1>7. ASSUME NEW j \in 1..(n - 1), NEW k \in 1..(n - 1), t[j] = t[k] PROVE j = k
  <2>1. j \in 1..n /\ k \in 1..n /\ j # n /\ k # n
    BY <1>1
  <2> QED
    BY <1>1, <1>5, <1>7, <2>1 DEF Lists
<1>8. Lists(t, T \ {s[i]})
  BY <1>5, <1>6, <1>7 DEF Lists
<1> QED
  BY <1>8 DEF t

\* The element at i goes, and those behind it move up.
LEMMA RemoveAtIs ==
  ASSUME NEW V, NEW s \in Seq(V), NEW i \in 1..Len(s)
  PROVE  /\ Seqs!RemoveAt(s, i) \in Seq(V) /\ Len(Seqs!RemoveAt(s, i)) = Len(s) - 1
         /\ \A j \in 1..(Len(s) - 1) : Seqs!RemoveAt(s, i)[j] = IF j < i THEN s[j] ELSE s[j + 1]
<1> DEFINE n == Len(s)
           a == SubSeq(s, 1, i - 1)
           b == SubSeq(s, i + 1, n)
           t == a \o b
<1>1. n \in Nat /\ i \in Int /\ 1 <= i /\ i <= n /\ \A j \in 1..n : s[j] \in V
  BY LenProperties, ElementOfSeq
<1>2. a \in Seq(V) /\ Len(a) = i - 1 /\ \A j \in 1..(i - 1) : a[j] = s[j]
  <2>1. 1 \in Int /\ i - 1 \in Int /\ (i - 1) - 1 + 1 = i - 1 /\ \A j \in 1..(i - 1) : s[j] \in V /\ 1 + j - 1 = j
    BY <1>1
  <2>2. /\ a \in Seq(V) /\ Len(a) = (IF 1 <= i - 1 THEN (i - 1) - 1 + 1 ELSE 0)
        /\ \A j \in 1..((i - 1) - 1 + 1) : a[j] = s[1 + j - 1]
    BY <2>1, SubSeqProperties
  <2> HIDE DEF a
  <2>3. Len(a) = i - 1
    BY <1>1, <2>2
  <2>4. \A j \in 1..(i - 1) : a[j] = s[j]
    BY <2>1, <2>2
  <2> QED
    BY <2>2, <2>3, <2>4
<1>3. b \in Seq(V) /\ Len(b) = n - i /\ \A j \in 1..(n - i) : b[j] = s[i + j]
  <2>1. i + 1 \in Int /\ n \in Int /\ n - (i + 1) + 1 = n - i
        /\ (\A j \in (i + 1)..n : s[j] \in V) /\ \A j \in 1..(n - i) : i + 1 + j - 1 = i + j
    BY <1>1
  <2>2. /\ b \in Seq(V) /\ Len(b) = (IF i + 1 <= n THEN n - (i + 1) + 1 ELSE 0)
        /\ \A j \in 1..(n - (i + 1) + 1) : b[j] = s[i + 1 + j - 1]
    BY <2>1, SubSeqProperties
  <2> HIDE DEF b
  <2>3. Len(b) = n - i
    BY <1>1, <2>2
  <2>4. \A j \in 1..(n - i) : b[j] = s[i + j]
    BY <2>1, <2>2
  <2> QED
    BY <2>2, <2>3, <2>4
<1> HIDE DEF a, b
<1>4. /\ t \in Seq(V) /\ Len(t) = Len(a) + Len(b)
      /\ \A j \in 1..(Len(a) + Len(b)) : t[j] = IF j <= Len(a) THEN a[j] ELSE b[j - Len(a)]
  BY <1>2, <1>3, ConcatProperties
<1>5. Len(t) = n - 1
  BY <1>1, <1>2, <1>3, <1>4
<1>6. ASSUME NEW j \in 1..(n - 1) PROVE t[j] = IF j < i THEN s[j] ELSE s[j + 1]
  <2>1. j \in 1..(Len(a) + Len(b))
    BY <1>1, <1>2, <1>3
  <2>2. CASE j < i
    <3>1. j <= Len(a) /\ j \in 1..(i - 1)
      BY <1>1, <1>2, <2>2
    <3> QED
      BY <1>2, <1>4, <2>1, <2>2, <3>1
  <2>3. CASE ~(j < i)
    <3>1. ~(j <= Len(a)) /\ j - Len(a) \in 1..(n - i) /\ i + (j - Len(a)) = j + 1
      BY <1>1, <1>2, <2>3
    <3>2. t[j] = b[j - Len(a)] /\ b[j - Len(a)] = s[i + (j - Len(a))]
      BY <1>3, <1>4, <2>1, <3>1
    <3> QED
      BY <2>3, <3>1, <3>2
  <2> QED
    BY <2>2, <2>3
<1>7. Seqs!RemoveAt(s, i) = t
  BY DEF Seqs!RemoveAt, a, b
<1> HIDE DEF t
<1> QED
  BY <1>4, <1>5, <1>6, <1>7

-----------------------------------------------------------------------------
(* The pools.                                                               *)

\* A pool of which the items I are in use.
PoolFields == {"root", "blocks", "current", "untracked"}
Stock(P, I) ==
  /\ DOMAIN P = PoolFields /\ P.blocks \in Nat
  /\ IsFiniteSet(I) /\ P.current = Cardinality(I)
  /\ I \subseteq 1..(P.blocks * ItemsPerBlock)
  /\ Lists(P.root, 1..(P.blocks * ItemsPerBlock) \ I)

LEMMA StockEmpty == Stock(NewPool, {}) /\ NewPool.untracked = 0
<1>1. ItemsPerBlock \in Nat
  BY DomAssumption
<1>2. 1..(0 * ItemsPerBlock) = {}
  BY <1>1
<1>3. Lists(<<>>, {})
  BY DEF Lists
<1>4. IsFiniteSet({}) /\ Cardinality({}) = 0
  BY FS_EmptySet
<1>5. Lists(<<>>, 1..(0 * ItemsPerBlock) \ {})
  BY <1>2, <1>3
<1> QED
  BY <1>4, <1>5 DEF Stock, NewPool, PoolFields

LEMMA StockStocked ==
  ASSUME NEW P, NEW I, Stock(P, I), NEW S, S = Stocked(P)
  PROVE  Stock(S, I) /\ S.untracked = P.untracked /\ S.root # <<>>
<1>1. CASE P.root # <<>>
  BY <1>1 DEF Stocked
<1>2. CASE P.root = <<>>
  <2> DEFINE a == P.blocks * ItemsPerBlock
             s == [i \in 1..ItemsPerBlock |-> P.blocks * ItemsPerBlock + i]
  <2>1. ItemsPerBlock \in Nat /\ ItemsPerBlock # 0 /\ P.blocks \in Nat
    BY DomAssumption DEF Stock
  <2>2. a \in Nat /\ (P.blocks + 1) * ItemsPerBlock = a + ItemsPerBlock
    BY <2>1
  <2>3. S = [P EXCEPT !.root = s, !.blocks = P.blocks + 1]
    BY <1>2 DEF Stocked
  <2>4. s = [i \in 1..ItemsPerBlock |-> a + i]
    OBVIOUS
  <2>5. 1..a = I
    <3>1. Lists(<<>>, 1..a \ I) /\ I \subseteq 1..a
      BY <1>2 DEF Stock
    <3> HIDE DEF a
    <3>2. ASSUME NEW x \in 1..a PROVE x \in I
      BY <3>1 DEF Lists
    <3> QED
      BY <3>1, <3>2
  <2> HIDE DEF s, a
  <2>6. Lists(s, (a + 1)..(a + ItemsPerBlock)) /\ Len(s) = ItemsPerBlock
    BY <2>1, <2>2, <2>4, ListInterval
  <2>7. 1..(a + ItemsPerBlock) \ I = (a + 1)..(a + ItemsPerBlock) /\ I \subseteq 1..(a + ItemsPerBlock)
    BY <2>1, <2>2, <2>5
  <2>8. s # <<>>
    BY <2>1, <2>6
  <2>9. DOMAIN P = PoolFields
    BY DEF Stock
  <2>10. DOMAIN S = PoolFields /\ S.root = s /\ S.blocks = P.blocks + 1 /\ S.current = P.current /\ S.untracked = P.untracked
    BY <2>3, <2>9 DEF PoolFields
  <2>11. S.blocks * ItemsPerBlock = a + ItemsPerBlock /\ S.blocks \in Nat
    BY <2>1, <2>2, <2>10
  <2>12. Lists(S.root, 1..(S.blocks * ItemsPerBlock) \ I) /\ I \subseteq 1..(S.blocks * ItemsPerBlock)
    BY <2>6, <2>7, <2>10, <2>11
  <2> QED
    BY <2>8, <2>10, <2>11, <2>12 DEF Stock
<1> QED
  BY <1>1, <1>2

\* The first free item goes out; the items s come back.
Taken(S, Q) ==
  /\ DOMAIN Q = PoolFields /\ Q.root = Tail(S.root) /\ Q.blocks = S.blocks
  /\ Q.current = S.current + 1 /\ Q.untracked = S.untracked + 1
Given(P, Q, s) ==
  /\ DOMAIN Q = PoolFields /\ Q.root = s \o P.root /\ Q.blocks = P.blocks
  /\ Q.current = P.current - Len(s) /\ Q.untracked = P.untracked

LEMMA ReturnedIs ==
  ASSUME NEW P, DOMAIN P = PoolFields, NEW s, NEW Q, Q = Returned(P, s)
  PROVE  Given(P, Q, s)
BY DEF Given, PoolFields, Returned

LEMMA AllocatedIs ==
  ASSUME NEW P, NEW I, Stock(P, I), NEW Q, Q = Allocated(P)
  PROVE  Taken(Stocked(P), Q)
<1>1. PICK S : S = Stocked(P)
  OBVIOUS
<1>2. DOMAIN S = PoolFields
  BY <1>1, StockStocked DEF Stock
<1>3. Taken(S, Q)
  BY <1>1, <1>2 DEF Taken, PoolFields, Allocated
<1> QED
  BY <1>1, <1>3

\* MemPoolT::Alloc hands out an item that is not in use.
LEMMA StockAlloc ==
  ASSUME NEW P, NEW I, Stock(P, I), NEW S, S = Stocked(P), NEW i, i = Head(S.root),
         NEW Q, Taken(S, Q)
  PROVE  i \in Nat /\ i \notin I /\ Stock(Q, I \cup {i}) /\ Q.untracked = P.untracked + 1
<1>1. Stock(S, I) /\ S.untracked = P.untracked /\ S.root # <<>>
  BY StockStocked
<1> DEFINE all == 1..(S.blocks * ItemsPerBlock)
<1>2. Lists(S.root, all \ I) /\ I \subseteq all /\ IsFiniteSet(I) /\ S.current = Cardinality(I)
      /\ DOMAIN S = PoolFields /\ S.blocks \in Nat
  BY <1>1 DEF Stock
<1>3. all \subseteq Nat
  BY <1>2, DomAssumption
<1>4. /\ DOMAIN Q = PoolFields /\ Q.root = Tail(S.root) /\ Q.blocks = S.blocks
      /\ Q.current = S.current + 1 /\ Q.untracked = S.untracked + 1
  BY DEF Taken
<1> HIDE DEF all
<1>5. i \in all \ I /\ Lists(Tail(S.root), (all \ I) \ {i})
  BY <1>1, <1>2, ListHead
<1>6. (all \ I) \ {i} = all \ (I \cup {i}) /\ I \cup {i} \subseteq all
  BY <1>2, <1>5
<1>7. IsFiniteSet(I \cup {i}) /\ Cardinality(I \cup {i}) = Cardinality(I) + 1
  BY <1>2, <1>5, FS_AddElement
<1>8. Stock(Q, I \cup {i})
  BY <1>2, <1>4, <1>5, <1>6, <1>7 DEF Stock, all
<1> QED
  BY <1>1, <1>3, <1>4, <1>5, <1>8

\* What is given back is free again.
LEMMA StockFree ==
  ASSUME NEW P, NEW I, Stock(P, I), NEW s, NEW J, Lists(s, J), J \subseteq I,
         NEW Q, Given(P, Q, s)
  PROVE  Stock(Q, I \ J) /\ Q.untracked = P.untracked
<1> DEFINE all == 1..(P.blocks * ItemsPerBlock)
<1>2. Lists(P.root, all \ I) /\ I \subseteq all /\ IsFiniteSet(I) /\ P.current = Cardinality(I)
      /\ DOMAIN P = PoolFields /\ P.blocks \in Nat
  BY DEF Stock
<1>4. /\ DOMAIN Q = PoolFields /\ Q.root = s \o P.root /\ Q.blocks = P.blocks
      /\ Q.current = P.current - Len(s) /\ Q.untracked = P.untracked
  BY DEF Given
<1> HIDE DEF all
<1>5. Lists(s \o P.root, J \cup (all \ I))
  <2>1. J \cap (all \ I) = {}
    OBVIOUS
  <2> QED
    BY <1>2, <2>1, ListConcat
<1>6. J \cup (all \ I) = all \ (I \ J) /\ I \ J \subseteq all
  BY <1>2
<1>7. IsFiniteSet(J) /\ Cardinality(J) = Len(s) /\ Len(s) \in Nat
  BY ListCount
<1>8. IsFiniteSet(I \ J) /\ Cardinality(I \ J) = Cardinality(I) - Len(s)
  <2>1. I \cap J = J
    OBVIOUS
  <2>2. IsFiniteSet(I \ J) /\ Cardinality(I \ J) = Cardinality(I) - Cardinality(I \cap J)
    BY <1>2, FS_Difference
  <2> QED
    BY <1>7, <2>1, <2>2
<1>9. Lists(Q.root, all \ (I \ J))
  BY <1>4, <1>5, <1>6
<1>10. Stock(Q, I \ J)
  BY <1>2, <1>4, <1>6, <1>8, <1>9 DEF Stock, all
<1> QED
  BY <1>4, <1>10

-----------------------------------------------------------------------------
(* The whole document.                                                      *)

NodeNames == {"element", "text", "comment"} \X Nat
Loose(L)  == {n \in DOMAIN L : n # Doc /\ L[n].parent = Null}

\* The links, and what they join.
Tree(d) ==
  /\ Shaped(d) /\ Linked(d.live) /\ IsFiniteSet(DOMAIN d.live)
  /\ Doc \in DOMAIN d.live /\ d.live[Doc].parent = Null
  /\ \A n \in DOMAIN d.live : n = Doc \/ n \in NodeNames

\* The attributes have an item each, and only elements have them.
Attribute == [name : AttributeNames, item : {"attribute"} \X Nat]
Owned(L) ==
  /\ \A n \in DOMAIN L : L[n].attrs \in Seq(Attribute) /\ (L[n].attrs # <<>> => L[n].kind = "element" /\ n # Doc)
  /\ \A m, n \in DOMAIN L : \A i \in 1..Len(L[m].attrs), j \in 1..Len(L[n].attrs) :
       L[m].attrs[i].item[2] = L[n].attrs[j].item[2] => m = n /\ i = j
ItemsOf(L, n) == {L[n].attrs[i].item[2] : i \in 1..Len(L[n].attrs)}
Used(L, p) ==
  IF p = "attribute" THEN UNION {ItemsOf(L, n) : n \in DOMAIN L}
  ELSE {n[2] : n \in {k \in DOMAIN L : k # Doc /\ k[1] = p}}
Store(d) ==
  /\ Owned(d.live) /\ DOMAIN d.pool = Pools
  /\ \A p \in Pools : Stock(d.pool[p], Used(d.live, p))

\* The nodes F are on the way out of the list of unlinked nodes, or back to it, and
\* the nodes G out of the untracked ones.
Count(L, G, p) == Cardinality({n \in Loose(L) \ G : n[1] = p})
Tally(d, F, G) ==
  /\ F \subseteq Loose(d.live) /\ G \subseteq Loose(d.live)
  /\ Lists(d.unlinked, Loose(d.live) \ F)
  /\ \A p \in Pools : d.pool[p].untracked = Count(d.live, G, p)

Whole(d, F, G) == Tree(d) /\ Store(d) /\ Tally(d, F, G) /\ ~d.crashed

LEMMA Relinking ==
  ASSUME NEW d, Tree(d), Store(d), NEW e, Relinked(d, e), Linked(e.live), e.live[Doc].parent = Null
  PROVE  Tree(e) /\ Store(e)
<1>1. Tree(e)
  BY DEF Tree, Relinked
<1>2. DOMAIN e.live = DOMAIN d.live /\ e.pool = d.pool
      /\ \A k \in DOMAIN d.live : e.live[k].attrs = d.live[k].attrs /\ e.live[k].kind = d.live[k].kind
  BY DEF Relinked
<1>3. Owned(e.live)
  <2> DEFINE L == d.live
             M == e.live
  <2>1. Owned(L)
    BY DEF Store
  <2>2. DOMAIN M = DOMAIN L /\ \A k \in DOMAIN L : M[k].attrs = L[k].attrs /\ M[k].kind = L[k].kind
    BY <1>2
  <2> HIDE DEF L, M
  <2>3. \A n \in DOMAIN M : M[n].attrs \in Seq(Attribute) /\ (M[n].attrs # <<>> => M[n].kind = "element" /\ n # Doc)
    BY <2>1, <2>2 DEF Owned
  <2>4. ASSUME NEW m \in DOMAIN M, NEW n \in DOMAIN M, NEW i \in 1..Len(M[m].attrs), NEW j \in 1..Len(M[n].attrs),
               M[m].attrs[i].item[2] = M[n].attrs[j].item[2]
        PROVE  m = n /\ i = j
    <3>1. M[m].attrs = L[m].attrs /\ M[n].attrs = L[n].attrs /\ m \in DOMAIN L /\ n \in DOMAIN L
      BY <2>2
    <3>2. i \in 1..Len(L[m].attrs) /\ j \in 1..Len(L[n].attrs) /\ L[m].attrs[i].item[2] = L[n].attrs[j].item[2]
      BY <2>4, <3>1
    <3> QED
      BY <2>1, <3>1, <3>2 DEF Owned
  <2>5. Owned(M)
    BY <2>3, <2>4 DEF Owned
  <2> QED
    BY <2>5 DEF M
<1>4. ASSUME NEW p \in Pools PROVE Used(e.live, p) = Used(d.live, p)
  <2>1. \A n \in DOMAIN d.live : ItemsOf(e.live, n) = ItemsOf(d.live, n)
    BY <1>2 DEF ItemsOf
  <2> QED
    BY <1>2, <2>1 DEF Used
<1> QED
  BY <1>1, <1>2, <1>3, <1>4 DEF Store

\* Unlink puts a node on its way.
LEMMA UnlinkWhole ==
  ASSUME NEW d, NEW F, NEW G, Whole(d, F, G), NEW c \in DOMAIN d.live, d.live[c].parent # Null,
         NEW e, e = Unlink(d, c)
  PROVE  /\ Whole(e, F \cup {c}, G \cup {c}) /\ Relinked(d, e) /\ e.live[c].parent = Null
         /\ e.live[c].first = d.live[c].first
         /\ \A k \in DOMAIN d.live : k # c => e.live[k].parent = d.live[k].parent
<1>1. Tree(d) /\ Store(d) /\ Tally(d, F, G) /\ ~d.crashed
  BY DEF Whole
<1>2. Shaped(d) /\ Linked(d.live) /\ Doc \in DOMAIN d.live /\ d.live[Doc].parent = Null /\ c # Doc
  BY <1>1 DEF Tree
<1>3. Relinked(d, e) /\ Unlinks(d.live, e.live, c)
  BY <1>2, UnlinkIs
<1>4. Linked(e.live)
  BY <1>2, <1>3, Unlinking
<1>5. \A k \in DOMAIN d.live : e.live[k].parent = IF k = c THEN Null ELSE d.live[k].parent
  BY <1>3 DEF Unlinks
<1>6. Tree(e) /\ Store(e)
  BY <1>1, <1>2, <1>3, <1>4, <1>5, Relinking
<1>7. Loose(e.live) = Loose(d.live) \cup {c} /\ c \notin Loose(d.live)
  <2>1. DOMAIN e.live = DOMAIN d.live
    BY <1>3 DEF Relinked
  <2> QED
    BY <1>2, <1>5, <2>1 DEF Loose
<1>8. F \subseteq Loose(d.live) /\ G \subseteq Loose(d.live)
  BY <1>1 DEF Tally
<1>9. Loose(e.live) \ (F \cup {c}) = Loose(d.live) \ F /\ Loose(e.live) \ (G \cup {c}) = Loose(d.live) \ G
  BY <1>7, <1>8
<1>10. Tally(e, F \cup {c}, G \cup {c})
  BY <1>1, <1>3, <1>7, <1>8, <1>9 DEF Tally, Count, Relinked
<1>11. ~e.crashed
  BY <1>1, <1>3 DEF Relinked
<1>12. e.live[c].first = d.live[c].first
  <2>1. PICK h : Lower(d.live, h)
    BY <1>2 DEF Linked
  <2>2. d.live[c].parent # c
    BY <2>1 DEF Lower
  <2> QED
    BY <1>3, <2>2 DEF Unlinks
<1> QED
  BY <1>3, <1>5, <1>6, <1>10, <1>11, <1>12 DEF Whole

\* A node on its way comes to rest below p.
LEMMA AttachWhole ==
  ASSUME NEW d, NEW F, NEW G, Whole(d, F, G), NEW n \in F \cap G, NEW e, Relinked(d, e), Linked(e.live),
         NEW p \in DOMAIN d.live, \A k \in DOMAIN d.live : e.live[k].parent = IF k = n THEN p ELSE d.live[k].parent
  PROVE  Whole(e, F \ {n}, G \ {n})
<1>1. Tree(d) /\ Store(d) /\ Tally(d, F, G) /\ ~d.crashed
  BY DEF Whole
<1>2. Doc \in DOMAIN d.live /\ d.live[Doc].parent = Null /\ p # Null
  BY <1>1 DEF Tree, Linked
<1>3. F \subseteq Loose(d.live) /\ G \subseteq Loose(d.live)
  BY <1>1 DEF Tally
<1>4. n # Doc /\ n \in DOMAIN d.live
  BY <1>3 DEF Loose
<1>5. Tree(e) /\ Store(e)
  BY <1>1, <1>2, <1>4, Relinking
<1>6. Loose(e.live) = Loose(d.live) \ {n}
  <2>1. DOMAIN e.live = DOMAIN d.live
    BY DEF Relinked
  <2> QED
    BY <1>2, <2>1 DEF Loose
<1>7. Loose(e.live) \ (F \ {n}) = Loose(d.live) \ F /\ Loose(e.live) \ (G \ {n}) = Loose(d.live) \ G
  BY <1>6
<1>8. F \ {n} \subseteq Loose(e.live) /\ G \ {n} \subseteq Loose(e.live)
  BY <1>3, <1>6
<1>9. e.unlinked = d.unlinked /\ e.pool = d.pool /\ e.crashed = d.crashed
  BY DEF Relinked
<1>10. Tally(e, F \ {n}, G \ {n})
  BY <1>1, <1>7, <1>8, <1>9 DEF Tally, Count
<1> QED
  BY <1>1, <1>5, <1>9, <1>10 DEF Whole

\* Where x is among s.
Place(s, x) == LET I == {j \in 1..Len(s) : s[j] = x} IN IF I # {} THEN Seqs!Min(I) ELSE 0

LEMMA PlaceIs ==
  ASSUME NEW s, NEW T, Lists(s, T), NEW x, NEW i, i = Place(s, x)
  PROVE  IF x \in T THEN i \in 1..Len(s) /\ s[i] = x ELSE i = 0
<1> DEFINE I == {j \in 1..Len(s) : s[j] = x}
<1>1. i = IF I # {} THEN Seqs!Min(I) ELSE 0
  BY DEF Place
<1>2. CASE x \in T
  <2>1. I # {} /\ I \subseteq Nat
    <3>1. \E j \in 1..Len(s) : s[j] = x
      BY <1>2 DEF Lists
    <3>2. Len(s) \in Nat
      BY LenProperties DEF Lists
    <3>3. 1..Len(s) \subseteq Nat
      BY <3>2
    <3> QED
      BY <3>1, <3>3
  <2> HIDE DEF I
  <2>2. \E m \in I : \A y \in I : m <= y
    BY <2>1, LeastOf
  <2>3. Seqs!Min(I) \in I
    BY <2>2 DEF Seqs!Min
  <2>4. i \in I
    BY <1>1, <2>1, <2>3
  <2> QED
    BY <1>2, <2>4 DEF I
<1>3. CASE x \notin T
  <2>1. I = {}
    BY <1>3, ElementOfSeq DEF Lists
  <2> HIDE DEF I
  <2> QED
    BY <1>1, <1>3, <2>1
<1> QED
  BY <1>2, <1>3

LEMMA DocShape ==
  ASSUME NEW d, Shaped(d), NEW u, NEW P
  PROVE  /\ DOMAIN [d EXCEPT !.unlinked = u] = DocFields /\ DOMAIN [d EXCEPT !.pool = P] = DocFields
         /\ [d EXCEPT !.unlinked = u].live = d.live /\ [d EXCEPT !.unlinked = u].unlinked = u
         /\ [d EXCEPT !.unlinked = u].pool = d.pool /\ [d EXCEPT !.unlinked = u].crashed = d.crashed
         /\ [d EXCEPT !.pool = P].live = d.live /\ [d EXCEPT !.pool = P].unlinked = d.unlinked
         /\ [d EXCEPT !.pool = P].pool = P /\ [d EXCEPT !.pool = P].crashed = d.crashed
BY DEF Shaped, DocFields

\* MarkInUse takes a node off the list, wherever it is.
LEMMA MarkWhole ==
  ASSUME NEW d, NEW F, NEW G, Whole(d, F, G), NEW n \in Loose(d.live), NEW e, e = MarkInUse(d, n)
  PROVE  Whole(e, F \cup {n}, G) /\ e.live = d.live /\ e.pool = d.pool
<1>1. Tree(d) /\ Store(d) /\ Tally(d, F, G) /\ ~d.crashed
  BY DEF Whole
<1>2. Shaped(d) /\ Lists(d.unlinked, Loose(d.live) \ F)
  BY <1>1 DEF Tree, Tally
<1> DEFINE i == Place(d.unlinked, n)
<1>3. IF n \in Loose(d.live) \ F THEN i \in 1..Len(d.unlinked) /\ d.unlinked[i] = n ELSE i = 0
  BY <1>2, PlaceIs
<1>4. e = IF i = 0 THEN d ELSE [d EXCEPT !.unlinked = SwapRemove(d.unlinked, i)]
  BY DEF MarkInUse, Place, Seqs!SelectInSeq
<1> HIDE DEF i
<1>5. DOMAIN e = DocFields /\ e.live = d.live /\ e.pool = d.pool /\ e.crashed = d.crashed
      /\ Lists(e.unlinked, (Loose(d.live) \ F) \ {n})
  <2>1. CASE n \in F
    <3>1. e = d /\ (Loose(d.live) \ F) \ {n} = Loose(d.live) \ F
      BY <1>3, <1>4, <2>1
    <3> QED
      BY <1>2, <3>1 DEF Shaped
  <2>2. CASE n \notin F
    <3>1. i \in 1..Len(d.unlinked) /\ d.unlinked[i] = n /\ n \in Loose(d.live) \ F
      BY <1>3, <2>2
    <3>2. i # 0
      <4>1. Len(d.unlinked) \in Nat
        BY <1>2, LenProperties DEF Lists
      <4> QED
        BY <3>1, <4>1
    <3>3. e = [d EXCEPT !.unlinked = SwapRemove(d.unlinked, i)]
      BY <1>4, <3>2
    <3>4. Lists(SwapRemove(d.unlinked, i), (Loose(d.live) \ F) \ {n})
      BY <1>2, <3>1, ListSwapRemove
    <3> QED
      BY <1>2, <3>3, <3>4, DocShape
  <2> QED
    BY <2>1, <2>2
<1>6. (Loose(d.live) \ F) \ {n} = Loose(e.live) \ (F \cup {n})
  BY <1>5
<1>7. Shaped(e)
  BY <1>2, <1>5 DEF Shaped
<1>8. Tree(e) /\ Store(e)
  BY <1>1, <1>5, <1>7 DEF Tree, Store
<1>9. Tally(e, F \cup {n}, G)
  BY <1>1, <1>5, <1>6 DEF Tally, Count
<1> QED
  BY <1>1, <1>5, <1>8, <1>9 DEF Whole

LEMMA NodeName ==
  ASSUME NEW n \in NodeNames
  PROVE  /\ n = <<n[1], n[2]>> /\ n[1] \in Pools /\ n[1] # "attribute" /\ n[2] \in Nat /\ n # Doc
         /\ \A m \in NodeNames : m[1] = n[1] /\ m[2] = n[2] => m = n
<1>1. PICK p \in {"element", "text", "comment"}, i \in Nat : n = <<p, i>>
  BY DEF NodeNames
<1>2. \A m \in NodeNames : \E q \in {"element", "text", "comment"}, j \in Nat : m = <<q, j>>
  BY DEF NodeNames
<1>3. n[1] = p /\ n[2] = i
  BY <1>1
<1>4. \A m \in NodeNames : m = <<m[1], m[2]>>
  BY <1>2
<1>5. n # Doc
  BY <1>1 DEF Doc
<1> QED
  BY <1>1, <1>3, <1>4, <1>5 DEF Pools

\* Only the pool p differs: it is Q now.
Pooled(d, e, p, Q) ==
  /\ DOMAIN e = DocFields /\ e.live = d.live /\ e.unlinked = d.unlinked /\ e.crashed = d.crashed
  /\ DOMAIN e.pool = Pools /\ \A q \in Pools : e.pool[q] = IF q = p THEN Q ELSE d.pool[q]

LEMMA PoolPut ==
  ASSUME NEW d, Shaped(d), DOMAIN d.pool = Pools, NEW p \in Pools, NEW Q, NEW e, e = [d EXCEPT !.pool[p] = Q]
  PROVE  Pooled(d, e, p, Q)
<1>1. e.pool = [d.pool EXCEPT ![p] = Q]
  BY DEF Shaped, DocFields
<1>2. DOMAIN e = DocFields /\ e.live = d.live /\ e.unlinked = d.unlinked /\ e.crashed = d.crashed
  BY DEF Shaped, DocFields
<1> QED
  BY <1>1, <1>2 DEF Pooled

LEMMA CountIs ==
  ASSUME NEW L, IsFiniteSet(DOMAIN L), NEW G, NEW p
  PROVE  /\ Count(L, G, p) \in Nat /\ IsFiniteSet({n \in Loose(L) \ G : n[1] = p})
         /\ \A x \in Loose(L) \ G : Count(L, G \cup {x}, p) = IF x[1] = p THEN Count(L, G, p) - 1 ELSE Count(L, G, p)
<1> DEFINE S(H) == {n \in Loose(L) \ H : n[1] = p}
<1>1. IsFiniteSet(S(G)) /\ Cardinality(S(G)) \in Nat
  <2>1. S(G) \in SUBSET DOMAIN L
    BY DEF Loose
  <2> HIDE DEF S
  <2>2. IsFiniteSet(S(G))
    BY <2>1, FS_Subset
  <2> QED
    BY <2>2, FS_CardinalityType
<1>2. ASSUME NEW x \in Loose(L) \ G
      PROVE  Count(L, G \cup {x}, p) = IF x[1] = p THEN Count(L, G, p) - 1 ELSE Count(L, G, p)
  <2>1. S(G \cup {x}) = S(G) \ {x} /\ (x \in S(G) <=> x[1] = p)
    OBVIOUS
  <2> HIDE DEF S
  <2>2. Cardinality(S(G) \ {x}) = IF x \in S(G) THEN Cardinality(S(G)) - 1 ELSE Cardinality(S(G))
    BY <1>1, FS_RemoveElement
  <2> QED
    BY <2>1, <2>2 DEF Count, S
<1> QED
  BY <1>1, <1>2 DEF Count

LEMMA CountNat ==
  ASSUME NEW L, IsFiniteSet(DOMAIN L), NEW G, NEW p
  PROVE  Count(L, G, p) \in Nat
BY CountIs

\* SetTracked counts a node that was never inserted before.
LEMMA TrackWhole ==
  ASSUME NEW d, NEW F, NEW G, Whole(d, F, G), NEW n \in Loose(d.live) \ G, NEW e, e = SetTracked(d, n)
  PROVE  Whole(e, F, G \cup {n}) /\ e.live = d.live
<1>1. Tree(d) /\ Store(d) /\ Tally(d, F, G) /\ ~d.crashed
  BY DEF Whole
<1>2. Shaped(d) /\ IsFiniteSet(DOMAIN d.live) /\ n \in NodeNames
  BY <1>1 DEF Tree, Loose
<1>3. DOMAIN d.pool = Pools /\ n[1] \in Pools
  BY <1>1, <1>2, NodeName DEF Store
<1> DEFINE Q == [d.pool[n[1]] EXCEPT !.untracked = @ - 1]
<1>4. e = [d EXCEPT !.pool[n[1]] = Q]
  BY DEF SetTracked
<1>5. ASSUME NEW I, Stock(d.pool[n[1]], I) PROVE Stock(Q, I) /\ Q.untracked = d.pool[n[1]].untracked - 1
  <2> DEFINE P == d.pool[n[1]]
  <2>1. DOMAIN P = PoolFields
    BY <1>5 DEF Stock
  <2>2. /\ DOMAIN Q = PoolFields /\ Q.blocks = P.blocks /\ Q.current = P.current /\ Q.root = P.root
        /\ Q.untracked = P.untracked - 1
    BY <2>1 DEF PoolFields
  <2> HIDE DEF Q
  <2> QED
    BY <1>5, <2>1, <2>2 DEF Stock
<1> HIDE DEF Q
<1>6. /\ DOMAIN e = DocFields /\ e.live = d.live /\ e.unlinked = d.unlinked /\ e.crashed = d.crashed
      /\ DOMAIN e.pool = Pools /\ \A q \in Pools : e.pool[q] = IF q = n[1] THEN Q ELSE d.pool[q]
  <2>1. Pooled(d, e, n[1], Q)
    BY <1>2, <1>3, <1>4, PoolPut
  <2> QED
    BY <2>1 DEF Pooled
<1>7. Tree(e)
  BY <1>1, <1>6 DEF Tree, Shaped
<1>8. Store(e)
  BY <1>1, <1>3, <1>5, <1>6 DEF Store
<1>9. \A p \in Pools : e.pool[p].untracked = Count(e.live, G \cup {n}, p)
  <2> SUFFICES ASSUME NEW p \in Pools PROVE e.pool[p].untracked = Count(e.live, G \cup {n}, p)
    OBVIOUS
  <2>1. Count(d.live, G \cup {n}, p) = IF n[1] = p THEN Count(d.live, G, p) - 1 ELSE Count(d.live, G, p)
    BY <1>2, CountIs
  <2>2. d.pool[p].untracked = Count(d.live, G, p)
    BY <1>1 DEF Tally
  <2>3. Stock(d.pool[n[1]], Used(d.live, n[1]))
    BY <1>1, <1>3 DEF Store
  <2>4. Q.untracked = d.pool[n[1]].untracked - 1
    BY <1>5, <2>3
  <2> QED
    BY <1>6, <2>1, <2>2, <2>4
<1>10. Tally(e, F, G \cup {n})
  <2>1. F \subseteq Loose(d.live) /\ G \cup {n} \subseteq Loose(d.live)
    BY <1>1 DEF Tally
  <2> QED
    BY <1>1, <1>6, <1>9, <2>1 DEF Tally
<1> QED
  BY <1>1, <1>6, <1>7, <1>8, <1>10 DEF Whole

-----------------------------------------------------------------------------
\* Only the attributes of n differ: they are a now.
Dressed(L, M, n, a) ==
  /\ DOMAIN M = DOMAIN L /\ n \in DOMAIN L
  /\ \A k \in DOMAIN L :
       /\ DOMAIN M[k] = NodeFields /\ M[k].kind = L[k].kind
       /\ M[k].parent = L[k].parent /\ M[k].prev = L[k].prev /\ M[k].next = L[k].next
       /\ M[k].first = L[k].first /\ M[k].last = L[k].last
       /\ M[k].attrs = IF k = n THEN a ELSE L[k].attrs

LEMMA Dressing ==
  ASSUME NEW L, \A k \in DOMAIN L : DOMAIN L[k] = NodeFields, NEW n \in DOMAIN L, NEW a,
         NEW M, M = [L EXCEPT ![n].attrs = a]
  PROVE  Dressed(L, M, n, a)
<1>1. DOMAIN M = DOMAIN L /\ \A k \in DOMAIN L : M[k] = IF k = n THEN [L[n] EXCEPT !.attrs = a] ELSE L[k]
  OBVIOUS
<1> DEFINE y == [L[n] EXCEPT !.attrs = a]
<1>2. /\ DOMAIN y = NodeFields /\ y.kind = L[n].kind /\ y.parent = L[n].parent /\ y.prev = L[n].prev
      /\ y.next = L[n].next /\ y.first = L[n].first /\ y.last = L[n].last /\ y.attrs = a
  BY DEF NodeFields
<1>3. \A k \in DOMAIN L : M[k] = IF k = n THEN y ELSE L[k]
  BY <1>1
<1> HIDE DEF y
<1> QED
  BY <1>1, <1>2, <1>3 DEF Dressed

LEMMA SameLinks ==
  ASSUME NEW L, NEW M, NEW n, NEW a, Linked(L), Dressed(L, M, n, a)
  PROVE  Linked(M)
<1>1. DOMAIN M = DOMAIN L /\ \A k \in DOMAIN L :
        /\ M[k].parent = L[k].parent /\ M[k].prev = L[k].prev /\ M[k].next = L[k].next
        /\ M[k].first = L[k].first /\ M[k].last = L[k].last
  BY DEF Dressed
<1>2. Locals(L) /\ Null \notin DOMAIN L
  BY DEF Linked
<1>3. \A k \in DOMAIN L : /\ L[k].parent \in DOMAIN L \cup {Null} /\ L[k].prev \in DOMAIN L \cup {Null}
                          /\ L[k].next \in DOMAIN L \cup {Null} /\ L[k].first \in DOMAIN L \cup {Null}
                          /\ L[k].last \in DOMAIN L \cup {Null}
  BY <1>2, Pointed DEF Locals
<1>4. Typed(M)
  BY <1>1, <1>3 DEF Typed, Pointers
<1>5. Ends(M)
  BY <1>1, <1>2, <1>3 DEF Locals, Ends
<1>6. Siblings(M)
  BY <1>1, <1>2, <1>3 DEF Locals, Siblings
<1>7. Children(M)
  BY <1>1, <1>2, <1>3 DEF Locals, Children
<1>8. PICK h : Lower(L, h)
  BY DEF Linked
<1>9. PICK r : Before(L, r)
  BY DEF Linked
<1>10. Lower(M, h)
  BY <1>1, <1>8 DEF Lower
<1>11. Before(M, r)
  BY <1>1, <1>9 DEF Before
<1> QED
  BY <1>1, <1>2, <1>4, <1>5, <1>6, <1>7, <1>10, <1>11 DEF Linked, Locals

\* The items of a.
ItemsIn(a) == {a[i].item[2] : i \in 1..Len(a)}
Once(a) == \A i, j \in 1..Len(a) : a[i].item[2] = a[j].item[2] => i = j
Apart(L, n, a) ==
  \A i \in 1..Len(a) : \A k \in DOMAIN L \ {n} : \A j \in 1..Len(L[k].attrs) : a[i].item[2] # L[k].attrs[j].item[2]
Fresh(L, n, a) ==
  /\ a \in Seq(Attribute) /\ (a # <<>> => L[n].kind = "element" /\ n # Doc)
  /\ Once(a) /\ Apart(L, n, a)

LEMMA DressedOwned ==
  ASSUME NEW L, Owned(L), NEW M, NEW n, NEW a, Dressed(L, M, n, a), Fresh(L, n, a)
  PROVE  /\ Owned(M) /\ \A p \in Pools \ {"attribute"} : Used(M, p) = Used(L, p)
         /\ Used(M, "attribute") = (Used(L, "attribute") \ ItemsOf(L, n)) \cup ItemsIn(a)
<1>1. DOMAIN M = DOMAIN L /\ n \in DOMAIN L /\ \A k \in DOMAIN L :
        M[k].kind = L[k].kind /\ M[k].attrs = IF k = n THEN a ELSE L[k].attrs
  BY DEF Dressed
<1>2. \A k \in DOMAIN M : M[k].attrs \in Seq(Attribute) /\ (M[k].attrs # <<>> => M[k].kind = "element" /\ k # Doc)
  BY <1>1 DEF Owned, Fresh
<1>3. ASSUME NEW m \in DOMAIN M, NEW k \in DOMAIN M, NEW i \in 1..Len(M[m].attrs), NEW j \in 1..Len(M[k].attrs),
             M[m].attrs[i].item[2] = M[k].attrs[j].item[2]
      PROVE  m = k /\ i = j
  <2>1. CASE m = n /\ k = n
    BY <1>1, <1>3, <2>1 DEF Fresh, Once
  <2>2. CASE m = n /\ k # n
    BY <1>1, <1>3, <2>2 DEF Fresh, Apart
  <2>3. CASE m # n /\ k = n
    BY <1>1, <1>3, <2>3 DEF Fresh, Apart
  <2>4. CASE m # n /\ k # n
    <3>1. M[m].attrs = L[m].attrs /\ M[k].attrs = L[k].attrs /\ m \in DOMAIN L /\ k \in DOMAIN L
      BY <1>1, <2>4
    <3>2. i \in 1..Len(L[m].attrs) /\ j \in 1..Len(L[k].attrs) /\ L[m].attrs[i].item[2] = L[k].attrs[j].item[2]
      BY <1>3, <3>1
    <3> QED
      BY <3>1, <3>2 DEF Owned
  <2> QED
    BY <2>1, <2>2, <2>3, <2>4
<1>4. Owned(M)
  BY <1>2, <1>3 DEF Owned
<1>5. \A p \in Pools \ {"attribute"} : Used(M, p) = Used(L, p)
  BY <1>1 DEF Used
<1>6. ItemsOf(M, n) = ItemsIn(a) /\ \A k \in DOMAIN L \ {n} : ItemsOf(M, k) = ItemsOf(L, k)
  BY <1>1 DEF ItemsOf, ItemsIn
<1>7. \A k \in DOMAIN L \ {n} : ItemsOf(L, k) \cap ItemsOf(L, n) = {}
  BY <1>1 DEF Owned, ItemsOf
<1>8. Used(M, "attribute") = UNION {ItemsOf(M, k) : k \in DOMAIN L} /\ Used(L, "attribute") = UNION {ItemsOf(L, k) : k \in DOMAIN L}
  BY <1>1 DEF Used
<1>9. ASSUME NEW x PROVE x \in Used(M, "attribute") <=> x \in (Used(L, "attribute") \ ItemsOf(L, n)) \cup ItemsIn(a)
  <2>1. x \in Used(M, "attribute") <=> \E k \in DOMAIN L : x \in ItemsOf(M, k)
    BY <1>8
  <2>2. x \in Used(L, "attribute") <=> \E k \in DOMAIN L : x \in ItemsOf(L, k)
    BY <1>8
  <2> QED
    BY <1>1, <1>6, <1>7, <2>1, <2>2
<1>10. Used(M, "attribute") = (Used(L, "attribute") \ ItemsOf(L, n)) \cup ItemsIn(a)
  BY <1>9
<1> QED
  BY <1>4, <1>5, <1>10

LEMMA DressWhole ==
  ASSUME NEW d, NEW F, NEW G, Whole(d, F, G), NEW e, DOMAIN e = DocFields, e.unlinked = d.unlinked, e.crashed = d.crashed,
         NEW n, NEW a, Dressed(d.live, e.live, n, a), Fresh(d.live, n, a),
         DOMAIN e.pool = Pools, \A p \in Pools \ {"attribute"} : e.pool[p] = d.pool[p],
         e.pool["attribute"].untracked = d.pool["attribute"].untracked,
         Stock(e.pool["attribute"], (Used(d.live, "attribute") \ ItemsOf(d.live, n)) \cup ItemsIn(a))
  PROVE  Whole(e, F, G)
<1>1. Tree(d) /\ Store(d) /\ Tally(d, F, G) /\ ~d.crashed
  BY DEF Whole
<1>2. /\ Owned(e.live) /\ \A p \in Pools \ {"attribute"} : Used(e.live, p) = Used(d.live, p)
      /\ Used(e.live, "attribute") = (Used(d.live, "attribute") \ ItemsOf(d.live, n)) \cup ItemsIn(a)
  BY <1>1, DressedOwned DEF Store
<1>3. DOMAIN e.live = DOMAIN d.live /\ \A k \in DOMAIN d.live : e.live[k].parent = d.live[k].parent /\ DOMAIN e.live[k] = NodeFields
  BY DEF Dressed
<1>4. Linked(e.live)
  BY <1>1, SameLinks DEF Tree
<1>5. Tree(e)
  BY <1>1, <1>3, <1>4 DEF Tree, Shaped
<1>6. Store(e)
  BY <1>1, <1>2 DEF Store
<1>7. Loose(e.live) = Loose(d.live)
  BY <1>3 DEF Loose
<1>8. \A p \in Pools : e.pool[p].untracked = d.pool[p].untracked
  OBVIOUS
<1>9. Tally(e, F, G)
  BY <1>1, <1>7, <1>8 DEF Tally, Count
<1> QED
  BY <1>1, <1>5, <1>6, <1>9 DEF Whole

-----------------------------------------------------------------------------
(* Attributes.                                                              *)

Donned(d, e, n, a) ==
  /\ DOMAIN e = DocFields /\ e.unlinked = d.unlinked /\ e.pool = d.pool /\ e.crashed = d.crashed
  /\ Dressed(d.live, e.live, n, a)

LEMMA AttrsPut ==
  ASSUME NEW d, Shaped(d), NEW n \in DOMAIN d.live, NEW a, NEW e, e = [d EXCEPT !.live[n].attrs = a]
  PROVE  Donned(d, e, n, a)
<1>1. DOMAIN e = DocFields /\ e.unlinked = d.unlinked /\ e.pool = d.pool /\ e.crashed = d.crashed
  BY DEF Shaped, DocFields
<1>2. e.live = [d.live EXCEPT ![n].attrs = a]
  BY DEF Shaped, DocFields
<1>3. Dressed(d.live, e.live, n, a)
  <2>1. \A k \in DOMAIN d.live : DOMAIN d.live[k] = NodeFields
    BY DEF Shaped
  <2> QED
    BY <1>2, <2>1, Dressing
<1> QED
  BY <1>1, <1>3 DEF Donned

LEMMA ItemsListed ==
  ASSUME NEW a, a \in Seq(Attribute), Once(a),
         NEW s, s = [i \in DOMAIN a |-> a[i].item[2]]
  PROVE  Lists(s, ItemsIn(a)) /\ Len(s) = Len(a) /\ DOMAIN a = 1..Len(a) /\ Len(a) \in Nat
<1>1. DOMAIN a = 1..Len(a) /\ Len(a) \in Nat
  BY LenProperties
<1>2. s \in [1..Len(a) -> ItemsIn(a)]
  BY <1>1 DEF ItemsIn
<1>3. s \in Seq(ItemsIn(a))
  BY <1>1, <1>2, SeqDef
<1>4. Len(s) = Len(a)
  <2>1. DOMAIN s = 1..Len(s) /\ Len(s) \in Nat /\ DOMAIN s = 1..Len(a)
    BY <1>2, <1>3, LenProperties
  <2> QED
    BY <1>1, <2>1
<1>5. Lists(s, ItemsIn(a))
  BY <1>1, <1>3, <1>4 DEF Lists, ItemsIn, Once
<1> QED
  BY <1>1, <1>4, <1>5

LEMMA OwnedAt ==
  ASSUME NEW L, Owned(L), NEW n \in DOMAIN L, NEW a, a = L[n].attrs
  PROVE  /\ a \in Seq(Attribute) /\ Once(a) /\ Apart(L, n, a)
         /\ ItemsOf(L, n) = ItemsIn(a) /\ ItemsIn(a) \subseteq Used(L, "attribute")
         /\ Len(a) \in Nat
<1>1. a \in Seq(Attribute)
  BY DEF Owned
<1>2. Once(a)
  BY DEF Owned, Once
<1>3. ItemsOf(L, n) = ItemsIn(a)
  BY DEF ItemsOf, ItemsIn
<1>4. ItemsIn(a) \subseteq Used(L, "attribute")
  BY <1>3 DEF Used
<1>5. Apart(L, n, a)
  BY DEF Owned, Apart
<1>6. Len(a) \in Nat
  BY <1>1, LenProperties
<1> QED
  BY <1>1, <1>2, <1>3, <1>4, <1>5, <1>6

LEMMA FreeIs ==
  ASSUME NEW d, Shaped(d), DOMAIN d.pool = Pools, NEW item, NEW p \in Pools, item[1] = p, DOMAIN d.pool[p] = PoolFields,
         NEW e, e = Free(d, item)
  PROVE  \E Q : Pooled(d, e, p, Q) /\ Given(d.pool[p], Q, <<item[2]>>)
<1>1. e = [d EXCEPT !.pool[p] = Returned(d.pool[p], <<item[2]>>)]
  BY DEF Free
<1> QED
  BY <1>1, PoolPut, ReturnedIs

\* ~XMLElement gives the attributes of n back.
LEMMA BareWhole ==
  ASSUME NEW d, NEW F, NEW G, Whole(d, F, G), NEW n \in DOMAIN d.live, NEW e, e = FreeAttributes(d, n)
  PROVE  Whole(e, F, G) /\ Dressed(d.live, e.live, n, <<>>)
<1>1. Tree(d) /\ Store(d) /\ Tally(d, F, G)
  BY DEF Whole
<1>2. Shaped(d) /\ DOMAIN d.pool = Pools /\ "attribute" \in Pools /\ Owned(d.live)
      /\ Stock(d.pool["attribute"], Used(d.live, "attribute"))
  BY <1>1 DEF Tree, Store, Pools
<1> DEFINE P == d.pool["attribute"]
           a == d.live[n].attrs
           items == [i \in DOMAIN a |-> a[i].item[2]]
           s == Seqs!Reverse(items)
           Q == Returned(P, s)
<1>3. /\ DOMAIN e = DocFields /\ e.unlinked = d.unlinked /\ e.crashed = d.crashed
      /\ e.live = [d.live EXCEPT ![n].attrs = <<>>] /\ e.pool = [d.pool EXCEPT !["attribute"] = Q]
  BY <1>2 DEF FreeAttributes, Shaped, DocFields
<1>4. Lists(items, ItemsIn(a)) /\ Len(items) = Len(a) /\ ItemsIn(a) = ItemsOf(d.live, n) /\ ItemsIn(a) \subseteq Used(d.live, "attribute")
  <2>1. a \in Seq(Attribute) /\ Once(a)
        /\ ItemsOf(d.live, n) = ItemsIn(a) /\ ItemsIn(a) \subseteq Used(d.live, "attribute")
    BY <1>2, OwnedAt
  <2>2. items = [i \in DOMAIN a |-> a[i].item[2]]
    OBVIOUS
  <2> HIDE DEF items, a
  <2>3. Lists(items, ItemsIn(a)) /\ Len(items) = Len(a)
    BY <2>1, <2>2, ItemsListed
  <2> QED
    BY <2>1, <2>3
<1> HIDE DEF items, a
<1>5. Lists(s, ItemsIn(a)) /\ Len(s) = Len(items)
  BY <1>4, ListReverse
<1> HIDE DEF s
<1>6. Given(P, Q, s)
  <2>1. DOMAIN P = PoolFields
    BY <1>2 DEF Stock
  <2> QED
    BY <2>1, ReturnedIs
<1> HIDE DEF Q
<1>7. Stock(Q, Used(d.live, "attribute") \ ItemsIn(a)) /\ Q.untracked = P.untracked
  <2>1. Stock(P, Used(d.live, "attribute")) /\ Lists(s, ItemsIn(a)) /\ ItemsIn(a) \subseteq Used(d.live, "attribute") /\ Given(P, Q, s)
    BY <1>2, <1>4, <1>5, <1>6
  <2> HIDE DEF P
  <2> QED
    BY <2>1, StockFree
<1>8. Dressed(d.live, e.live, n, <<>>)
  <2>1. \A k \in DOMAIN d.live : DOMAIN d.live[k] = NodeFields
    BY <1>2 DEF Shaped
  <2> QED
    BY <1>3, <2>1, Dressing
<1>10. /\ DOMAIN e = DocFields /\ e.unlinked = d.unlinked /\ e.crashed = d.crashed /\ Dressed(d.live, e.live, n, <<>>)
       /\ DOMAIN e.pool = Pools /\ e.pool["attribute"] = Q /\ \A p \in Pools \ {"attribute"} : e.pool[p] = d.pool[p]
  BY <1>2, <1>3, <1>8
<1>11. Fresh(d.live, n, <<>>) /\ ItemsIn(<<>>) = {}
  BY DEF Fresh, ItemsIn, Once, Apart
<1>12. (Used(d.live, "attribute") \ ItemsOf(d.live, n)) \cup ItemsIn(<<>>) = Used(d.live, "attribute") \ ItemsIn(a)
  BY <1>4, <1>11
<1>13. Whole(e, F, G)
  <2>1. Stock(e.pool["attribute"], (Used(d.live, "attribute") \ ItemsOf(d.live, n)) \cup ItemsIn(<<>>))
        /\ e.pool["attribute"].untracked = d.pool["attribute"].untracked
    BY <1>7, <1>10, <1>12 DEF P
  <2> QED
    BY <1>10, <1>11, <2>1, DressWhole
<1> QED
  BY <1>10, <1>13

LEMMA AddWhole ==
  ASSUME NEW d, NEW F, NEW G, Whole(d, F, G), NEW n \in DOMAIN d.live, n # Doc, d.live[n].kind = "element",
         NEW name \in AttributeNames, NEW e, e = AddAttribute(d, n, name)
  PROVE  Whole(e, F, G)
<1>1. Tree(d) /\ Store(d) /\ Tally(d, F, G)
  BY DEF Whole
<1>2. Shaped(d) /\ DOMAIN d.pool = Pools /\ "attribute" \in Pools /\ Owned(d.live)
      /\ Stock(d.pool["attribute"], Used(d.live, "attribute"))
  BY <1>1 DEF Tree, Store, Pools
<1> DEFINE P == d.pool["attribute"]
           i == Head(Stocked(P).root)
           Q == Allocated(P)
           R == [Q EXCEPT !.untracked = @ - 1]
           rec == [name |-> name, item |-> <<"attribute", i>>]
           a == d.live[n].attrs
           c == Append(a, rec)
           d1 == [d EXCEPT !.pool["attribute"] = Q]
           d2 == [d1 EXCEPT !.pool["attribute"] = R]
<1>3. i \in Nat /\ i \notin Used(d.live, "attribute") /\ Stock(Q, Used(d.live, "attribute") \cup {i})
      /\ Q.untracked = P.untracked + 1
  <2>1. Taken(Stocked(P), Q)
    BY <1>2, AllocatedIs
  <2> HIDE DEF Q
  <2> QED
    BY <1>2, <2>1, StockAlloc
<1>4. d1 = Alloc(d, "attribute") /\ <<"attribute", i>> = Item(d, "attribute")
  BY DEF Alloc, Item
<1> HIDE DEF i, Q
<1>5. Pooled(d, d1, "attribute", Q)
  BY <1>2, PoolPut
<1>6. SetTracked(d1, <<"attribute", i>>) = d2
  <2>1. d1.pool["attribute"] = Q
    BY <1>2, <1>5 DEF Pooled
  <2>2. <<"attribute", i>>[1] = "attribute"
    OBVIOUS
  <2> HIDE DEF d1
  <2> QED
    BY <2>1, <2>2 DEF SetTracked
<1>7. Stock(R, Used(d.live, "attribute") \cup {i}) /\ R.untracked = P.untracked
  <2>1. DOMAIN Q = PoolFields
    BY <1>3 DEF Stock
  <2>2. /\ DOMAIN R = PoolFields /\ R.blocks = Q.blocks /\ R.current = Q.current /\ R.root = Q.root
        /\ R.untracked = Q.untracked - 1
    BY <2>1 DEF PoolFields
  <2>3. P.untracked \in Nat
    <3>1. P.untracked = Count(d.live, G, "attribute") /\ IsFiniteSet(DOMAIN d.live)
      BY <1>1, <1>2 DEF Tally, Tree
    <3> QED
      BY <3>1, CountNat
  <2> HIDE DEF R
  <2>4. R.untracked = P.untracked
    BY <1>3, <2>2, <2>3
  <2> QED
    BY <1>3, <2>2, <2>4 DEF Stock
<1> HIDE DEF d1
<1>8. e = [d2 EXCEPT !.live[n].attrs = Append(@, rec)]
  BY <1>4, <1>6 DEF AddAttribute
<1> HIDE DEF R
<1>9. Pooled(d1, d2, "attribute", R) /\ Shaped(d1) /\ DOMAIN d1.pool = Pools
  <2>1. Shaped(d1) /\ DOMAIN d1.pool = Pools
    BY <1>2, <1>5 DEF Pooled, Shaped
  <2> QED
    BY <1>2, <2>1, PoolPut
<1> HIDE DEF d2
<1>10. Shaped(d2) /\ d2.live = d.live
  BY <1>5, <1>9 DEF Pooled, Shaped
<1>11. e = [d2 EXCEPT !.live[n].attrs = c]
  BY <1>8, <1>10
<1> HIDE DEF c
<1>12. Donned(d2, e, n, c)
  BY <1>10, <1>11, AttrsPut
<1>13. /\ DOMAIN e = DocFields /\ e.unlinked = d.unlinked /\ e.crashed = d.crashed /\ Dressed(d.live, e.live, n, c)
       /\ DOMAIN e.pool = Pools /\ e.pool["attribute"] = R /\ \A p \in Pools \ {"attribute"} : e.pool[p] = d.pool[p]
  BY <1>2, <1>5, <1>9, <1>10, <1>12 DEF Pooled, Donned
<1>14. a \in Seq(Attribute) /\ Once(a) /\ Apart(d.live, n, a)
       /\ ItemsOf(d.live, n) = ItemsIn(a) /\ ItemsIn(a) \subseteq Used(d.live, "attribute")
       /\ Len(a) \in Nat
  BY <1>2, OwnedAt
<1>15. rec \in Attribute /\ rec.item[2] = i
  BY <1>3 DEF Attribute
<1> HIDE DEF rec, a
<1>16. c \in Seq(Attribute) /\ Len(c) = Len(a) + 1 /\ (\A x \in 1..Len(a) : c[x] = a[x]) /\ c[Len(a) + 1] = rec
  BY <1>14, <1>15, AppendProperties DEF c
<1>17. ItemsIn(c) = ItemsIn(a) \cup {i}
  <2>1. \A x : x \in 1..Len(c) <=> x \in 1..Len(a) \/ x = Len(a) + 1
    BY <1>14, <1>16
  <2> QED
    BY <1>15, <1>16, <2>1 DEF ItemsIn
<1>18. Fresh(d.live, n, c)
  <2>1. \A x \in 1..Len(c) : (x \in 1..Len(a) /\ c[x] = a[x]) \/ (x = Len(a) + 1 /\ c[x] = rec)
    <3> DEFINE N == Len(a)
    <3>1. N \in Nat /\ Len(c) = N + 1 /\ (\A x \in 1..N : c[x] = a[x]) /\ c[N + 1] = rec
      BY <1>14, <1>16
    <3> HIDE DEF N
    <3>2. ASSUME NEW x \in 1..Len(c) PROVE (x \in 1..N /\ c[x] = a[x]) \/ (x = N + 1 /\ c[x] = rec)
      <4>1. x \in 1..N \/ x = N + 1
        BY <3>1
      <4>2. CASE x \in 1..N
        BY <3>1, <4>2
      <4>3. CASE x = N + 1
        <5>1. c[x] = c[N + 1]
          BY <4>3
        <5> QED
          BY <3>1, <4>3, <5>1
      <4> QED
        BY <4>1, <4>2, <4>3
    <3> QED
      BY <3>2 DEF N
  <2>2. \A k \in DOMAIN d.live : \A j \in 1..Len(d.live[k].attrs) : d.live[k].attrs[j].item[2] # i
    <3>1. ASSUME NEW k \in DOMAIN d.live, NEW j \in 1..Len(d.live[k].attrs)
          PROVE  d.live[k].attrs[j].item[2] \in Used(d.live, "attribute")
      <4>1. d.live[k].attrs[j].item[2] \in ItemsOf(d.live, k)
        BY DEF ItemsOf
      <4>2. Used(d.live, "attribute") = UNION {ItemsOf(d.live, m) : m \in DOMAIN d.live}
        BY DEF Used
      <4> QED
        BY <4>1, <4>2
    <3> QED
      BY <1>3, <3>1
  <2>3. \A j \in 1..Len(a) : a[j].item[2] # i
    BY <2>2 DEF a
  <2>4. Once(c)
    BY <1>14, <1>15, <2>1, <2>3 DEF Once
  <2>5. Apart(d.live, n, c)
    <3>1. ASSUME NEW x \in 1..Len(c), NEW k \in DOMAIN d.live \ {n}, NEW j \in 1..Len(d.live[k].attrs)
          PROVE  c[x].item[2] # d.live[k].attrs[j].item[2]
      <4>1. CASE x \in 1..Len(a) /\ c[x] = a[x]
        BY <1>14, <4>1 DEF Apart
      <4>2. CASE c[x] = rec
        BY <1>15, <2>2, <4>2
      <4> QED
        BY <2>1, <4>1, <4>2
    <3> QED
      BY <3>1 DEF Apart
  <2> QED
    BY <1>16, <2>4, <2>5 DEF Fresh
<1>19. (Used(d.live, "attribute") \ ItemsOf(d.live, n)) \cup ItemsIn(c) = Used(d.live, "attribute") \cup {i}
  BY <1>14, <1>17
<1>20. Stock(e.pool["attribute"], (Used(d.live, "attribute") \ ItemsOf(d.live, n)) \cup ItemsIn(c))
        /\ e.pool["attribute"].untracked = d.pool["attribute"].untracked
  BY <1>7, <1>13, <1>19
<1> QED
  BY <1>13, <1>18, <1>20, DressWhole

LEMMA UnsetWhole ==
  ASSUME NEW d, NEW F, NEW G, Whole(d, F, G), NEW n \in DOMAIN d.live, NEW name, NEW e, e = DeleteAttribute(d, n, name)
  PROVE  Whole(e, F, G)
<1>1. Tree(d) /\ Store(d) /\ Tally(d, F, G)
  BY DEF Whole
<1>2. Shaped(d) /\ DOMAIN d.pool = Pools /\ "attribute" \in Pools /\ Owned(d.live)
      /\ Stock(d.pool["attribute"], Used(d.live, "attribute"))
  BY <1>1 DEF Tree, Store, Pools
<1> DEFINE P == d.pool["attribute"]
           a == d.live[n].attrs
           I == {j \in 1..Len(a) : a[j].name = name}
           i == IF I # {} THEN Seqs!Min(I) ELSE 0
           c == Seqs!RemoveAt(a, i)
           b == [d EXCEPT !.live[n].attrs = c]
           s == <<a[i].item[2]>>
<1>3. e = IF i = 0 THEN d ELSE Free(b, a[i].item)
  BY DEF DeleteAttribute, FindAttribute, Seqs!SelectInSeq
<1>4. a \in Seq(Attribute) /\ Once(a) /\ Apart(d.live, n, a)
       /\ ItemsOf(d.live, n) = ItemsIn(a) /\ ItemsIn(a) \subseteq Used(d.live, "attribute")
       /\ Len(a) \in Nat
  BY <1>2, OwnedAt
<1>5. CASE I = {}
  <2>1. i = 0
    BY <1>5
  <2> HIDE DEF i
  <2> QED
    BY <1>3, <2>1
<1>6. CASE I # {}
  <2>1. i \in 1..Len(a) /\ i # 0
    <3>1. I \subseteq Nat /\ 0 \notin I
      BY <1>4
    <3>2. i = Seqs!Min(I)
      BY <1>6
    <3>3. I \subseteq 1..Len(a)
      OBVIOUS
    <3> HIDE DEF I, i
    <3>4. \E m \in I : \A y \in I : m <= y
      BY <1>6, <3>1, LeastOf
    <3>5. i \in I
      BY <3>2, <3>4 DEF Seqs!Min
    <3> QED
      BY <3>1, <3>3, <3>5
  <2> HIDE DEF i
  <2>2. a[i] \in Attribute /\ a[i].item[1] = "attribute"
    <3>1. a[i] \in Attribute
      BY <1>4, <2>1, ElementOfSeq
    <3> QED
      BY <3>1 DEF Attribute
  <2>3. Donned(d, b, n, c)
    BY <1>2, AttrsPut
  <2>5. b.pool = d.pool
    BY <2>3 DEF Donned
  <2>6. PICK Q : Pooled(b, e, "attribute", Q) /\ Given(P, Q, s)
    <3>1. Shaped(b) /\ DOMAIN b.pool = Pools /\ DOMAIN b.pool["attribute"] = PoolFields
      BY <1>2, <2>3, <2>5 DEF Donned, Dressed, Shaped, Stock
    <3> HIDE DEF b, I, a
    <3>2. e = Free(b, a[i].item)
      BY <1>3, <2>1
    <3> QED
      BY <1>2, <2>2, <2>5, <3>1, <3>2, FreeIs
  <2> HIDE DEF b
  <2>7. Lists(s, {a[i].item[2]}) /\ {a[i].item[2]} \subseteq Used(d.live, "attribute")
    <3>1. a[i].item[2] \in ItemsIn(a)
      BY <2>1 DEF ItemsIn
    <3> QED
      BY <1>4, <3>1, ListOne
  <2> HIDE DEF s
  <2>8. Stock(Q, Used(d.live, "attribute") \ {a[i].item[2]}) /\ Q.untracked = P.untracked
    <3> DEFINE J == {a[i].item[2]}
    <3>1. Lists(s, J) /\ J \subseteq Used(d.live, "attribute") /\ Given(P, Q, s) /\ Stock(P, Used(d.live, "attribute"))
      BY <1>2, <2>6, <2>7
    <3> HIDE DEF J, P, a, i
    <3>2. Stock(Q, Used(d.live, "attribute") \ J) /\ Q.untracked = P.untracked
      BY <3>1, StockFree
    <3> QED
      BY <3>2 DEF J
  <2>9. Pooled(b, e, "attribute", Q)
    BY <2>6
  <2>10. /\ DOMAIN e = DocFields /\ e.unlinked = d.unlinked /\ e.crashed = d.crashed /\ Dressed(d.live, e.live, n, c)
         /\ DOMAIN e.pool = Pools /\ e.pool["attribute"] = Q /\ \A p \in Pools \ {"attribute"} : e.pool[p] = d.pool[p]
    BY <1>2, <2>3, <2>9 DEF Pooled, Donned
  <2>11. c \in Seq(Attribute) /\ Len(c) = Len(a) - 1 /\ \A j \in 1..(Len(a) - 1) : c[j] = IF j < i THEN a[j] ELSE a[j + 1]
    <3> HIDE DEF a
    <3> QED
      BY <1>4, <2>1, RemoveAtIs
  <2> HIDE DEF c
  <2> DEFINE N == Len(a)
             From(j) == IF j < i THEN j ELSE j + 1
  <2>12. N \in Nat /\ i \in 1..N
    BY <1>4, <2>1
  <2>13. \A j \in 1..(N - 1) : From(j) \in 1..N /\ From(j) # i /\ c[j] = a[From(j)]
    <3>1. \A j \in 1..(N - 1) : c[j] = IF j < i THEN a[j] ELSE a[j + 1]
      BY <2>11
    <3> HIDE DEF a, N, I
    <3> QED
      BY <2>12, <3>1
  <2>14. \A j, k \in 1..(N - 1) : From(j) = From(k) => j = k
    <3> HIDE DEF N, a
    <3> QED
      BY <2>12
  <2>15. \A k \in (1..N) \ {i} : \E j \in 1..(N - 1) : From(j) = k
    <3> SUFFICES ASSUME NEW k \in (1..N) \ {i} PROVE \E j \in 1..(N - 1) : From(j) = k
      OBVIOUS
    <3> HIDE DEF N, a
    <3>1. CASE k < i
      <4>1. k \in 1..(N - 1) /\ From(k) = k
        BY <2>12, <3>1
      <4> QED
        BY <4>1
    <3>2. CASE ~(k < i)
      <4>1. k - 1 \in 1..(N - 1) /\ From(k - 1) = k
        BY <2>12, <3>2
      <4> QED
        BY <4>1
    <3> QED
      BY <3>1, <3>2
  <2> HIDE DEF From
  <2>16. ItemsIn(c) = ItemsIn(a) \ {a[i].item[2]}
    <3>1. ItemsIn(c) = {c[j].item[2] : j \in 1..(N - 1)}
      BY <2>11 DEF ItemsIn
    <3>2. ASSUME NEW x \in ItemsIn(c) PROVE x \in ItemsIn(a) \ {a[i].item[2]}
      <4>1. PICK j \in 1..(N - 1) : x = c[j].item[2]
        BY <3>1
      <4>2. x = a[From(j)].item[2] /\ From(j) \in 1..N /\ From(j) # i
        BY <2>13, <4>1
      <4>3. x \in ItemsIn(a)
        BY <4>2 DEF ItemsIn
      <4>4. a[From(j)].item[2] # a[i].item[2]
        BY <1>4, <2>12, <4>2 DEF Once
      <4> QED
        BY <4>2, <4>3, <4>4
    <3>3. ASSUME NEW x \in ItemsIn(a) \ {a[i].item[2]} PROVE x \in ItemsIn(c)
      <4>1. PICK k \in 1..N : x = a[k].item[2]
        BY DEF ItemsIn
      <4>2. PICK j \in 1..(N - 1) : From(j) = k
        BY <2>15, <4>1
      <4> QED
        BY <2>13, <3>1, <4>1, <4>2
    <3> QED
      BY <3>2, <3>3
  <2>17. Fresh(d.live, n, c)
    <3>0. \A x \in 1..Len(c) : x \in 1..(N - 1) /\ c[x] = a[From(x)] /\ From(x) \in 1..N
      BY <2>11, <2>13
    <3>4. \A k, j \in 1..N : a[k].item[2] = a[j].item[2] => k = j
      BY <1>4 DEF Once
    <3>1. Once(c)
      <4> HIDE DEF a, N
      <4> QED
        BY <2>14, <3>0, <3>4 DEF Once
    <3>2. Apart(d.live, n, c)
      <4>1. Apart(d.live, n, a) /\ N = Len(a)
        BY <1>4
      <4> HIDE DEF a, N
      <4>2. ASSUME NEW x \in 1..Len(c), NEW k \in DOMAIN d.live \ {n}, NEW j \in 1..Len(d.live[k].attrs)
            PROVE  c[x].item[2] # d.live[k].attrs[j].item[2]
        <5>1. c[x] = a[From(x)] /\ From(x) \in 1..Len(a)
          BY <3>0, <4>1
        <5> QED
          BY <4>1, <5>1 DEF Apart
      <4> QED
        BY <4>2 DEF Apart
    <3>3. a # <<>> /\ d.live[n].kind = "element" /\ n # Doc
      BY <1>2, <2>1 DEF Owned
    <3> QED
      BY <2>11, <3>1, <3>2, <3>3 DEF Fresh
  <2>18. (Used(d.live, "attribute") \ ItemsOf(d.live, n)) \cup ItemsIn(c) = Used(d.live, "attribute") \ {a[i].item[2]}
    <3>1. a[i].item[2] \in ItemsIn(a)
      BY <2>1 DEF ItemsIn
    <3> HIDE DEF a
    <3> QED
      BY <1>4, <2>16, <3>1
  <2>19. Stock(e.pool["attribute"], (Used(d.live, "attribute") \ ItemsOf(d.live, n)) \cup ItemsIn(c))
         /\ e.pool["attribute"].untracked = d.pool["attribute"].untracked
    BY <2>8, <2>10, <2>18
  <2> QED
    BY <2>10, <2>17, <2>19, DressWhole
<1> QED
  BY <1>5, <1>6

-----------------------------------------------------------------------------
(* Making nodes and giving them back.                                       *)

\* A node more, which has no links yet.
Grown(L, M, x) ==
  /\ DOMAIN M = DOMAIN L \cup {x} /\ \A k \in DOMAIN L : M[k] = L[k]
  /\ DOMAIN M[x] = NodeFields /\ M[x].attrs = <<>>
  /\ M[x].parent = Null /\ M[x].prev = Null /\ M[x].next = Null /\ M[x].first = Null /\ M[x].last = Null

LEMMA CreateIs ==
  ASSUME NEW d, Shaped(d), DOMAIN d.pool = Pools, NEW kind, NEW name, NEW p, p = PoolOf(kind),
         NEW x, x = Item(d, p), x \notin DOMAIN d.live, NEW e, e = CreateUnlinkedNode(d, kind, name)
  PROVE  /\ DOMAIN e = DocFields /\ e.unlinked = Append(d.unlinked, x) /\ e.crashed = d.crashed
         /\ DOMAIN e.pool = Pools /\ (\A q \in Pools : e.pool[q] = IF q = p THEN Allocated(d.pool[p]) ELSE d.pool[q])
         /\ Grown(d.live, e.live, x)
<1> DEFINE Q == Allocated(d.pool[p])
           d1 == Alloc(d, p)
           y == NewNode(kind, name)
           M == [k \in DOMAIN d.live \cup {x} |-> IF k = x THEN y ELSE d.live[k]]
<1>1. p \in Pools
  BY DEF PoolOf, Pools
<1>2. Pooled(d, d1, p, Q)
  <2>1. d1 = [d EXCEPT !.pool[p] = Q]
    BY DEF Alloc
  <2> HIDE DEF d1, Q
  <2> QED
    BY <1>1, <2>1, PoolPut
<1>3. d1.live = d.live
  BY <1>2 DEF Pooled
<1>4. e = [d1 EXCEPT !.live = [k \in DOMAIN @ \cup {x} |-> IF k = x THEN y ELSE @[k]], !.unlinked = Append(@, x)]
  BY DEF CreateUnlinkedNode
<1> HIDE DEF d1, Q, y
<1>5. e = [d1 EXCEPT !.live = M, !.unlinked = Append(@, x)]
  BY <1>3, <1>4
<1> HIDE DEF M
<1>6. DOMAIN e = DocFields /\ e.live = M /\ e.unlinked = Append(d.unlinked, x) /\ e.pool = d1.pool /\ e.crashed = d.crashed
  BY <1>2, <1>5 DEF Pooled, DocFields
<1>7. /\ DOMAIN y = NodeFields /\ y.attrs = <<>>
      /\ y.parent = Null /\ y.prev = Null /\ y.next = Null /\ y.first = Null /\ y.last = Null
  BY DEF y, NewNode, NodeFields
<1>8. DOMAIN M = DOMAIN d.live \cup {x} /\ \A k \in DOMAIN M : M[k] = IF k = x THEN y ELSE d.live[k]
  BY DEF M
<1>9. Grown(d.live, M, x)
  BY <1>7, <1>8 DEF Grown
<1> QED
  BY <1>2, <1>6, <1>9 DEF Pooled, Q

LEMMA GrownUsed ==
  ASSUME NEW L, NEW M, NEW x \in NodeNames, x \notin DOMAIN L, Grown(L, M, x), NEW q \in Pools
  PROVE  Used(M, q) = IF q = x[1] THEN Used(L, q) \cup {x[2]} ELSE Used(L, q)
<1>1. DOMAIN M = DOMAIN L \cup {x} /\ \A k \in DOMAIN L : M[k] = L[k]
  BY DEF Grown
<1>2. x # Doc /\ x[1] # "attribute"
  BY NodeName
<1>3. CASE q = "attribute"
  <2>1. ItemsOf(M, x) = {}
    <3>1. M[x].attrs = <<>> /\ Len(<<>>) = 0
      BY DEF Grown
    <3> QED
      BY <3>1 DEF ItemsOf
  <2>2. \A k \in DOMAIN L : ItemsOf(M, k) = ItemsOf(L, k)
    BY <1>1 DEF ItemsOf
  <2>3. ASSUME NEW i PROVE i \in Used(M, q) <=> i \in Used(L, q)
    <3>1. i \in Used(M, q) <=> \E k \in DOMAIN M : i \in ItemsOf(M, k)
      BY <1>3 DEF Used
    <3>2. i \in Used(L, q) <=> \E k \in DOMAIN L : i \in ItemsOf(L, k)
      BY <1>3 DEF Used
    <3> QED
      BY <1>1, <2>1, <2>2, <3>1, <3>2
  <2> QED
    BY <1>2, <1>3, <2>3
<1>4. CASE q # "attribute"
  <2>1. /\ Used(M, q) = {n[2] : n \in {k \in DOMAIN M : k # Doc /\ k[1] = q}}
        /\ Used(L, q) = {n[2] : n \in {k \in DOMAIN L : k # Doc /\ k[1] = q}}
    BY <1>4 DEF Used
  <2>2. {k \in DOMAIN M : k # Doc /\ k[1] = q} =
          IF q = x[1] THEN {k \in DOMAIN L : k # Doc /\ k[1] = q} \cup {x} ELSE {k \in DOMAIN L : k # Doc /\ k[1] = q}
    BY <1>1, <1>2
  <2>3. CASE q = x[1]
    BY <2>1, <2>2, <2>3
  <2>4. CASE q # x[1]
    BY <2>1, <2>2, <2>4
  <2> QED
    BY <2>3, <2>4
<1> QED
  BY <1>3, <1>4

LEMMA GrownOwned ==
  ASSUME NEW L, NEW M, NEW x, x \notin DOMAIN L, Grown(L, M, x), Owned(L)
  PROVE  Owned(M)
<1>1. DOMAIN M = DOMAIN L \cup {x} /\ \A k \in DOMAIN L : M[k] = L[k]
  BY DEF Grown
<1>2. M[x].attrs = <<>> /\ Len(M[x].attrs) = 0 /\ M[x].attrs \in Seq(Attribute)
  BY DEF Grown
<1>3. \A k \in DOMAIN M : M[k].attrs \in Seq(Attribute) /\ (M[k].attrs # <<>> => M[k].kind = "element" /\ k # Doc)
  <2> SUFFICES ASSUME NEW k \in DOMAIN M
               PROVE  M[k].attrs \in Seq(Attribute) /\ (M[k].attrs # <<>> => M[k].kind = "element" /\ k # Doc)
    OBVIOUS
  <2>1. CASE k = x
    BY <1>2, <2>1
  <2>2. CASE k \in DOMAIN L
    <3>1. M[k] = L[k] /\ L[k].attrs \in Seq(Attribute) /\ (L[k].attrs # <<>> => L[k].kind = "element" /\ k # Doc)
      BY <1>1, <2>2 DEF Owned
    <3> QED
      BY <3>1
  <2> QED
    BY <1>1, <2>1, <2>2
<1>4. ASSUME NEW m \in DOMAIN M, NEW k \in DOMAIN M, NEW i \in 1..Len(M[m].attrs), NEW j \in 1..Len(M[k].attrs),
             M[m].attrs[i].item[2] = M[k].attrs[j].item[2]
      PROVE  m = k /\ i = j
  <2>1. m # x /\ k # x
    BY <1>2
  <2> QED
    BY <1>1, <1>4, <2>1 DEF Owned
<1> QED
  BY <1>3, <1>4 DEF Owned

LEMMA CreateWhole ==
  ASSUME NEW d, NEW F, NEW G, Whole(d, F, G), NEW kind, NEW name, NEW e, e = CreateUnlinkedNode(d, kind, name)
  PROVE  Whole(e, F, G)
<1>1. Tree(d) /\ Store(d) /\ Tally(d, F, G) /\ ~d.crashed
  BY DEF Whole
<1>2. PICK p : p = PoolOf(kind)
  OBVIOUS
<1>3. p \in Pools /\ p \in {"element", "text", "comment"} /\ p # "attribute"
  BY <1>2 DEF PoolOf, Pools
<1> DEFINE L == d.live
           M == e.live
           P == d.pool[p]
           i == Head(Stocked(P).root)
           x == <<p, i>>
           Q == Allocated(P)
<1>4. x = Item(d, p)
  BY DEF Item
<1>5. Shaped(d) /\ DOMAIN d.pool = Pools /\ Stock(P, Used(L, p)) /\ Owned(L) /\ IsFiniteSet(DOMAIN L) /\ Linked(L)
      /\ \A k \in DOMAIN L : k = Doc \/ k \in NodeNames
  BY <1>1, <1>3 DEF Tree, Store
<1>6. i \in Nat /\ i \notin Used(L, p) /\ Stock(Q, Used(L, p) \cup {i}) /\ Q.untracked = P.untracked + 1
  <2>1. Taken(Stocked(P), Q)
    BY <1>5, AllocatedIs
  <2> HIDE DEF Q, L, P
  <2> QED
    BY <1>5, <2>1, StockAlloc
<1> HIDE DEF i
<1>7. x \in NodeNames /\ x[1] = p /\ x[2] = i
  BY <1>3, <1>6 DEF NodeNames
<1> HIDE DEF x
<1>8. x # Doc /\ x # Null
  <2>1. x \in Pools \X Nat
    BY <1>7 DEF NodeNames, Pools
  <2> QED
    BY <1>7, <2>1, NodeName, DomAssumption
<1>9. x \notin DOMAIN L
  BY <1>3, <1>6, <1>7, <1>8 DEF Used
<1>10. /\ DOMAIN e = DocFields /\ e.unlinked = Append(d.unlinked, x) /\ e.crashed = d.crashed
       /\ DOMAIN e.pool = Pools /\ (\A q \in Pools : e.pool[q] = IF q = p THEN Q ELSE d.pool[q])
       /\ Grown(L, M, x)
  BY <1>2, <1>4, <1>5, <1>9, CreateIs
<1> HIDE DEF Q, L, M
<1>11. DOMAIN M = DOMAIN L \cup {x} /\ (\A k \in DOMAIN L : M[k] = L[k]) /\ DOMAIN M[x] = NodeFields /\ M[x].parent = Null
  BY <1>10 DEF Grown
<1>12. Linked(M)
  BY <1>5, <1>8, <1>9, <1>10, Adding DEF Grown
<1>13. Tree(e)
  <2>1. IsFiniteSet(DOMAIN M)
    BY <1>5, <1>11, FS_AddElement
  <2>2. \A k \in DOMAIN M : DOMAIN M[k] = NodeFields /\ (k = Doc \/ k \in NodeNames)
    BY <1>5, <1>7, <1>11 DEF Shaped, L
  <2>3. Doc \in DOMAIN M /\ M[Doc].parent = Null
    BY <1>1, <1>11 DEF Tree, L
  <2> QED
    BY <1>10, <1>12, <2>1, <2>2, <2>3 DEF Tree, Shaped, M
<1>14. Owned(M)
  BY <1>5, <1>9, <1>10, GrownOwned
<1>15. \A q \in Pools : Used(M, q) = IF q = p THEN Used(L, q) \cup {i} ELSE Used(L, q)
  BY <1>7, <1>9, <1>10, GrownUsed
<1>16. Store(e)
  <2>1. \A q \in Pools : Stock(e.pool[q], Used(M, q))
    <3> SUFFICES ASSUME NEW q \in Pools PROVE Stock(e.pool[q], Used(M, q))
      OBVIOUS
    <3>1. Stock(d.pool[q], Used(L, q))
      BY <1>1 DEF Store, L
    <3> QED
      BY <1>6, <1>10, <1>15, <3>1
  <2> QED
    BY <1>10, <1>14, <2>1 DEF Store, M
<1>17. Loose(M) = Loose(L) \cup {x} /\ x \notin Loose(L) /\ x \notin F /\ x \notin G
  <2>1. F \subseteq Loose(L) /\ G \subseteq Loose(L)
    BY <1>1 DEF Tally, L
  <2> QED
    BY <1>8, <1>9, <1>11, <2>1 DEF Loose
<1>18. \A q \in Pools : e.pool[q].untracked = Count(M, G, q)
  <2> SUFFICES ASSUME NEW q \in Pools PROVE e.pool[q].untracked = Count(M, G, q)
    OBVIOUS
  <2> DEFINE S == {n \in Loose(L) \ G : n[1] = q}
             T == {n \in Loose(M) \ G : n[1] = q}
  <2>1. d.pool[q].untracked = Cardinality(S) /\ IsFiniteSet(S)
    <3>1. IsFiniteSet(S)
      BY <1>5, CountIs
    <3>2. d.pool[q].untracked = Count(L, G, q)
      BY <1>1 DEF Tally, L
    <3> QED
      BY <3>1, <3>2 DEF Count
  <2>2. T = (IF q = p THEN S \cup {x} ELSE S) /\ x \notin S
    BY <1>7, <1>17
  <2>3. Count(M, G, q) = Cardinality(T)
    BY DEF Count
  <2> HIDE DEF S, T
  <2>4. Cardinality(S \cup {x}) = Cardinality(S) + 1
    BY <2>1, <2>2, FS_AddElement
  <2>5. CASE q = p
    BY <1>6, <1>10, <2>1, <2>2, <2>3, <2>4, <2>5
  <2>6. CASE q # p
    BY <1>10, <2>1, <2>2, <2>3, <2>6
  <2> QED
    BY <2>5, <2>6
<1>19. Lists(e.unlinked, Loose(M) \ F)
  <2>1. Lists(d.unlinked, Loose(L) \ F)
    BY <1>1 DEF Tally, L
  <2>2. Lists(Append(d.unlinked, x), (Loose(L) \ F) \cup {x})
    BY <1>17, <2>1, ListAppend
  <2>3. (Loose(L) \ F) \cup {x} = Loose(M) \ F
    BY <1>17
  <2> QED
    BY <1>10, <2>2, <2>3
<1>20. Tally(e, F, G)
  <2>1. F \subseteq Loose(M) /\ G \subseteq Loose(M)
    BY <1>1, <1>17 DEF Tally, L
  <2> QED
    BY <1>18, <1>19, <2>1 DEF Tally, M
<1> QED
  BY <1>1, <1>10, <1>13, <1>16, <1>20 DEF Whole

-----------------------------------------------------------------------------
\* What is left of the others when n has gone.
Dropped(L, M, n) == DOMAIN M = DOMAIN L \ {n} /\ \A k \in DOMAIN M : M[k] = L[k]

LEMMA ReleaseWhole ==
  ASSUME NEW d, NEW F, NEW G, Whole(d, F, G), NEW n \in F \cap G, d.live[n].first = Null, d.live[n].attrs = <<>>,
         NEW e, e = Released(d, n)
  PROVE  Whole(e, F \ {n}, G \ {n}) /\ Dropped(d.live, e.live, n)
<1>1. Tree(d) /\ Store(d) /\ Tally(d, F, G) /\ ~d.crashed
  BY DEF Whole
<1> DEFINE L == d.live
           M == [k \in DOMAIN d.live \ {n} |-> d.live[k]]
           p == n[1]
           P == d.pool[p]
<1>2. F \subseteq Loose(L) /\ G \subseteq Loose(L)
  BY <1>1 DEF Tally
<1>3. n \in DOMAIN L /\ n # Doc /\ L[n].parent = Null /\ n \in NodeNames
  BY <1>1, <1>2 DEF Loose, Tree
<1>4. p \in Pools /\ p # "attribute" /\ n[2] \in Nat
  BY <1>3, NodeName
<1>5. Shaped(d) /\ DOMAIN d.pool = Pools /\ Stock(P, Used(L, p)) /\ Owned(L) /\ IsFiniteSet(DOMAIN L) /\ Linked(L)
      /\ \A k \in DOMAIN L : k = Doc \/ k \in NodeNames
  BY <1>1, <1>4 DEF Tree, Store
<1>6. PICK Q : Pooled(d, Free(d, n), p, Q) /\ Given(P, Q, <<n[2]>>)
  <2>1. DOMAIN P = PoolFields
    BY <1>5 DEF Stock
  <2> HIDE DEF L
  <2> QED
    BY <1>4, <1>5, <2>1, FreeIs
<1>7. /\ DOMAIN e = DocFields /\ e.unlinked = d.unlinked /\ e.crashed = d.crashed /\ e.live = M
      /\ DOMAIN e.pool = Pools /\ \A q \in Pools : e.pool[q] = IF q = p THEN Q ELSE d.pool[q]
  <2> DEFINE f == Free(d, n)
  <2>1. e = [f EXCEPT !.live = [k \in DOMAIN @ \ {n} |-> @[k]]]
    BY DEF Released
  <2>2. /\ DOMAIN f = DocFields /\ f.live = d.live /\ f.unlinked = d.unlinked /\ f.crashed = d.crashed
        /\ DOMAIN f.pool = Pools /\ \A q \in Pools : f.pool[q] = IF q = p THEN Q ELSE d.pool[q]
    BY <1>6 DEF Pooled
  <2> HIDE DEF f
  <2>3. e = [f EXCEPT !.live = M]
    BY <2>1, <2>2
  <2> HIDE DEF M
  <2>4. DOMAIN e = DocFields /\ e.unlinked = f.unlinked /\ e.crashed = f.crashed /\ e.live = M /\ e.pool = f.pool
    BY <2>2, <2>3 DEF DocFields
  <2> QED
    BY <2>2, <2>4
<1>8. DOMAIN M = DOMAIN L \ {n} /\ \A k \in DOMAIN M : M[k] = L[k]
  OBVIOUS
<1>9. Linked(M)
  BY <1>3, <1>5, Removing
<1> HIDE DEF M, L
<1>10. Tree(e)
  <2>1. IsFiniteSet(DOMAIN M)
    BY <1>5, <1>8, FS_RemoveElement
  <2>2. \A k \in DOMAIN M : DOMAIN M[k] = NodeFields /\ (k = Doc \/ k \in NodeNames)
    BY <1>5, <1>8 DEF Shaped, L
  <2>3. Doc \in DOMAIN M /\ M[Doc].parent = Null
    BY <1>1, <1>3, <1>8 DEF Tree, L
  <2> QED
    BY <1>7, <1>9, <2>1, <2>2, <2>3 DEF Tree, Shaped
<1>11. Owned(M)
  BY <1>5, <1>8 DEF Owned
<1>12. ItemsOf(L, n) = {}
  <2>1. L[n].attrs = <<>> /\ Len(<<>>) = 0
    BY DEF L
  <2> QED
    BY <2>1 DEF ItemsOf
<1>13. \A q \in Pools : Used(M, q) = IF q = p THEN Used(L, q) \ {n[2]} ELSE Used(L, q)
  <2> SUFFICES ASSUME NEW q \in Pools PROVE Used(M, q) = IF q = p THEN Used(L, q) \ {n[2]} ELSE Used(L, q)
    OBVIOUS
  <2>1. CASE q = "attribute"
    <3>1. \A k \in DOMAIN M : ItemsOf(M, k) = ItemsOf(L, k)
      BY <1>8 DEF ItemsOf
    <3>2. ASSUME NEW i PROVE i \in Used(M, q) <=> i \in Used(L, q)
      <4>1. i \in Used(M, q) <=> \E k \in DOMAIN M : i \in ItemsOf(M, k)
        BY <2>1 DEF Used
      <4>2. i \in Used(L, q) <=> \E k \in DOMAIN L : i \in ItemsOf(L, k)
        BY <2>1 DEF Used
      <4> QED
        BY <1>8, <1>12, <3>1, <4>1, <4>2
    <3> QED
      BY <1>4, <2>1, <3>2
  <2>2. CASE q # "attribute" /\ q # p
    BY <1>8, <2>2 DEF Used
  <2>3. CASE q = p
    <3> DEFINE A == {k \in DOMAIN L : k # Doc /\ k[1] = q}
               B == {k \in DOMAIN M : k # Doc /\ k[1] = q}
    <3>1. Used(M, q) = {k[2] : k \in B} /\ Used(L, q) = {k[2] : k \in A}
      BY <1>4, <2>3 DEF Used
    <3>2. B = A \ {n} /\ n \in A
      BY <1>3, <1>8, <2>3
    <3>3. \A k \in A : k[2] = n[2] => k = n
      <4>1. \A k \in A : k \in NodeNames /\ k[1] = n[1]
        BY <1>5, <2>3
      <4> HIDE DEF A
      <4> QED
        BY <1>3, <4>1, NodeName
    <3> HIDE DEF A, B
    <3> QED
      BY <2>3, <3>1, <3>2, <3>3
  <2> QED
    BY <2>1, <2>2, <2>3
<1>14. Stock(Q, Used(L, p) \ {n[2]}) /\ Q.untracked = P.untracked
  <2>1. Lists(<<n[2]>>, {n[2]})
    BY ListOne
  <2>2. {n[2]} \subseteq Used(L, p)
    BY <1>3, <1>4 DEF Used
  <2> HIDE DEF P
  <2> QED
    BY <1>5, <1>6, <2>1, <2>2, StockFree
<1>15. Store(e)
  <2>1. \A q \in Pools : Stock(e.pool[q], Used(M, q))
    <3> SUFFICES ASSUME NEW q \in Pools PROVE Stock(e.pool[q], Used(M, q))
      OBVIOUS
    <3>1. Stock(d.pool[q], Used(L, q))
      BY <1>1 DEF Store, L
    <3>2. CASE q = p
      BY <1>7, <1>13, <1>14, <3>2
    <3>3. CASE q # p
      BY <1>7, <1>13, <3>1, <3>3
    <3> QED
      BY <3>2, <3>3
  <2> QED
    BY <1>7, <1>11, <2>1 DEF Store
<1>16. Loose(M) = Loose(L) \ {n}
  BY <1>8 DEF Loose
<1>17. Loose(M) \ (F \ {n}) = Loose(L) \ F /\ Loose(M) \ (G \ {n}) = Loose(L) \ G
       /\ F \ {n} \subseteq Loose(M) /\ G \ {n} \subseteq Loose(M)
  BY <1>2, <1>16
<1>18. Tally(e, F \ {n}, G \ {n})
  <2>1. \A q \in Pools : e.pool[q].untracked = d.pool[q].untracked
    BY <1>7, <1>14
  <2>2. \A q \in Pools : d.pool[q].untracked = Count(L, G, q)
    BY <1>1 DEF Tally, L
  <2>3. \A q \in Pools : Count(M, G \ {n}, q) = Count(L, G, q)
    BY <1>17 DEF Count
  <2>4. Lists(d.unlinked, Loose(L) \ F)
    BY <1>1 DEF Tally, L
  <2> QED
    BY <1>7, <1>17, <2>1, <2>2, <2>3, <2>4 DEF Tally
<1>19. Whole(e, F \ {n}, G \ {n})
  BY <1>1, <1>7, <1>10, <1>15, <1>18 DEF Whole
<1> QED
  BY <1>7, <1>8, <1>19 DEF L, Dropped

-----------------------------------------------------------------------------
(* The loops of the destructors, step by step.                              *)

-----------------------------------------------------------------------------
\* A step of each of the walks: down to the first leaf, over what is below n, and
\* over the list of the unlinked nodes.
Walk(walk, n, s) ==
  CASE walk = "down"  -> Down(s)
    [] walk = "below" -> DeleteFirstLeaf(s, n)
    [] walk = "list"  -> DeleteFirstUnlinked(s)

Walking(f, m, walk, n, b) == f = [k \in 0..m |-> IF k = 0 THEN b ELSE Walk(walk, n, f[k - 1])]

LEMMA Walked ==
  ASSUME NEW walk, NEW n, NEW b, NEW N \in Nat
  PROVE  \E f : Walking(f, N, walk, n, b)
<1> DEFINE S == {m \in 0..N : \E f : Walking(f, m, walk, n, b)}
<1>1. 0 \in S
  <2> DEFINE g == [k \in 0..0 |-> b]
  <2>1. Walking(g, 0, walk, n, b)
    BY DEF Walking
  <2> QED
    BY <2>1
<1>2. ASSUME NEW m \in 1..N, m - 1 \in S PROVE m \in S
  <2>1. PICK f : Walking(f, m - 1, walk, n, b)
    BY <1>2
  <2>2. PICK y : y = Walk(walk, n, f[m - 1])
    OBVIOUS
  <2> DEFINE g == [k \in 0..m |-> IF k = m THEN y ELSE f[k]]
  <2>3. \A k \in 0..(m - 1) : k \in 0..m /\ k # m /\ g[k] = f[k]
    OBVIOUS
  <2>4. \A k \in 0..m : g[k] = IF k = 0 THEN b ELSE Walk(walk, n, g[k - 1])
    <3> SUFFICES ASSUME NEW k \in 0..m PROVE g[k] = IF k = 0 THEN b ELSE Walk(walk, n, g[k - 1])
      OBVIOUS
    <3>0. g[m] = y
      OBVIOUS
    <3> HIDE DEF g
    <3>1. CASE k = m
      <4>1. m # 0 /\ m - 1 \in 0..(m - 1)
        OBVIOUS
      <4>2. g[m - 1] = f[m - 1]
        BY <2>3, <4>1
      <4> QED
        BY <2>2, <3>0, <3>1, <4>1, <4>2
    <3>2. CASE k # m
      <4>1. k \in 0..(m - 1) /\ (k # 0 => k - 1 \in 0..(m - 1))
        BY <3>2
      <4>2. f[k] = IF k = 0 THEN b ELSE Walk(walk, n, f[k - 1])
        BY <2>1, <4>1 DEF Walking
      <4>3. CASE k = 0
        BY <2>3, <4>1, <4>2, <4>3
      <4>4. CASE k # 0
        <5>1. g[k] = f[k] /\ g[k - 1] = f[k - 1]
          BY <2>3, <4>1, <4>4
        <5> QED
          BY <4>2, <4>4, <5>1
      <4> QED
        BY <4>3, <4>4
    <3> QED
      BY <3>1, <3>2
  <2>5. g = [k \in 0..m |-> g[k]]
    OBVIOUS
  <2> HIDE DEF g
  <2>6. Walking(g, m, walk, n, b)
    BY <2>4, <2>5 DEF Walking
  <2> QED
    BY <2>6
<1>3. S = 0..N
  <2>1. S \in SUBSET (0..N)
    OBVIOUS
  <2> HIDE DEF S
  <2> QED
    BY <1>1, <1>2, <2>1, Climb
<1> QED
  BY <1>3

LEMMA WalkFrom ==
  ASSUME NEW f, NEW m \in Nat, NEW walk, NEW n, NEW b, Walking(f, m, walk, n, b)
  PROVE  f[0] = b /\ \A k \in 1..m : f[k] = Walk(walk, n, f[k - 1])
<1>1. f[0] = b
  BY DEF Walking
<1>2. ASSUME NEW k \in 1..m PROVE f[k] = Walk(walk, n, f[k - 1])
  <2>1. k \in 0..m /\ k # 0
    OBVIOUS
  <2> QED
    BY <2>1 DEF Walking
<1> QED
  BY <1>1, <1>2

LEMMA DownWalk ==
  ASSUME NEW d, NEW n, IsFiniteSet(DOMAIN d.live), NEW r, r = ToFirstLeaf(d, n)
  PROVE  \E f : Walking(f, Cardinality(DOMAIN d.live), "down", n, [dom |-> d, at |-> n]) /\ r = f[Cardinality(DOMAIN d.live)]
<1> DEFINE N == Cardinality(DOMAIN d.live)
           b == [dom |-> d, at |-> n]
           f == CHOOSE g : Walking(g, N, "down", n, b)
<1>1. N \in Nat
  BY FS_CardinalityType
<1>2. r = f[N]
  BY DEF ToFirstLeaf, Walking, Walk
<1> HIDE DEF N, b
<1>3. \E g : Walking(g, N, "down", n, b)
  BY <1>1, Walked
<1>4. Walking(f, N, "down", n, b)
  BY <1>3
<1> QED
  BY <1>2, <1>4 DEF N, b

LEMMA BelowWalk ==
  ASSUME NEW d, NEW n, IsFiniteSet(DOMAIN d.live), NEW r, r = DeleteChildren(d, n)
  PROVE  \E f : Walking(f, Cardinality(DOMAIN d.live), "below", n, d) /\ r = f[Cardinality(DOMAIN d.live)]
<1> DEFINE N == Cardinality(DOMAIN d.live)
           f == CHOOSE g : Walking(g, N, "below", n, d)
<1>1. N \in Nat
  BY FS_CardinalityType
<1>2. r = f[N]
  BY DEF DeleteChildren, Walking, Walk
<1> HIDE DEF N
<1>3. \E g : Walking(g, N, "below", n, d)
  BY <1>1, Walked
<1>4. Walking(f, N, "below", n, d)
  BY <1>3
<1> QED
  BY <1>2, <1>4 DEF N

LEMMA ListWalk ==
  ASSUME NEW d, Len(d.unlinked) \in Nat, NEW r, r = DeleteAllUnlinked(d)
  PROVE  \E f : Walking(f, Len(d.unlinked), "list", Doc, d) /\ r = f[Len(d.unlinked)]
<1> DEFINE N == Len(d.unlinked)
           f == CHOOSE g : Walking(g, N, "list", Doc, d)
<1>2. r = f[N]
  BY DEF DeleteAllUnlinked, Walking, Walk
<1> HIDE DEF N
<1>3. \E g : Walking(g, N, "list", Doc, d)
  BY Walked DEF N
<1>4. Walking(f, N, "list", Doc, d)
  BY <1>3
<1> QED
  BY <1>2, <1>4 DEF N

\* The same links, and of the attributes of a node all or none.
Bared(L, M) ==
  /\ DOMAIN M = DOMAIN L
  /\ \A k \in DOMAIN L : /\ M[k].parent = L[k].parent /\ M[k].first = L[k].first
                         /\ M[k].attrs = L[k].attrs \/ M[k].attrs = <<>>

\* The nodes S are on the way down from n: as many as steps were made, and none of
\* them lower than where the walk is.
Reached(L, h, at, k) ==
  \E S \in SUBSET DOMAIN L : Cardinality(S) = k + 1 /\ \A x \in S : h[at] <= h[x]

Descended(d, n, F, G, h, s, k) ==
  /\ Whole(s.dom, F, G) /\ Bared(d.live, s.dom.live) /\ s.at \in DOMAIN d.live
  /\ d.live[s.at].first = Null \/ Reached(d.live, h, s.at, k)
  /\ s.at = n \/ (d.live[s.at].parent # Null /\ s.dom.live[s.at].attrs = <<>>)
  /\ d.live[n].first = Null => s.at = n

LEMMA Descends ==
  ASSUME NEW d, NEW n \in DOMAIN d.live, NEW F, NEW G, Whole(d, F, G), NEW h, Lower(d.live, h), NEW k \in Nat,
         NEW s, Descended(d, n, F, G, h, s, k), NEW t, t = Walk("down", n, s)
  PROVE  Descended(d, n, F, G, h, t, k + 1)
<1> DEFINE L == d.live
           c == s.dom.live[s.at].first
<1>1. /\ Whole(s.dom, F, G) /\ s.at \in DOMAIN L /\ Bared(L, s.dom.live)
      /\ L[s.at].first = Null \/ Reached(L, h, s.at, k)
      /\ s.at = n \/ (L[s.at].parent # Null /\ s.dom.live[s.at].attrs = <<>>)
      /\ L[n].first = Null => s.at = n
  BY DEF Descended
<1>2. c = L[s.at].first
  BY <1>1 DEF Bared
<1>3. t = IF c = Null THEN s ELSE [dom |-> FreeAttributes(s.dom, c), at |-> c]
  BY DEF Walk, Down
<1>4. CASE c = Null
  <2>1. t = s /\ L[s.at].first = Null
    BY <1>2, <1>3, <1>4
  <2> QED
    BY <1>1, <2>1 DEF Descended
<1>5. CASE c # Null
  <2>0. Linked(L) /\ Locals(L)
    BY DEF Whole, Tree, Linked
  <2>1. c \in DOMAIN L /\ L[c].parent = s.at
    BY <1>1, <1>2, <1>5, <2>0 DEF Locals, Typed, Ends, Pointers
  <2> HIDE DEF c, L
  <2>2. L[c].parent # Null
    BY <1>1, <2>0, <2>1 DEF Linked
  <2> DEFINE e == FreeAttributes(s.dom, c)
  <2>3. t.dom = e /\ t.at = c
    BY <1>3, <1>5
  <2>4. c \in DOMAIN s.dom.live
    BY <1>1, <2>1 DEF Bared
  <2>5. Whole(e, F, G) /\ Dressed(s.dom.live, e.live, c, <<>>)
    BY <1>1, <2>4, BareWhole
  <2> HIDE DEF e
  <2>6. Bared(L, e.live) /\ e.live[c].attrs = <<>>
    BY <1>1, <2>4, <2>5 DEF Bared, Dressed
  <2>7. L[s.at].first # Null
    BY <1>2, <1>5
  <2>8. Reached(L, h, c, k + 1)
    <3>1. PICK S \in SUBSET DOMAIN L : Cardinality(S) = k + 1 /\ \A x \in S : h[s.at] <= h[x]
      BY <1>1, <2>7 DEF Reached
    <3>2. h[c] < h[s.at] /\ h[c] \in Nat /\ h[s.at] \in Nat /\ \A x \in S : h[x] \in Nat
      BY <1>1, <2>1, <2>2 DEF Lower, L
    <3>3. c \notin S
      BY <3>1, <3>2
    <3>4. IsFiniteSet(S)
      <4>1. IsFiniteSet(DOMAIN L)
        BY DEF Whole, Tree, L
      <4> QED
        BY <3>1, <4>1, FS_Subset
    <3>5. Cardinality(S \cup {c}) = (k + 1) + 1
      BY <3>1, <3>3, <3>4, FS_AddElement
    <3>6. \A x \in S \cup {c} : h[c] <= h[x]
      BY <3>1, <3>2
    <3>7. S \cup {c} \in SUBSET DOMAIN L
      BY <2>1
    <3> QED
      BY <3>5, <3>6, <3>7 DEF Reached
  <2>9. L[n].first # Null
    <3>1. CASE s.at = n
      BY <2>7, <3>1
    <3>2. CASE s.at # n
      BY <1>1, <3>2
    <3> QED
      BY <3>1, <3>2
  <2> QED
    BY <2>1, <2>2, <2>3, <2>5, <2>6, <2>8, <2>9 DEF Descended, L
<1> QED
  BY <1>4, <1>5

\* The walk down ends at a node without children.
LEMMA LeafWhole ==
  ASSUME NEW d, NEW F, NEW G, Whole(d, F, G), NEW n \in DOMAIN d.live, NEW r, r = ToFirstLeaf(d, n)
  PROVE  /\ Whole(r.dom, F, G) /\ Bared(d.live, r.dom.live) /\ r.at \in DOMAIN d.live /\ d.live[r.at].first = Null
         /\ r.at = n \/ (d.live[r.at].parent # Null /\ r.dom.live[r.at].attrs = <<>>)
         /\ d.live[n].first = Null => r.at = n
<1> DEFINE L == d.live
           N == Cardinality(DOMAIN d.live)
           b == [dom |-> d, at |-> n]
<1>1. IsFiniteSet(DOMAIN L) /\ Linked(L)
  BY DEF Whole, Tree
<1>2. PICK f : Walking(f, N, "down", n, b) /\ r = f[N]
  BY <1>1, DownWalk
<1>3. N \in Nat
  BY <1>1, FS_CardinalityType
<1>4. PICK h : Lower(L, h)
  BY <1>1 DEF Linked
<1> HIDE DEF b, N
<1>5. f[0] = b /\ \A k \in 1..N : f[k] = Walk("down", n, f[k - 1])
  BY <1>2, <1>3, WalkFrom
<1> DEFINE T == {k \in 0..N : Descended(d, n, F, G, h, f[k], k)}
<1>6. 0 \in T
  <2>1. b.dom = d /\ b.at = n
    BY DEF b
  <2>2. Bared(L, L)
    BY DEF Bared
  <2>3. Reached(L, h, n, 0)
    <3>1. IsFiniteSet({n}) /\ Cardinality({n}) = 0 + 1
      <4>1. IsFiniteSet({n}) /\ Cardinality({n}) = 1
        BY FS_Singleton
      <4> QED
        BY <4>1
    <3>2. h[n] \in Nat
      BY <1>4 DEF Lower
    <3>3. {n} \in SUBSET DOMAIN L /\ \A x \in {n} : h[n] <= h[x]
      BY <3>2
    <3> QED
      BY <3>1, <3>3 DEF Reached
  <2>4. Descended(d, n, F, G, h, b, 0)
    BY <2>1, <2>2, <2>3 DEF Descended
  <2> QED
    BY <1>3, <1>5, <2>4
<1>7. ASSUME NEW k \in 1..N, k - 1 \in T PROVE k \in T
  <2>1. Descended(d, n, F, G, h, f[k - 1], k - 1) /\ k - 1 \in Nat /\ (k - 1) + 1 = k
    BY <1>3, <1>7
  <2>2. f[k] = Walk("down", n, f[k - 1])
    BY <1>5
  <2> DEFINE j == k - 1
             s == f[k - 1]
             t == f[k]
  <2>3. j \in Nat /\ Descended(d, n, F, G, h, s, j) /\ t = Walk("down", n, s)
    BY <2>1, <2>2
  <2> HIDE DEF j, s, t
  <2>4. Descended(d, n, F, G, h, t, j + 1)
    BY <1>4, <2>3, Descends
  <2>5. Descended(d, n, F, G, h, f[k], k)
    BY <2>1, <2>4 DEF j, t
  <2> QED
    BY <2>5
<1>8. T = 0..N
  <2>1. T \in SUBSET (0..N)
    OBVIOUS
  <2> HIDE DEF T
  <2> QED
    BY <1>3, <1>6, <1>7, <2>1, Climb
<1>9. Descended(d, n, F, G, h, r, N)
  BY <1>2, <1>3, <1>8
<1> HIDE DEF T
<1>10. L[r.at].first = Null
  <2> SUFFICES ASSUME L[r.at].first # Null PROVE FALSE
    OBVIOUS
  <2>1. Reached(L, h, r.at, N)
    BY <1>9 DEF Descended
  <2>2. PICK S \in SUBSET DOMAIN L : Cardinality(S) = N + 1
    BY <2>1 DEF Reached
  <2>3. Cardinality(S) <= Cardinality(DOMAIN L)
    BY <1>1, FS_Subset
  <2> QED
    BY <1>3, <2>2, <2>3 DEF N
<1> QED
  BY <1>9, <1>10 DEF Descended

-----------------------------------------------------------------------------
\* n still has its links, and a child less with each step.
Emptied(d, n, F, G, s, k) ==
  /\ Whole(s, F, G) /\ n \in DOMAIN s.live
  /\ d.live[n].attrs = <<>> => s.live[n].attrs = <<>>
  /\ s.live[n].first = Null \/ Cardinality(DOMAIN s.live) + k <= Cardinality(DOMAIN d.live)

LEMMA Empties ==
  ASSUME NEW d, NEW n, NEW F, NEW G, NEW k \in Nat, IsFiniteSet(DOMAIN d.live),
         NEW s, Emptied(d, n, F, G, s, k), NEW t, t = Walk("below", n, s)
  PROVE  Emptied(d, n, F, G, t, k + 1)
<1>1. /\ Whole(s, F, G) /\ n \in DOMAIN s.live /\ (d.live[n].attrs = <<>> => s.live[n].attrs = <<>>)
      /\ s.live[n].first = Null \/ Cardinality(DOMAIN s.live) + k <= Cardinality(DOMAIN d.live)
  BY DEF Emptied
<1>2. PICK r : r = ToFirstLeaf(s, n)
  OBVIOUS
<1>3. /\ Whole(r.dom, F, G) /\ Bared(s.live, r.dom.live) /\ r.at \in DOMAIN s.live /\ s.live[r.at].first = Null
      /\ r.at = n \/ (s.live[r.at].parent # Null /\ r.dom.live[r.at].attrs = <<>>)
      /\ s.live[n].first = Null => r.at = n
  BY <1>1, <1>2, LeafWhole
<1>4. t = IF r.at = n THEN r.dom ELSE Released(Unlink(r.dom, r.at), r.at)
  BY <1>2 DEF Walk, DeleteFirstLeaf
<1>5. /\ DOMAIN r.dom.live = DOMAIN s.live /\ (d.live[n].attrs = <<>> => r.dom.live[n].attrs = <<>>)
      /\ r.dom.live[r.at].first = Null /\ r.dom.live[r.at].parent = s.live[r.at].parent
  BY <1>1, <1>3 DEF Bared
<1>6. CASE r.at = n
  <2>1. t = r.dom
    BY <1>4, <1>6
  <2> QED
    BY <1>1, <1>3, <1>5, <1>6, <2>1 DEF Emptied
<1>7. CASE r.at # n
  <2>1. PICK c, e, u : c = r.at /\ e = r.dom /\ u = Unlink(e, c)
    OBVIOUS
  <2>2. t = Released(u, c)
    BY <1>4, <1>7, <2>1
  <2>3. /\ Whole(e, F, G) /\ c \in DOMAIN e.live /\ e.live[c].parent # Null /\ e.live[c].first = Null
        /\ e.live[c].attrs = <<>> /\ c # n
    BY <1>3, <1>5, <1>7, <2>1
  <2>4. /\ Whole(u, F \cup {c}, G \cup {c}) /\ Relinked(e, u) /\ u.live[c].first = Null
    <3>1. /\ Whole(u, F \cup {c}, G \cup {c}) /\ Relinked(e, u) /\ u.live[c].first = e.live[c].first
      <4>1. Whole(e, F, G)
        BY <2>3
      <4>2. c \in DOMAIN e.live
        BY <2>3
      <4>3. e.live[c].parent # Null
        BY <2>3
      <4>4. u = Unlink(e, c)
        BY <2>1
      <4> QED
        BY <4>1, <4>2, <4>3, <4>4, UnlinkWhole
    <3> QED
      BY <2>3, <3>1
  <2>5. DOMAIN u.live = DOMAIN e.live /\ u.live[c].attrs = <<>> /\ (e.live[n].attrs = <<>> => u.live[n].attrs = <<>>)
    BY <1>1, <1>5, <2>1, <2>3, <2>4 DEF Relinked
  <2>6. /\ Whole(t, (F \cup {c}) \ {c}, (G \cup {c}) \ {c})
        /\ DOMAIN t.live = DOMAIN u.live \ {c} /\ \A j \in DOMAIN t.live : t.live[j] = u.live[j]
    <3>1. PICK A, B : A = F \cup {c} /\ B = G \cup {c}
      OBVIOUS
    <3>2. Whole(u, A, B)
      BY <2>4, <3>1
    <3>4. c \in A \cap B
      BY <3>1
    <3>5. u.live[c].first = Null
      BY <2>4
    <3>6. u.live[c].attrs = <<>>
      BY <2>5
    <3>3. Whole(t, A \ {c}, B \ {c}) /\ Dropped(u.live, t.live, c)
      BY <2>2, <3>2, <3>4, <3>5, <3>6, ReleaseWhole
    <3> QED
      BY <3>1, <3>3 DEF Dropped
  <2>7. c \notin F /\ c \notin G
    BY <2>3 DEF Whole, Tally, Loose
  <2>8. (F \cup {c}) \ {c} = F /\ (G \cup {c}) \ {c} = G
    BY <2>7
  <2>9. Whole(t, F, G)
    BY <2>6, <2>8
  <2>10. Cardinality(DOMAIN t.live) = Cardinality(DOMAIN s.live) - 1 /\ Cardinality(DOMAIN s.live) \in Nat
    <3>1. IsFiniteSet(DOMAIN s.live)
      BY <1>1 DEF Whole, Tree
    <3>2. DOMAIN t.live = DOMAIN s.live \ {c} /\ c \in DOMAIN s.live
      BY <1>5, <2>1, <2>3, <2>5, <2>6
    <3>3. Cardinality(DOMAIN s.live \ {c}) = Cardinality(DOMAIN s.live) - 1
      BY <3>1, <3>2, FS_RemoveElement
    <3> QED
      BY <3>1, <3>2, <3>3, FS_CardinalityType
  <2>11. s.live[n].first # Null
    BY <1>3, <1>7
  <2>12. Cardinality(DOMAIN t.live) + (k + 1) <= Cardinality(DOMAIN d.live)
    <3>1. Cardinality(DOMAIN d.live) \in Nat
      BY FS_CardinalityType
    <3> QED
      BY <1>1, <2>10, <2>11, <3>1
  <2>13. n \in DOMAIN t.live /\ (d.live[n].attrs = <<>> => t.live[n].attrs = <<>>)
    BY <1>1, <1>5, <2>1, <2>3, <2>5, <2>6
  <2> QED
    BY <2>9, <2>12, <2>13 DEF Emptied
<1> QED
  BY <1>6, <1>7

\* DeleteChildren leaves n without children.
LEMMA ChildrenWhole ==
  ASSUME NEW d, NEW F, NEW G, Whole(d, F, G), NEW n \in DOMAIN d.live, NEW e, e = DeleteChildren(d, n)
  PROVE  /\ Whole(e, F, G) /\ n \in DOMAIN e.live /\ e.live[n].first = Null
         /\ d.live[n].attrs = <<>> => e.live[n].attrs = <<>>
<1> DEFINE N == Cardinality(DOMAIN d.live)
<1>1. IsFiniteSet(DOMAIN d.live)
  BY DEF Whole, Tree
<1>2. PICK f : Walking(f, N, "below", n, d) /\ e = f[N]
  BY <1>1, BelowWalk
<1>3. N \in Nat
  BY <1>1, FS_CardinalityType
<1> HIDE DEF N
<1>4. f[0] = d /\ \A k \in 1..N : f[k] = Walk("below", n, f[k - 1])
  BY <1>2, <1>3, WalkFrom
<1> DEFINE T == {k \in 0..N : Emptied(d, n, F, G, f[k], k)}
<1>5. 0 \in T
  <2>1. Emptied(d, n, F, G, d, 0)
    BY <1>3 DEF Emptied, N
  <2> QED
    BY <1>3, <1>4, <2>1
<1>6. ASSUME NEW k \in 1..N, k - 1 \in T PROVE k \in T
  <2> DEFINE j == k - 1
             s == f[k - 1]
             t == f[k]
  <2>1. j \in Nat /\ j + 1 = k /\ Emptied(d, n, F, G, s, j) /\ t = Walk("below", n, s)
    BY <1>3, <1>4, <1>6
  <2> HIDE DEF j, s, t
  <2>2. Emptied(d, n, F, G, t, j + 1)
    BY <1>1, <2>1, Empties
  <2>3. Emptied(d, n, F, G, f[k], k)
    BY <2>1, <2>2 DEF t
  <2> QED
    BY <2>3
<1>7. T = 0..N
  <2>1. T \in SUBSET (0..N)
    OBVIOUS
  <2> HIDE DEF T
  <2> QED
    BY <1>3, <1>5, <1>6, <2>1, Climb
<1>8. Emptied(d, n, F, G, e, N)
  BY <1>2, <1>3, <1>7
<1> HIDE DEF T
<1>9. e.live[n].first = Null
  <2>1. IsFiniteSet(DOMAIN e.live) /\ n \in DOMAIN e.live
    BY <1>8 DEF Emptied, Whole, Tree
  <2>2. Cardinality(DOMAIN e.live) \in Nat /\ Cardinality(DOMAIN e.live) # 0
    <3>1. DOMAIN e.live # {}
      BY <2>1
    <3> QED
      BY <2>1, <3>1, FS_CardinalityType, FS_EmptySet
  <2>3. ~(Cardinality(DOMAIN e.live) + N <= N)
    BY <1>3, <2>2
  <2> QED
    BY <1>8, <2>3 DEF Emptied, N
<1> QED
  BY <1>8, <1>9 DEF Emptied

\* DeleteNode takes n and all that is below it.
LEMMA DeleteUnlinkedWhole ==
  ASSUME NEW d, NEW F, NEW G, Whole(d, F, G), NEW n \in G, NEW e, e = DeleteUnlinked(d, n)
  PROVE  Whole(e, F \ {n}, G \ {n})
<1>1. n \in Loose(d.live)
  BY DEF Whole, Tally
<1>2. PICK a : a = MarkInUse(d, n)
  OBVIOUS
<1>3. Whole(a, F \cup {n}, G) /\ a.live = d.live
  BY <1>1, <1>2, MarkWhole
<1>4. n \in DOMAIN a.live
  BY <1>1, <1>3 DEF Loose
<1>5. PICK b : b = FreeAttributes(a, n)
  OBVIOUS
<1>6. Whole(b, F \cup {n}, G) /\ Dressed(a.live, b.live, n, <<>>)
  BY <1>3, <1>4, <1>5, BareWhole
<1>7. n \in DOMAIN b.live /\ b.live[n].attrs = <<>>
  BY <1>4, <1>6 DEF Dressed
<1>8. PICK c : c = DeleteChildren(b, n)
  OBVIOUS
<1>9. Whole(c, F \cup {n}, G) /\ c.live[n].first = Null /\ c.live[n].attrs = <<>>
  BY <1>6, <1>7, <1>8, ChildrenWhole
<1>10. e = Released(c, n)
  BY <1>2, <1>5, <1>8 DEF DeleteUnlinked
<1>11. Whole(e, (F \cup {n}) \ {n}, G \ {n})
  <2>1. n \in (F \cup {n}) \cap G
    OBVIOUS
  <2> QED
    BY <1>9, <1>10, <2>1, ReleaseWhole
<1>12. (F \cup {n}) \ {n} = F \ {n}
  OBVIOUS
<1> QED
  BY <1>11, <1>12

LEMMA DeleteWhole ==
  ASSUME NEW d, Whole(d, {}, {}), NEW n \in NodesOf(d), NEW e, e = DeleteNode(d, n)
  PROVE  Whole(e, {}, {})
<1>1. n \in DOMAIN d.live /\ n # Doc
  BY DEF NodesOf
<1>2. CASE d.live[n].parent # Null
  <2>1. PICK u : u = Unlink(d, n)
    OBVIOUS
  <2>2. Whole(u, {} \cup {n}, {} \cup {n})
    BY <1>1, <1>2, <2>1, UnlinkWhole
  <2>3. e = DeleteUnlinked(u, n)
    BY <1>2, <2>1 DEF DeleteNode, DeleteChild
  <2>4. {} \cup {n} = {n} /\ n \in {n} /\ {n} \ {n} = {}
    OBVIOUS
  <2>5. Whole(u, {n}, {n})
    BY <2>2, <2>4
  <2>6. Whole(e, {n} \ {n}, {n} \ {n})
    BY <2>3, <2>4, <2>5, DeleteUnlinkedWhole
  <2> QED
    BY <2>4, <2>6
<1>3. CASE d.live[n].parent = Null
  <2>1. PICK u : u = SetTracked(d, n)
    OBVIOUS
  <2>2. n \in Loose(d.live) \ {}
    BY <1>1, <1>3 DEF Loose
  <2>3. Whole(u, {}, {} \cup {n})
    BY <2>1, <2>2, TrackWhole
  <2>4. e = DeleteUnlinked(u, n)
    BY <1>3, <2>1 DEF DeleteNode
  <2>5. {} \cup {n} = {n} /\ n \in {n} /\ {n} \ {n} = {} /\ {} \ {n} = {}
    OBVIOUS
  <2>6. Whole(u, {}, {n})
    BY <2>3, <2>5
  <2>7. Whole(e, {} \ {n}, {n} \ {n})
    BY <2>4, <2>5, <2>6, DeleteUnlinkedWhole
  <2> QED
    BY <2>5, <2>7
<1> QED
  BY <1>2, <1>3

LEMMA ClearWhole ==
  ASSUME NEW d, Whole(d, {}, {}), NEW e, e = Clear(d)
  PROVE  Whole(e, {}, {})
<1>1. PICK c : c = DeleteChildren(d, Doc)
  OBVIOUS
<1>2. Doc \in DOMAIN d.live
  BY DEF Whole, Tree
<1>3. Whole(c, {}, {})
  BY <1>1, <1>2, ChildrenWhole
<1>4. e = DeleteAllUnlinked(c)
  BY <1>1 DEF Clear
<1> DEFINE N == Len(c.unlinked)
<1>5. N \in Nat
  BY <1>3, LenProperties DEF Whole, Tally, Lists
<1>6. PICK f : Walking(f, N, "list", Doc, c) /\ e = f[N]
  BY <1>4, <1>5, ListWalk
<1> HIDE DEF N
<1>7. f[0] = c /\ \A k \in 1..N : f[k] = Walk("list", Doc, f[k - 1])
  BY <1>5, <1>6, WalkFrom
<1> DEFINE T == {k \in 0..N : Whole(f[k], {}, {})}
<1>8. 0 \in T
  BY <1>3, <1>5, <1>7
<1>9. ASSUME NEW k \in 1..N, k - 1 \in T PROVE k \in T
  <2>1. PICK s, t : s = f[k - 1] /\ t = f[k]
    OBVIOUS
  <2>2. Whole(s, {}, {}) /\ t = Walk("list", Doc, s)
    BY <1>7, <1>9, <2>1
  <2>3. t = IF s.unlinked = <<>> THEN s ELSE DeleteNode(s, s.unlinked[1])
    BY <2>2 DEF Walk, DeleteFirstUnlinked
  <2>4. CASE s.unlinked = <<>>
    <3>1. f[k] = s
      BY <2>1, <2>3, <2>4
    <3>2. Whole(f[k], {}, {}) /\ k \in 0..N
      BY <2>2, <3>1
    <3> QED
      BY <3>2
  <2>5. CASE s.unlinked # <<>>
    <3>1. Lists(s.unlinked, Loose(s.live) \ {})
      BY <2>2 DEF Whole, Tally
    <3>2. s.unlinked[1] \in NodesOf(s)
      <4>1. Head(s.unlinked) \in Loose(s.live) /\ Len(s.unlinked) # 0
        BY <2>5, <3>1, ListHead
      <4>2. Head(s.unlinked) = s.unlinked[1]
        BY DEF Head
      <4> QED
        BY <4>1, <4>2 DEF Loose, NodesOf
    <3>3. t = DeleteNode(s, s.unlinked[1])
      BY <2>3, <2>5
    <3>4. Whole(t, {}, {})
      BY <2>2, <3>2, <3>3, DeleteWhole
    <3> QED
      BY <2>1, <3>4
  <2> QED
    BY <2>4, <2>5
<1>10. T = 0..N
  <2>1. T \in SUBSET (0..N)
    OBVIOUS
  <2> HIDE DEF T
  <2> QED
    BY <1>5, <1>8, <1>9, <2>1, Climb
<1> QED
  BY <1>5, <1>6, <1>10

-----------------------------------------------------------------------------
(* Inserting.                                                               *)

\* n is about to come below p, which is not below it; S is what is.
Moving(d, p, n, S) == p \in DOMAIN d.live /\ n \in NodesOf(d) /\ Closed(d.live, S) /\ n \in S /\ p \notin S

\* What the preamble leaves: n without a parent, everything else where it was.
Moved(d, u, p, n, S) ==
  /\ Whole(u, {n}, {n}) /\ Moving(u, p, n, S) /\ DOMAIN u.live = DOMAIN d.live /\ u.live[n].parent = Null
  /\ \A k \in DOMAIN d.live : k # n => u.live[k].parent = d.live[k].parent

\* The preamble takes a node from where it hangs, or off the list of those that hang nowhere.
LEMMA PreambleWhole ==
  ASSUME NEW d, Whole(d, {}, {}), NEW p, NEW n, NEW S, Moving(d, p, n, S), NEW u, u = InsertChildPreamble(d, n)
  PROVE  Moved(d, u, p, n, S)
<1>1. n \in DOMAIN d.live /\ n # Doc /\ p \in DOMAIN d.live /\ Closed(d.live, S) /\ n \in S /\ p \notin S
  BY DEF Moving, NodesOf
<1>2. CASE d.live[n].parent # Null
  <2>1. u = Unlink(d, n)
    BY <1>2 DEF InsertChildPreamble
  <2>2. Whole(u, {} \cup {n}, {} \cup {n})
    BY <1>1, <1>2, <2>1, UnlinkWhole
  <2>9. Shaped(d) /\ Linked(d.live)
    BY DEF Whole, Tree
  <2>10. Relinked(d, u) /\ Unlinks(d.live, u.live, n)
    BY <1>1, <1>2, <2>1, <2>9, UnlinkIs
  <2>11. u.live[n].parent = Null /\ \A k \in DOMAIN d.live : k # n => u.live[k].parent = d.live[k].parent
    BY <1>1, <2>10 DEF Unlinks
  <2>3. {} \cup {n} = {n}
    OBVIOUS
  <2>4. Whole(u, {n}, {n})
    BY <2>2, <2>3
  <2>5. DOMAIN u.live = DOMAIN d.live
    BY <2>10 DEF Relinked
  <2>6. Null \notin DOMAIN d.live
    BY DEF Whole, Tree, Linked
  <2>7. Closed(u.live, S)
    <3>1. Null \notin S
      BY <1>1, <2>6 DEF Closed
    <3> QED
      BY <1>1, <2>2, <2>5, <2>11, <3>1 DEF Closed
  <2>8. Moving(u, p, n, S)
    BY <1>1, <2>5, <2>7 DEF Moving, NodesOf
  <2> QED
    BY <2>2, <2>4, <2>5, <2>8, <2>11 DEF Moved
<1>3. CASE d.live[n].parent = Null
  <2>1. PICK m : m = MarkInUse(d, n)
    OBVIOUS
  <2>2. u = SetTracked(m, n)
    BY <1>3, <2>1 DEF InsertChildPreamble
  <2>3. n \in Loose(d.live)
    BY <1>1, <1>3 DEF Loose
  <2>4. Whole(m, {} \cup {n}, {}) /\ m.live = d.live
    BY <2>1, <2>3, MarkWhole
  <2>5. n \in Loose(m.live) \ {}
    BY <2>3, <2>4
  <2>6. Whole(u, {} \cup {n}, {} \cup {n}) /\ u.live = m.live
    BY <2>2, <2>4, <2>5, TrackWhole
  <2>7. {} \cup {n} = {n}
    OBVIOUS
  <2>8. Whole(u, {n}, {n}) /\ u.live = d.live
    BY <2>4, <2>6, <2>7
  <2>9. Moving(u, p, n, S)
    BY <1>1, <2>8 DEF Moving, NodesOf
  <2> QED
    BY <1>3, <2>8, <2>9 DEF Moved
<1> QED
  BY <1>2, <1>3

\* n has come below p.
LEMMA Arriving ==
  ASSUME NEW d, NEW u, NEW p, NEW n, NEW S, Moved(d, u, p, n, S), NEW e, Relinked(u, e), Linked(e.live),
         \A k \in DOMAIN u.live : e.live[k].parent = IF k = n THEN p ELSE u.live[k].parent
  PROVE  Whole(e, {}, {})
<1>1. Whole(u, {n}, {n}) /\ p \in DOMAIN u.live
  BY DEF Moved, Moving
<1>2. n \in {n} \cap {n}
  OBVIOUS
<1>3. Whole(e, {n} \ {n}, {n} \ {n})
  BY <1>1, <1>2, AttachWhole
<1>4. {n} \ {n} = {}
  OBVIOUS
<1> QED
  BY <1>3, <1>4

LEMMA MovedLinks ==
  ASSUME NEW d, NEW u, NEW p, NEW n, NEW S, Moved(d, u, p, n, S)
  PROVE  /\ Shaped(u) /\ Linked(u.live) /\ p \in DOMAIN u.live /\ n \in DOMAIN u.live /\ n # p /\ u.live[n].parent = Null
         /\ Closed(u.live, S) /\ n \in S /\ p \notin S
<1>1. Whole(u, {n}, {n}) /\ Moving(u, p, n, S) /\ u.live[n].parent = Null
  BY DEF Moved
<1>2. Shaped(u) /\ Linked(u.live)
  BY <1>1 DEF Whole, Tree
<1>3. p \in DOMAIN u.live /\ n \in DOMAIN u.live /\ Closed(u.live, S) /\ n \in S /\ p \notin S
  BY <1>1 DEF Moving, NodesOf
<1> QED
  BY <1>1, <1>2, <1>3

LEMMA EndWhole ==
  ASSUME NEW d, Whole(d, {}, {}), NEW p, NEW n, NEW S, Moving(d, p, n, S), NEW e, e = InsertEndChild(d, p, n)
  PROVE  Whole(e, {}, {})
<1>1. PICK u : u = InsertChildPreamble(d, n)
  OBVIOUS
<1>2. Moved(d, u, p, n, S)
  BY <1>1, PreambleWhole
<1>3. /\ Shaped(u) /\ Linked(u.live) /\ p \in DOMAIN u.live /\ n \in DOMAIN u.live /\ n # p /\ u.live[n].parent = Null
      /\ Closed(u.live, S) /\ n \in S /\ p \notin S
  BY <1>2, MovedLinks
<1>4. PICK old : old = u.live[p].last
  OBVIOUS
<1>5. e = Put(Put(IF old = Null THEN Put(u, p, "first", n) ELSE Put(Put(u, old, "next", n), n, "prev", old),
                  p, "last", n), n, "parent", p)
  BY <1>1, <1>4 DEF InsertEndChild
<1>6. Relinked(u, e) /\ Appends(u.live, e.live, p, n)
  BY <1>3, <1>4, <1>5, AppendIs
<1>7. Linked(e.live)
  BY <1>3, <1>6, Appending
<1>8. \A k \in DOMAIN u.live : e.live[k].parent = IF k = n THEN p ELSE u.live[k].parent
  BY <1>6 DEF Appends
<1> QED
  BY <1>2, <1>6, <1>7, <1>8, Arriving

LEMMA FirstWhole ==
  ASSUME NEW d, Whole(d, {}, {}), NEW p, NEW n, NEW S, Moving(d, p, n, S), NEW e, e = InsertFirstChild(d, p, n)
  PROVE  Whole(e, {}, {})
<1>1. PICK u : u = InsertChildPreamble(d, n)
  OBVIOUS
<1>2. Moved(d, u, p, n, S)
  BY <1>1, PreambleWhole
<1>3. /\ Shaped(u) /\ Linked(u.live) /\ p \in DOMAIN u.live /\ n \in DOMAIN u.live /\ n # p /\ u.live[n].parent = Null
      /\ Closed(u.live, S) /\ n \in S /\ p \notin S
  BY <1>2, MovedLinks
<1>4. PICK old : old = u.live[p].first
  OBVIOUS
<1>5. e = Put(Put(IF old = Null THEN Put(u, p, "last", n) ELSE Put(Put(u, old, "prev", n), n, "next", old),
                  p, "first", n), n, "parent", p)
  BY <1>1, <1>4 DEF InsertFirstChild
<1>6. Relinked(u, e) /\ Prepends(u.live, e.live, p, n)
  BY <1>3, <1>4, <1>5, PrependIs
<1>7. Linked(e.live)
  BY <1>3, <1>6, Prepending
<1>8. \A k \in DOMAIN u.live : e.live[k].parent = IF k = n THEN p ELSE u.live[k].parent
  BY <1>6 DEF Prepends
<1> QED
  BY <1>2, <1>6, <1>7, <1>8, Arriving

\* Behind a sibling: where the pointer read again is null, the program is over.
LEMMA AfterWhole ==
  ASSUME NEW d, Whole(d, {}, {}), NEW p, NEW n, NEW S, Moving(d, p, n, S),
         NEW after \in DOMAIN d.live, d.live[after].parent = p, NEW e, e = InsertAfterChild(d, p, after, n)
  PROVE  Whole(e, {}, {}) \/ e.crashed
<1>1. CASE after = n
  BY <1>1 DEF InsertAfterChild
<1>2. CASE after # n /\ d.live[after].next = Null
  <2>1. e = InsertEndChild(d, p, n)
    BY <1>2 DEF InsertAfterChild
  <2> QED
    BY <2>1, EndWhole
<1>3. CASE after # n /\ d.live[after].next # Null
  <2>1. PICK u : u = InsertChildPreamble(d, n)
    OBVIOUS
  <2>2. PICK next : next = u.live[after].next
    OBVIOUS
  <2>3. CASE next = Null
    <3>1. e = [d EXCEPT !.crashed = TRUE]
      BY <1>3, <2>1, <2>2, <2>3 DEF InsertAfterChild
    <3>2. DOMAIN d = DocFields
      BY DEF Whole, Tree, Shaped
    <3> QED
      BY <3>1, <3>2 DEF DocFields
  <2>4. CASE next # Null
    <3>1. e = Put(Put(Put(Put(Put(u, n, "prev", after), n, "next", next), next, "prev", n), after, "next", n),
                  n, "parent", p)
      BY <1>3, <2>1, <2>2, <2>4 DEF InsertAfterChild
    <3>2. Moved(d, u, p, n, S)
      BY <2>1, PreambleWhole
    <3>3. /\ Shaped(u) /\ Linked(u.live) /\ p \in DOMAIN u.live /\ n \in DOMAIN u.live /\ n # p /\ u.live[n].parent = Null
          /\ Closed(u.live, S) /\ n \in S /\ p \notin S
      BY <3>2, MovedLinks
    <3>4. after \in DOMAIN u.live /\ u.live[after].parent = p /\ u.live[after].next # Null /\ n # after
      BY <1>3, <2>2, <2>4, <3>2 DEF Moved
    <3>5. e = Put(Put(Put(Put(Put(u, n, "prev", after), n, "next", next), next, "prev", n), after, "next", n),
                  n, "parent", u.live[after].parent)
      BY <3>1, <3>4
    <3>6. Relinked(u, e) /\ Follows(u.live, e.live, after, n)
      BY <2>2, <3>3, <3>4, <3>5, FollowIs
    <3>7. Linked(e.live)
      BY <3>3, <3>4, <3>6, Following
    <3>8. \A k \in DOMAIN u.live : e.live[k].parent = IF k = n THEN p ELSE u.live[k].parent
      BY <3>4, <3>6 DEF Follows
    <3>9. Whole(e, {}, {})
      BY <3>2, <3>6, <3>7, <3>8, Arriving
    <3> QED
      BY <3>9
  <2> QED
    BY <2>3, <2>4
<1> QED
  BY <1>1, <1>2, <1>3

-----------------------------------------------------------------------------
(* What is promised.                                                        *)

LEMMA EmptyWhole == Whole(EmptyDom, {}, {})
<1> DEFINE L == EmptyDom.live
<1>1. /\ DOMAIN EmptyDom = DocFields /\ EmptyDom.unlinked = <<>> /\ ~EmptyDom.crashed
      /\ EmptyDom.pool = [p \in Pools |-> NewPool] /\ L = [k \in {Doc} |-> NewNode("document", "")]
  BY DEF EmptyDom, DocFields
<1>2. /\ DOMAIN L = {Doc} /\ DOMAIN L[Doc] = NodeFields /\ L[Doc].attrs = <<>>
      /\ L[Doc].parent = Null /\ L[Doc].prev = Null /\ L[Doc].next = Null /\ L[Doc].first = Null /\ L[Doc].last = Null
  <2> DEFINE x == NewNode("document", "")
  <2>1. /\ DOMAIN x = NodeFields /\ x.attrs = <<>>
        /\ x.parent = Null /\ x.prev = Null /\ x.next = Null /\ x.first = Null /\ x.last = Null
    BY DEF NewNode, NodeFields
  <2> HIDE DEF x
  <2>2. L = [k \in {Doc} |-> x]
    BY <1>1 DEF x
  <2> HIDE DEF L
  <2>3. DOMAIN L = {Doc} /\ L[Doc] = x
    BY <2>2
  <2> QED
    BY <2>1, <2>3
<1>3. Null # Doc
  BY DomAssumption
<1>4. Shaped(EmptyDom)
  BY <1>1, <1>2 DEF Shaped
<1>5. Linked(L)
  <2>1. Typed(L)
    BY <1>2 DEF Typed, Pointers
  <2>2. Ends(L)
    BY <1>2 DEF Ends
  <2>3. Siblings(L)
    BY <1>2 DEF Siblings
  <2>4. Children(L)
    BY <1>2 DEF Children
  <2> DEFINE z == [k \in {Doc} |-> 0]
  <2>5. Lower(L, z) /\ Before(L, z)
    BY <1>2 DEF Lower, Before
  <2> HIDE DEF L, z
  <2> QED
    BY <1>2, <1>3, <2>1, <2>2, <2>3, <2>4, <2>5 DEF Linked, Locals
<1>6. Tree(EmptyDom)
  <2>1. IsFiniteSet({Doc})
    BY FS_Singleton
  <2> QED
    BY <1>2, <1>4, <1>5, <2>1 DEF Tree
<1>7. Loose(L) = {}
  BY <1>2 DEF Loose
<1>8. Owned(L)
  <2> HIDE DEF L
  <2>0. <<>> \in Seq(Attribute) /\ Len(<<>>) = 0
    OBVIOUS
  <2>1. \A n \in DOMAIN L : L[n].attrs = <<>> /\ L[n].attrs \in Seq(Attribute) /\ Len(L[n].attrs) = 0
    <3>1. \A n \in DOMAIN L : L[n].attrs = <<>>
      BY <1>2
    <3> QED
      BY <2>0, <3>1
  <2>2. \A n \in DOMAIN L : 1..Len(L[n].attrs) = {}
    BY <2>1
  <2>3. \A n \in DOMAIN L : L[n].attrs \in Seq(Attribute) /\ (L[n].attrs # <<>> => L[n].kind = "element" /\ n # Doc)
    BY <2>1
  <2>4. \A m, n \in DOMAIN L : \A i \in 1..Len(L[m].attrs), j \in 1..Len(L[n].attrs) :
          L[m].attrs[i].item[2] = L[n].attrs[j].item[2] => m = n /\ i = j
    BY <2>2
  <2> QED
    BY <2>3, <2>4 DEF Owned
<1>9. ASSUME NEW p \in Pools PROVE Used(L, p) = {}
  <2>1. ItemsOf(L, Doc) = {}
    BY <1>2 DEF ItemsOf
  <2> QED
    BY <1>2, <2>1 DEF Used
<1>10. ASSUME NEW p \in Pools PROVE EmptyDom.pool[p] = NewPool
  BY <1>1
<1>11. Store(EmptyDom)
  <2>1. DOMAIN EmptyDom.pool = Pools
    BY <1>1
  <2>2. ASSUME NEW p \in Pools PROVE Stock(EmptyDom.pool[p], Used(L, p))
    BY <1>9, <1>10, StockEmpty
  <2> QED
    BY <1>8, <2>1, <2>2 DEF Store
<1>12. Tally(EmptyDom, {}, {})
  <2>1. Lists(<<>>, {})
    BY DEF Lists
  <2>2. Loose(L) \ {} = {}
    BY <1>7
  <2>3. Lists(EmptyDom.unlinked, Loose(L) \ {})
    BY <1>1, <2>1, <2>2
  <2>4. ASSUME NEW p \in Pools PROVE EmptyDom.pool[p].untracked = Count(L, {}, p)
    <3>1. {n \in Loose(L) \ {} : n[1] = p} = {}
      BY <2>2
    <3>2. Count(L, {}, p) = 0
      BY <3>1, FS_EmptySet DEF Count
    <3>3. EmptyDom.pool[p].untracked = 0
      BY <1>10, StockEmpty
    <3> QED
      BY <3>2, <3>3
  <2> QED
    BY <2>3, <2>4 DEF Tally
<1> QED
  BY <1>1, <1>6, <1>11, <1>12 DEF Whole

-----------------------------------------------------------------------------
LEMMA LinksSound ==
  ASSUME NEW d, Linked(d.live)
  PROVE  LinksWhole(d)
<1> DEFINE L == d.live
<1>1. Locals(L) /\ Null \notin DOMAIN L
  BY DEF Linked
<1> SUFFICES ASSUME NEW n \in DOMAIN L
             PROVE  LET x == L[n] IN
                    /\ {x.parent, x.prev, x.next, x.first, x.last} \subseteq DOMAIN L \cup {Null}
                    /\ (x.first = Null) <=> (x.last = Null)
                    /\ x.first # Null => L[x.first].parent = n /\ L[x.first].prev = Null
                    /\ x.last # Null  => L[x.last].parent = n /\ L[x.last].next = Null
                    /\ x.next # Null  => L[x.next].prev = n /\ L[x.next].parent = x.parent
                    /\ x.prev # Null  => L[x.prev].next = n
                    /\ x.parent # Null /\ x.prev = Null => L[x.parent].first = n
                    /\ x.parent = Null => x.prev = Null /\ x.next = Null
  BY DEF LinksWhole
<1> HIDE DEF L
<1>2. {L[n].parent, L[n].prev, L[n].next, L[n].first, L[n].last} \subseteq DOMAIN L \cup {Null}
  BY <1>1, Pointed DEF Locals
<1>3. /\ (L[n].first = Null) <=> (L[n].last = Null)
      /\ L[n].first # Null => L[L[n].first].parent = n /\ L[L[n].first].prev = Null
      /\ L[n].last # Null  => L[L[n].last].parent = n /\ L[L[n].last].next = Null
  BY <1>1 DEF Locals, Ends
<1>4. /\ L[n].next # Null  => L[L[n].next].prev = n /\ L[L[n].next].parent = L[n].parent
      /\ L[n].prev # Null  => L[L[n].prev].next = n
  BY <1>1 DEF Locals, Siblings
<1>5. /\ L[n].parent # Null /\ L[n].prev = Null => L[L[n].parent].first = n
      /\ L[n].parent = Null => L[n].prev = Null /\ L[n].next = Null
  BY <1>1 DEF Locals, Children
<1> QED
  BY <1>2, <1>3, <1>4, <1>5

LEMMA ListDomain ==
  ASSUME NEW s, NEW T, Lists(s, T)
  PROVE  DOMAIN s = 1..Len(s) /\ Len(s) \in Nat /\ (\A i \in DOMAIN s : s[i] \in T) /\ {s[i] : i \in DOMAIN s} = T
<1>1. DOMAIN s = 1..Len(s) /\ Len(s) \in Nat /\ \A i \in 1..Len(s) : s[i] \in T
  BY LenProperties, ElementOfSeq DEF Lists
<1> QED
  BY <1>1 DEF Lists

LEMMA UnlinkedSound ==
  ASSUME NEW d, Tally(d, {}, {})
  PROVE  UnlinkedWhole(d) /\ Lists(d.unlinked, Loose(d.live))
<1>1. Loose(d.live) \ {} = Loose(d.live)
  OBVIOUS
<1>2. Lists(d.unlinked, Loose(d.live))
  BY <1>1 DEF Tally
<1>3. Loose(d.live) = {n \in NodesOf(d) : d.live[n].parent = Null}
  BY DEF Loose, NodesOf
<1>4. DOMAIN d.unlinked = 1..Len(d.unlinked) /\ {d.unlinked[i] : i \in DOMAIN d.unlinked} = Loose(d.live)
  BY <1>2, ListDomain
<1>5. \A i, j \in 1..Len(d.unlinked) : d.unlinked[i] = d.unlinked[j] => i = j
  BY <1>2 DEF Lists
<1>6. \A i, j \in DOMAIN d.unlinked : d.unlinked[i] = d.unlinked[j] => i = j
  BY <1>4, <1>5
<1> QED
  BY <1>2, <1>3, <1>4, <1>6 DEF UnlinkedWhole

\* What InUse gathers from the attributes of the elements is what is used of the pool.
LEMMA InUseIs ==
  ASSUME NEW d, Owned(d.live), NEW p \in Pools
  PROVE  InUse(d, p) = Used(d.live, p)
<1> DEFINE L == d.live
<1>1. CASE p # "attribute"
  <2>1. {k \in NodesOf(d) : k[1] = p} = {k \in DOMAIN L : k # Doc /\ k[1] = p}
    BY DEF NodesOf
  <2> QED
    BY <1>1, <2>1 DEF InUse, Used
<1>2. CASE p = "attribute"
  <2>1. ASSUME NEW n \in DOMAIN L PROVE {a.item[2] : a \in Seqs!ToSet(L[n].attrs)} = ItemsOf(L, n)
    <3>1. L[n].attrs \in Seq(Attribute)
      BY DEF Owned
    <3>2. DOMAIN L[n].attrs = 1..Len(L[n].attrs)
      BY <3>1, LenProperties
    <3> QED
      BY <3>2 DEF ItemsOf, Seqs!ToSet
  <2>2. ASSUME NEW n \in DOMAIN L, n \notin ElementsOf(d) PROVE ItemsOf(L, n) = {}
    <3>1. L[n].attrs = <<>>
      BY <2>2 DEF Owned, ElementsOf, NodesOf
    <3> QED
      BY <3>1 DEF ItemsOf
  <2>3. ElementsOf(d) \subseteq DOMAIN L
    BY DEF ElementsOf, NodesOf
  <2>4. InUse(d, p) = UNION {ItemsOf(L, n) : n \in ElementsOf(d)}
    BY <1>2, <2>1, <2>3 DEF InUse
  <2>5. Used(L, p) = UNION {ItemsOf(L, n) : n \in DOMAIN L}
    BY <1>2 DEF Used
  <2> HIDE DEF L
  <2>6. UNION {ItemsOf(L, n) : n \in ElementsOf(d)} = UNION {ItemsOf(L, n) : n \in DOMAIN L}
    BY <2>2, <2>3
  <2> QED
    BY <2>4, <2>5, <2>6 DEF L
<1> QED
  BY <1>1, <1>2

\* A stocked pool has its items free or in use, and counts them right.
LEMMA StockSound ==
  ASSUME NEW P, NEW I, Stock(P, I)
  PROVE  /\ I \cap Seqs!ToSet(P.root) = {} /\ I \cup Seqs!ToSet(P.root) = 1..(P.blocks * ItemsPerBlock)
         /\ Len(P.root) + P.current = P.blocks * ItemsPerBlock /\ P.current = Cardinality(I)
<1> DEFINE N == P.blocks * ItemsPerBlock
           U == 1..N
<1>1. N \in Nat
  BY DomAssumption DEF Stock
<1>2. IsFiniteSet(I) /\ P.current = Cardinality(I) /\ I \subseteq U /\ Lists(P.root, U \ I)
  BY DEF Stock
<1>3. IsFiniteSet(U) /\ Cardinality(U) = N
  <2>1. 1 \in Int /\ N \in Int
    BY <1>1
  <2> HIDE DEF N
  <2> QED
    BY <1>1, <2>1, FS_Interval
<1> HIDE DEF N, U
<1>4. Seqs!ToSet(P.root) = U \ I
  BY <1>2, ListSet
<1>5. Cardinality(U \ I) = Len(P.root) /\ Len(P.root) \in Nat
  BY <1>2, ListCount
<1>6. Cardinality(U \ I) = Cardinality(U) - Cardinality(U \cap I)
  BY <1>3, FS_Difference
<1>7. U \cap I = I
  BY <1>2
<1>8. Cardinality(I) \in Nat
  BY <1>2, FS_CardinalityType
<1>9. Len(P.root) + P.current = N
  <2>1. Cardinality(U \cap I) = P.current /\ Cardinality(U) = N /\ Cardinality(U \ I) = Len(P.root)
    BY <1>2, <1>3, <1>5, <1>7
  <2>2. Len(P.root) = N - P.current
    BY <1>6, <2>1
  <2>3. P.current \in Nat
    BY <1>2, <1>8
  <2> QED
    BY <1>1, <1>5, <2>2, <2>3
<1>10. I \cap (U \ I) = {} /\ I \cup (U \ I) = U
  BY <1>2
<1> QED
  BY <1>2, <1>4, <1>9, <1>10 DEF N, U

\* Counting where a list has something is counting the something.
PlacesOf(s, p) == {i \in DOMAIN s : s[i][1] = p}
Having(T, p)   == {x \in T : x[1] = p}
LEMMA PlacesCount ==
  ASSUME NEW s, NEW T, Lists(s, T), NEW p
  PROVE  Cardinality(PlacesOf(s, p)) = Cardinality(Having(T, p))
<1> DEFINE I == {i \in DOMAIN s : s[i][1] = p}
           X == {x \in T : x[1] = p}
           f == [i \in I |-> s[i]]
<1>1. DOMAIN s = 1..Len(s) /\ Len(s) \in Nat /\ \A i \in DOMAIN s : s[i] \in T
  BY ListDomain
<1>2. \A i, j \in DOMAIN s : s[i] = s[j] => i = j
  BY <1>1 DEF Lists
<1>3. \A x \in T : \E i \in DOMAIN s : s[i] = x
  BY <1>1 DEF Lists
<1>4. f \in [I -> X] /\ (\A i, j \in I : f[i] = f[j] => i = j) /\ \A x \in X : \E i \in I : f[i] = x
  BY <1>1, <1>2, <1>3
<1>5. IsFiniteSet(DOMAIN s)
  <2>1. 1 \in Int /\ Len(s) \in Int
    BY <1>1
  <2> QED
    BY <1>1, <2>1, FS_Interval
<1>6. I \in SUBSET DOMAIN s
  OBVIOUS
<1> HIDE DEF I, X, f
<1>7. IsFiniteSet(I)
  BY <1>5, <1>6, FS_Subset
<1>8. f \in Bijection(I, X)
  BY <1>4 DEF Bijection, Injection, Surjection, IsInjective
<1>9. ExistsBijection(I, X)
  BY <1>8 DEF ExistsBijection
<1>10. Cardinality(X) = Cardinality(I)
  BY <1>7, <1>9, FS_Bijection
<1> QED
  BY <1>10 DEF I, X, PlacesOf, Having

LEMMA WholeSound ==
  ASSUME NEW d, Whole(d, {}, {})
  PROVE  Sound(d)
<1>1. Tree(d) /\ Store(d) /\ Tally(d, {}, {})
  BY DEF Whole
<1>2. LinksWhole(d)
  BY <1>1, LinksSound DEF Tree
<1>3. UnlinkedWhole(d) /\ Lists(d.unlinked, Loose(d.live))
  BY <1>1, UnlinkedSound
<1>4. ASSUME NEW p \in Pools
      PROVE  LET pool == d.pool[p] IN
             /\ InUse(d, p) \cap Seqs!ToSet(pool.root) = {}
             /\ InUse(d, p) \cup Seqs!ToSet(pool.root) = 1..(pool.blocks * ItemsPerBlock)
             /\ Len(pool.root) + pool.current = pool.blocks * ItemsPerBlock
             /\ pool.current = Cardinality(InUse(d, p))
             /\ ~d.drifted => pool.untracked = Cardinality({i \in DOMAIN d.unlinked : d.unlinked[i][1] = p})
  <2>1. Stock(d.pool[p], Used(d.live, p))
    BY <1>1 DEF Store
  <2>2. InUse(d, p) = Used(d.live, p)
    BY <1>1, InUseIs DEF Store
  <2>3. d.pool[p].untracked = Count(d.live, {}, p)
    BY <1>1 DEF Tally
  <2>4. Count(d.live, {}, p) = Cardinality(Having(Loose(d.live), p))
    <3>1. Loose(d.live) \ {} = Loose(d.live)
      OBVIOUS
    <3> QED
      BY <3>1 DEF Count, Having
  <2>5. Cardinality(PlacesOf(d.unlinked, p)) = Cardinality(Having(Loose(d.live), p))
    BY <1>3, PlacesCount
  <2>7. PlacesOf(d.unlinked, p) = {i \in DOMAIN d.unlinked : d.unlinked[i][1] = p}
    BY DEF PlacesOf
  <2>8. d.pool[p].untracked = Cardinality({i \in DOMAIN d.unlinked : d.unlinked[i][1] = p})
    BY <2>3, <2>4, <2>5, <2>7
  <2>6. /\ Used(d.live, p) \cap Seqs!ToSet(d.pool[p].root) = {}
        /\ Used(d.live, p) \cup Seqs!ToSet(d.pool[p].root) = 1..(d.pool[p].blocks * ItemsPerBlock)
        /\ Len(d.pool[p].root) + d.pool[p].current = d.pool[p].blocks * ItemsPerBlock
        /\ d.pool[p].current = Cardinality(Used(d.live, p))
    BY <2>1, StockSound
  <2> QED
    BY <2>2, <2>6, <2>8
<1>5. PoolsWhole(d)
  BY <1>4 DEF PoolsWhole
<1> QED
  BY <1>2, <1>3, <1>5 DEF Sound

DomInv == ~dom.crashed => Whole(dom, {}, {})

\* Not to be below n is to be outside a set that n is in, with what is below it.
LEMMA OutsideOf ==
  ASSUME Whole(dom, {}, {}), NEW p \in Containers, NEW n \in Nodes, MayInsert(p, n)
  PROVE  \E S : Moving(dom, p, n, S)
<1>1. PICK S \in SUBSET DOMAIN dom.live : n \in S /\ WithChildren(S) /\ p \notin S
  BY DEF MayInsert, Below
<1>2. Closed(dom.live, S)
  BY <1>1 DEF WithChildren, Closed
<1>3. p \in DOMAIN dom.live
  BY DEF Containers, ElementsOf, NodesOf, Whole, Tree
<1>4. Moving(dom, p, n, S)
  BY <1>1, <1>2, <1>3 DEF Moving, Nodes
<1> QED
  BY <1>4

LEMMA DomStep == DomInv /\ [DomNext]_dom => DomInv'
<1> SUFFICES ASSUME DomInv, [DomNext]_dom, ~dom'.crashed PROVE Whole(dom', {}, {})
  BY DEF DomInv
<1>1. CASE UNCHANGED dom
  BY <1>1 DEF DomInv
<1>2. CASE DomNext
  <2>1. Whole(dom, {}, {})
    BY <1>2 DEF DomInv, DomNext
  <2>2. Containers \subseteq DOMAIN dom.live /\ Nodes = NodesOf(dom) /\ Nodes \subseteq DOMAIN dom.live
        /\ ElementsOf(dom) \subseteq Nodes
    BY <2>1 DEF Containers, Nodes, ElementsOf, NodesOf, Whole, Tree
  <2>3. ASSUME NEW kind \in MadeKinds, Create(kind) PROVE Whole(dom', {}, {})
    BY <2>1, <2>3, CreateWhole DEF Create
  <2>4. ASSUME NEW p \in Containers, NEW n \in Nodes, Insert(p, n) PROVE Whole(dom', {}, {})
    <3>1. PICK S : Moving(dom, p, n, S)
      BY <2>1, <2>4, OutsideOf DEF Insert
    <3>2. CASE dom' = InsertEndChild(dom, p, n)
      BY <2>1, <3>1, <3>2, EndWhole
    <3>3. CASE dom' = InsertFirstChild(dom, p, n)
      BY <2>1, <3>1, <3>3, FirstWhole
    <3>4. ASSUME NEW after \in Nodes, dom.live[after].parent = p, dom' = InsertAfterChild(dom, p, after, n)
          PROVE  Whole(dom', {}, {})
      <4>1. after \in DOMAIN dom.live
        BY <2>2, <3>4
      <4>2. Whole(dom', {}, {}) \/ dom'.crashed
        BY <2>1, <3>1, <3>4, <4>1, AfterWhole
      <4> QED
        BY <4>2
    <3> QED
      BY <2>4, <3>2, <3>3, <3>4 DEF Insert
  <2>5. ASSUME NEW n \in Nodes, DeleteOne(n) PROVE Whole(dom', {}, {})
    BY <2>1, <2>2, <2>5, DeleteWhole DEF DeleteOne
  <2>6. ASSUME NEW p \in Containers, RemoveAll(p) PROVE Whole(dom', {}, {})
    <3>1. p \in DOMAIN dom.live /\ dom' = DeleteChildren(dom, p)
      BY <2>2, <2>6 DEF RemoveAll
    <3> QED
      BY <2>1, <3>1, ChildrenWhole
  <2>7. ASSUME NEW e \in ElementsOf(dom), NEW name \in AttributeNames, SetAttribute(e, name)
        PROVE  Whole(dom', {}, {})
    <3>1. e \in DOMAIN dom.live /\ e # Doc /\ dom.live[e].kind = "element"
      BY <2>7 DEF ElementsOf, NodesOf
    <3>2. dom' = dom \/ dom' = AddAttribute(dom, e, name)
      BY <2>7 DEF SetAttribute, FindOrCreateAttribute
    <3>3. CASE dom' = AddAttribute(dom, e, name)
      BY <2>1, <3>1, <3>3, AddWhole
    <3> QED
      BY <2>1, <3>2, <3>3
  <2>8. ASSUME NEW e \in ElementsOf(dom), NEW name \in AttributeNames, UnsetAttribute(e, name)
        PROVE  Whole(dom', {}, {})
    <3>1. e \in DOMAIN dom.live /\ dom' = DeleteAttribute(dom, e, name)
      BY <2>2, <2>8 DEF UnsetAttribute
    <3> QED
      BY <2>1, <3>1, UnsetWhole
  <2>9. CASE ClearAll
    BY <2>1, <2>9, ClearWhole DEF ClearAll
  <2> QED
    BY <1>2, <2>3, <2>4, <2>5, <2>6, <2>7, <2>8, <2>9 DEF DomNext
<1> QED
  BY <1>1, <1>2

\* No node is lost, freed while it is linked, or handed out twice, whatever the
\* order in which a program makes, moves and deletes nodes and attributes
\* (tinyxml2's Unlink, InsertEndChild, DeleteNode, MemPoolT and ~XMLDocument).
THEOREM DomIsSound == DomSpec => []DomSound
<1>1. DomInit => DomInv
  BY EmptyWhole DEF DomInit, DomInv
<1>2. DomInv => DomSound
  BY WholeSound DEF DomInv, DomSound
<1> QED
  BY <1>1, <1>2, DomStep, PTL DEF DomSpec
=============================================================================
