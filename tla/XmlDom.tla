------------------------------- MODULE XmlDom -------------------------------
(***************************************************************************)
(* The document of core/tinyxml2: nodes carved from memory pools, linked by  *)
(* pointers, and the list of the nodes nobody has inserted yet.  A node is   *)
(* named by the pool item it lives in; `dom` is the whole document, and the  *)
(* operators map a document to the one after a call.                         *)
(***************************************************************************)
EXTENDS Integers, Sequences, FiniteSets, TLC
Seqs == INSTANCE SequencesExt

CONSTANTS
  ItemsPerBlock,  \* of a pool
  MadeKinds,      \* the kinds of nodes a program makes itself
  MaxItems,       \* bound: nodes that exist at a time
  MaxAttributes,  \* bound: attributes that exist at a time
  AttributeNames,
  LastAfterPrev,  \* may a caller move the last child behind the one before it?
  Null

VARIABLE dom

Doc   == <<"document", 0>>
Pools == {"element", "attribute", "text", "comment"}

\* A block holds an item, and null is not the name of one.
ASSUME DomAssumption == ItemsPerBlock \in Nat \ {0} /\ Null \notin {Doc} \cup (Pools \X Nat)

\* Comments, declarations and unknown nodes have one size and share a pool.
PoolOf(kind) == IF kind \in {"element", "text"} THEN kind ELSE "comment"

NewPool == [root |-> <<>>, blocks |-> 0, current |-> 0, untracked |-> 0]
NewNode(kind, name) ==
  [kind |-> kind, name |-> name, closing |-> "open", attrs |-> <<>>,
   parent |-> Null, prev |-> Null, next |-> Null, first |-> Null, last |-> Null]

EmptyDom ==
  [live     |-> [k \in {Doc} |-> NewNode("document", "")],
   unlinked |-> <<>>,
   pool     |-> [p \in Pools |-> NewPool],
   drifted  |-> FALSE,  \* nodes were deleted that were never marked tracked
   crashed  |-> FALSE]

-----------------------------------------------------------------------------
\* MemPoolT::Alloc; a pool without free items takes a block and threads it.
Stocked(pool) ==
  IF pool.root # <<>> THEN pool
  ELSE [pool EXCEPT !.root   = [i \in 1..ItemsPerBlock |-> pool.blocks * ItemsPerBlock + i],
                    !.blocks = @ + 1]
Item(d, p)  == <<p, Head(Stocked(d.pool[p]).root)>>
Allocated(pool) == [Stocked(pool) EXCEPT !.root = Tail(@), !.current = @ + 1, !.untracked = @ + 1]
Alloc(d, p) == [d EXCEPT !.pool[p] = Allocated(@)]

\* MemPoolT::Free; of several items the first is the one freed last.
Returned(pool, items) == [pool EXCEPT !.root = items \o @, !.current = @ - Len(items)]
Free(d, item) == [d EXCEPT !.pool[item[1]] = Returned(@, <<item[2]>>)]

SetTracked(d, item) == [d EXCEPT !.pool[item[1]].untracked = @ - 1]

\* DynArray::SwapRemove.
SwapRemove(s, i) == Seqs!Front([s EXCEPT ![i] = Seqs!Last(s)])

SlipRemoveFirst(d, n) == IF d.unlinked = <<>> THEN d ELSE [d EXCEPT !.unlinked = SwapRemove(@, 1)]
MarkInUse(d, n) ==
  LET i == Seqs!SelectInSeq(d.unlinked, LAMBDA u : u = n) IN
  IF i = 0 THEN d ELSE [d EXCEPT !.unlinked = SwapRemove(@, i)]

CreateUnlinkedNode(d, kind, name) ==
  LET p == PoolOf(kind) IN
  [Alloc(d, p) EXCEPT
     !.live = [k \in DOMAIN @ \cup {Item(d, p)} |-> IF k = Item(d, p) THEN NewNode(kind, name) ELSE @[k]],
     !.unlinked = Append(@, Item(d, p))]

-----------------------------------------------------------------------------
\* An assignment through a pointer that may be null.
Put(d, n, field, to) == IF n = Null THEN d ELSE [d EXCEPT !.live[n][field] = to]

Unlink(d, child) ==
  LET c  == d.live[child]
      p  == d.live[c.parent]
      d1 == IF p.first = child THEN Put(d, c.parent, "first", c.next) ELSE d
      d2 == IF p.last = child THEN Put(d1, c.parent, "last", c.prev) ELSE d1
      d3 == Put(Put(d2, c.prev, "next", c.next), c.next, "prev", c.prev)
  IN [d3 EXCEPT !.live[child] = [@ EXCEPT !.next = Null, !.prev = Null, !.parent = Null]]

SlipStillLinked(d, n) ==
  IF d.live[n].parent # Null THEN Put(d, n, "next", Null) ELSE SetTracked(MarkInUse(d, n), n)
InsertChildPreamble(d, n) ==
  IF d.live[n].parent # Null THEN Unlink(d, n) ELSE SetTracked(MarkInUse(d, n), n)

InsertEndChild(d0, p, n) ==
  LET d   == InsertChildPreamble(d0, n)
      old == d.live[p].last
      d1  == IF old = Null THEN Put(d, p, "first", n) ELSE Put(Put(d, old, "next", n), n, "prev", old)
  IN Put(Put(d1, p, "last", n), n, "parent", p)

InsertFirstChild(d0, p, n) ==
  LET d   == InsertChildPreamble(d0, n)
      old == d.live[p].first
      d1  == IF old = Null THEN Put(d, p, "last", n) ELSE Put(Put(d, old, "prev", n), n, "next", old)
  IN Put(Put(d1, p, "first", n), n, "parent", p)

\* The pointer to the next child is read again once the preamble has moved the
\* node; where the node itself was next and last, it is null and written through.
InsertAfterChild(d0, p, after, n) ==
  IF after = n THEN d0
  ELSE IF d0.live[after].next = Null THEN InsertEndChild(d0, p, n)
  ELSE LET d    == InsertChildPreamble(d0, n)
           next == d.live[after].next
       IN IF next = Null THEN [d0 EXCEPT !.crashed = TRUE]
          ELSE Put(Put(Put(Put(Put(d, n, "prev", after), n, "next", next),
                           next, "prev", n), after, "next", n), n, "parent", p)

\* ~XMLElement gives its attributes back, the first one first.
FreeAttributes(d, n) ==
  LET items == [i \in DOMAIN d.live[n].attrs |-> d.live[n].attrs[i].item[2]] IN
  [d EXCEPT !.pool["attribute"] = Returned(@, Seqs!Reverse(items)), !.live[n].attrs = <<>>]

\* The destructors that begin on the way from n to its first leaf.
Down(s) ==
  LET c == s.dom.live[s.at].first IN IF c = Null THEN s ELSE [dom |-> FreeAttributes(s.dom, c), at |-> c]
ToFirstLeaf(d, n) ==
  LET down[k \in 0..Cardinality(DOMAIN d.live)] == IF k = 0 THEN [dom |-> d, at |-> n] ELSE Down(down[k - 1])
  IN down[Cardinality(DOMAIN d.live)]

Released(d, n) == [Free(d, n) EXCEPT !.live = [k \in DOMAIN @ \ {n} |-> @[k]]]

\* The nodes below n, in the order in which their destructors end.
DeleteFirstLeaf(d, n) ==
  LET leaf == ToFirstLeaf(d, n) IN IF leaf.at = n THEN leaf.dom ELSE Released(Unlink(leaf.dom, leaf.at), leaf.at)
DeleteChildren(d, n) ==
  LET left[k \in 0..Cardinality(DOMAIN d.live)] == IF k = 0 THEN d ELSE DeleteFirstLeaf(left[k - 1], n)
  IN left[Cardinality(DOMAIN d.live)]

\* The static DeleteNode of an unlinked node.
DeleteUnlinked(d, n) == Released(DeleteChildren(FreeAttributes(MarkInUse(d, n), n), n), n)

DeleteChild(d, n) == DeleteUnlinked(Unlink(d, n), n)

\* XMLDocument::DeleteNode.
DeleteNode(d, n) ==
  IF d.live[n].parent # Null THEN DeleteChild(d, n) ELSE DeleteUnlinked(SetTracked(d, n), n)

DeleteFirstUnlinked(d) == IF d.unlinked = <<>> THEN d ELSE DeleteNode(d, d.unlinked[1])
DeleteAllUnlinked(d) ==
  LET left[k \in 0..Len(d.unlinked)] == IF k = 0 THEN d ELSE DeleteFirstUnlinked(left[k - 1])
  IN left[Len(d.unlinked)]

\* XMLDocument::Clear, of the destructor too.
Clear(d) == DeleteAllUnlinked(DeleteChildren(d, Doc))

-----------------------------------------------------------------------------
FindAttribute(d, e, name) == Seqs!SelectInSeq(d.live[e].attrs, LAMBDA a : a.name = name)

\* CreateAttribute, linked behind the last one.
AddAttribute(d, e, name) ==
  [SetTracked(Alloc(d, "attribute"), Item(d, "attribute")) EXCEPT
     !.live[e].attrs = Append(@, [name |-> name, item |-> Item(d, "attribute")])]

FindOrCreateAttribute(d, e, name) ==
  IF FindAttribute(d, e, name) = 0 THEN AddAttribute(d, e, name) ELSE d

DeleteAttribute(d, e, name) ==
  LET i == FindAttribute(d, e, name) IN
  IF i = 0 THEN d
  ELSE Free([d EXCEPT !.live[e].attrs = Seqs!RemoveAt(@, i)], d.live[e].attrs[i].item)

-----------------------------------------------------------------------------
\* The calls of a program that edits a document; it inserts no node below itself.
NodesOf(d)    == DOMAIN d.live \ {Doc}
ElementsOf(d) == {n \in NodesOf(d) : d.live[n].kind = "element"}
Nodes         == NodesOf(dom)
Containers    == ElementsOf(dom) \cup {Doc}

\* p is n or below it: in every set that has n and the children of its nodes.
WithChildren(S) == \A c \in DOMAIN dom.live : dom.live[c].parent \in S => c \in S
Below(n, p)     == \A S \in SUBSET DOMAIN dom.live : n \in S /\ WithChildren(S) => p \in S
MayInsert(p, n) == ~Below(n, p)
LastBehindPrev(after, n) ==
  after # n /\ dom.live[after].next = n /\ dom.live[n].next = Null

DomInit == dom = EmptyDom

Create(kind) == Cardinality(Nodes) < MaxItems /\ dom' = CreateUnlinkedNode(dom, kind, "")
Insert(p, n) ==
  /\ MayInsert(p, n)
  /\ \/ dom' = InsertEndChild(dom, p, n)
     \/ dom' = InsertFirstChild(dom, p, n)
     \/ \E after \in {c \in Nodes : dom.live[c].parent = p} :
          /\ LastBehindPrev(after, n) => LastAfterPrev
          /\ dom' = InsertAfterChild(dom, p, after, n)
DeleteOne(n) == dom' = DeleteNode(dom, n)
RemoveAll(p) == dom' = DeleteChildren(dom, p)
SetAttribute(e, name) ==
  /\ dom.pool["attribute"].current < MaxAttributes
  /\ dom' = FindOrCreateAttribute(dom, e, name)
UnsetAttribute(e, name) == dom' = DeleteAttribute(dom, e, name)
ClearAll == dom' = Clear(dom)

DomNext ==
  /\ ~dom.crashed
  /\ \/ \E kind \in MadeKinds : Create(kind)
     \/ \E p \in Containers, n \in Nodes : Insert(p, n)
     \/ \E n \in Nodes : DeleteOne(n)
     \/ \E p \in Containers : RemoveAll(p)
     \/ \E e \in ElementsOf(dom), name \in AttributeNames : SetAttribute(e, name) \/ UnsetAttribute(e, name)
     \/ ClearAll

DomSpec == DomInit /\ [][DomNext]_dom

-----------------------------------------------------------------------------
\* Every pointer leads to a node that exists, and back.
LinksWhole(d) ==
  \A n \in DOMAIN d.live : LET x == d.live[n] IN
    /\ {x.parent, x.prev, x.next, x.first, x.last} \subseteq DOMAIN d.live \cup {Null}
    /\ (x.first = Null) <=> (x.last = Null)
    /\ x.first # Null => d.live[x.first].parent = n /\ d.live[x.first].prev = Null
    /\ x.last # Null  => d.live[x.last].parent = n /\ d.live[x.last].next = Null
    /\ x.next # Null  => d.live[x.next].prev = n /\ d.live[x.next].parent = x.parent
    /\ x.prev # Null  => d.live[x.prev].next = n
    /\ x.parent # Null /\ x.prev = Null => d.live[x.parent].first = n
    /\ x.parent = Null => x.prev = Null /\ x.next = Null

\* The nodes without a parent are the unlinked ones, once each.
UnlinkedWhole(d) ==
  /\ {d.unlinked[i] : i \in DOMAIN d.unlinked} = {n \in NodesOf(d) : d.live[n].parent = Null}
  /\ \A i, j \in DOMAIN d.unlinked : d.unlinked[i] = d.unlinked[j] => i = j

\* An item of a pool is free or in use; the untracked ones are the nodes that
\* were never inserted, as the destructor's assertions want it.
InUse(d, p) ==
  IF p = "attribute" THEN UNION {{a.item[2] : a \in Seqs!ToSet(d.live[e].attrs)} : e \in ElementsOf(d)}
  ELSE {n[2] : n \in {k \in NodesOf(d) : k[1] = p}}
PoolsWhole(d) ==
  \A p \in Pools : LET pool == d.pool[p] IN
    /\ InUse(d, p) \cap Seqs!ToSet(pool.root) = {}
    /\ InUse(d, p) \cup Seqs!ToSet(pool.root) = 1..(pool.blocks * ItemsPerBlock)
    /\ Len(pool.root) + pool.current = pool.blocks * ItemsPerBlock
    /\ pool.current = Cardinality(InUse(d, p))
    /\ ~d.drifted => pool.untracked = Cardinality({i \in DOMAIN d.unlinked : d.unlinked[i][1] = p})

Sound(d) == LinksWhole(d) /\ UnlinkedWhole(d) /\ PoolsWhole(d)

\* No node is lost, freed while it is linked, or handed out twice, whatever
\* the order in which nodes are made, moved and deleted.
DomSound == ~dom.crashed => Sound(dom)

\* The children of p, following the next pointers.
Kids(d, p) ==
  LET list[k \in 0..Cardinality(NodesOf(d))] ==
        IF k = 0 THEN IF d.live[p].first = Null THEN <<>> ELSE <<d.live[p].first>>
        ELSE LET s == list[k - 1] IN
             IF s = <<>> \/ d.live[Seqs!Last(s)].next = Null THEN s ELSE Append(s, d.live[Seqs!Last(s)].next)
  IN list[Cardinality(NodesOf(d))]

Forest == INSTANCE XmlForest WITH kids <- (Doc :> Kids(dom, Doc)) @@ [p \in Nodes |-> Kids(dom, p)]

\* The linked nodes are the ordered trees of the header's promises.
ImplementsForest == Forest!Spec
=============================================================================
