----------------------------- MODULE XmlReader -----------------------------
(***************************************************************************)
(* XMLDocument::Parse of core/tinyxml2: how every configuration file of the  *)
(* plugin becomes a document.  The recursion of ParseDeep is the stack `open`*)
(* of the nodes whose children are being read; `written` is the text so far, *)
(* as the lexemes Identify tells apart.                                      *)
(***************************************************************************)
EXTENDS XmlDom
LOCAL INSTANCE SequencesExt
LOCAL INSTANCE FiniteSetsExt

CONSTANTS
  Tags,        \* names of elements
  MaxDepth,    \* TINYXML2_MAX_ELEMENT_DEPTH
  MaxLexemes   \* bound on the length of a text

VARIABLES doc, open, written, error, source
readerVars == <<doc, open, written, error, source>>

\* A lexeme: its kind, and the name of a tag.  "sealed" is <a/>, and </a/> too.
\* A parse fails in the others: "faulty" is a tag with a malformed or a repeated
\* attribute, "broken" a node without a name or without an end, "ragged" a text
\* that no tag follows, and "cut" one that a lone < follows, at the end.
Lex(kind, name) == [kind |-> kind, name |-> name]
Leaves   == {"text", "comment", "declaration"}
Tagged   == {"open", "sealed", "closing", "faulty"}
Torn     == {"ragged", "cut"}
Lexemes  == {Lex(k, "") : k \in Leaves \cup Torn \cup {"broken"}} \cup {Lex(k, t) : k \in Tagged, t \in Tags}
Faults   == [broken |-> "parsing", faulty |-> "attribute", ragged |-> "text", cut |-> "parsing"]
Sources  == {"file", "text"}
NoError  == "success"
Errors   == {NoError, "empty", "parsing", "text", "attribute", "declaration", "mismatched", "depth"}

Level   == Last(open)
Reading == open # <<>>

ReaderInit ==
  /\ doc = EmptyDom /\ open = <<Doc>> /\ written = <<>>
  /\ error = NoError /\ source \in Sources

-----------------------------------------------------------------------------
\* Identify: the node of the lexeme, not yet inserted; a leaf is read whole.
NodeKind(lex) ==
  IF lex.kind \in Leaves THEN lex.kind ELSE IF lex.kind \in Torn THEN "text" ELSE "element"
Identify(d, lex) == CreateUnlinkedNode(d, NodeKind(lex), lex.name)
Identified(d, lex) == Item(d, PoolOf(NodeKind(lex)))

\* Every level deletes the node it was reading; none of them is marked tracked.
Abandon(d, nodes) == [FoldLeft(DeleteUnlinked, d, nodes) EXCEPT !.drifted = TRUE]

\* Parse of a text clears what a failed parse left; LoadFile keeps it.
Emptied(d) == [DeleteChildren(d, Doc) EXCEPT !.pool = [p \in Pools |-> NewPool], !.drifted = FALSE]

Fail(d, why, extra) ==
  LET left == Abandon(d, extra \o Reverse(Tail(open))) IN
  /\ error' = why
  /\ open' = <<>>
  /\ doc' = IF source = "text" THEN Emptied(left) ELSE left

Finish == open' = <<>> /\ UNCHANGED <<doc, error>>
Keep(d) == doc' = d /\ UNCHANGED <<open, error>>

\* A declaration is in place at the document, behind declarations only.
WellLocated(d) ==
  /\ Level = Doc
  /\ d.live[Doc].first # Null =>
       /\ d.live[d.live[Doc].first].kind = "declaration"
       /\ d.live[d.live[Doc].last].kind = "declaration"

\* A text goes on to the next tag, so no text follows it.
AfterText == written # <<>> /\ Last(written).kind = "text"

ReadLeaf(lex) ==
  LET n == Identified(doc, lex)
      d == Identify(doc, lex)
  IN /\ lex.kind \in Leaves
     /\ ~(lex.kind = "text" /\ AfterText)
     /\ IF lex.kind = "declaration" /\ ~WellLocated(d)
        THEN Fail(d, "declaration", <<n>>)
        ELSE Keep(InsertEndChild(d, Level, n))

\* The node that fails to parse goes first; an attribute went before its element.
ReadBroken(lex) ==
  /\ lex.kind \in DOMAIN Faults
  /\ ~(lex.kind \in Torn /\ AfterText)
  /\ Fail(Identify(doc, lex), Faults[lex.kind], <<Identified(doc, lex)>>)

ReadSealed(lex) ==
  /\ lex.kind = "sealed"
  /\ Keep(InsertEndChild(Identify(doc, lex), Level, Identified(doc, lex)))

ReadOpen(lex) ==
  /\ lex.kind = "open"
  /\ doc' = Identify(doc, lex)
  /\ open' = Append(open, Identified(doc, lex))
  /\ UNCHANGED error

\* A closing tag is read as an element, and deleted at once.
Passed(d, lex) == DeleteUnlinked(SetTracked(Identify(d, lex), Identified(d, lex)), Identified(d, lex))

SlipClosing(lex) ==
  LET d == Passed(doc, lex) IN
  /\ lex.kind = "closing"
  /\ IF Level = Doc THEN open' = <<>> /\ doc' = d /\ UNCHANGED error
     ELSE /\ doc' = InsertEndChild(d, open[Len(open) - 1], Level)
          /\ open' = Front(open)
          /\ UNCHANGED error

\* It ends the innermost element, which is inserted if the names agree; with no
\* element open it ends the parse, without an error.
ReadClosing(lex) ==
  LET d == Passed(doc, lex) IN
  /\ lex.kind = "closing"
  /\ IF Level = Doc THEN open' = <<>> /\ doc' = d /\ UNCHANGED error
     ELSE IF doc.live[Level].name # lex.name THEN Fail(d, "mismatched", <<>>)
     ELSE /\ doc' = InsertEndChild(d, open[Len(open) - 1], Level)
          /\ open' = Front(open)
          /\ UNCHANGED error

\* PushDepth, when an element's content begins.
TooDeep == Len(open) = MaxDepth

ReadNext ==
  /\ Reading /\ Len(written) < MaxLexemes /\ UNCHANGED source
  /\ IF TooDeep THEN Fail(doc, "depth", <<>>) /\ UNCHANGED written
     ELSE \E lex \in Lexemes :
            /\ written' = Append(written, lex)
            /\ ReadLeaf(lex) \/ ReadBroken(lex) \/ ReadSealed(lex) \/ ReadOpen(lex) \/ ReadClosing(lex)

\* The text ends behind a node, with or without blanks; an element is open, or none.
AfterOpen == Level # Doc /\ Last(written).kind = "open"
EndOfText ==
  /\ Reading /\ ~AfterText /\ UNCHANGED <<written, source>>
  /\ IF written = <<>> THEN Fail(doc, "empty", <<>>)
     ELSE IF Level = Doc THEN Finish
     ELSE \E blanks \in BOOLEAN :
            IF AfterOpen /\ ~blanks THEN Fail(doc, "mismatched", <<>>)
            ELSE Fail(doc, IF TooDeep THEN "depth" ELSE "parsing", <<>>)

ReaderNext == ReadNext \/ EndOfText
ReaderSpec == ReaderInit /\ [][ReaderNext]_readerVars

-----------------------------------------------------------------------------
\* The document a text writes, by the balance of its tags.
Before(i, kind) == Cardinality({j \in 1..(i - 1) : written[j].kind = kind})
DepthAt(i)      == Before(i, "open") - Before(i, "closing")
OpenerOf(i)     ==
  Max({0} \cup {j \in 1..(i - 1) : written[j].kind = "open" /\ DepthAt(j) = DepthAt(i) - 1})
Stray           == \E i \in DOMAIN written : written[i].kind = "closing" /\ DepthAt(i) = 0

Closes(i, j) == written[j].kind = "closing" /\ OpenerOf(j) = i /\ written[j].name = written[i].name
OutOfPlace(i) == written[i].kind = "declaration" /\ \E j \in 1..(i - 1) : written[j].kind # "declaration"
Whole(i) ==
  \/ written[i].kind = "sealed"
  \/ written[i].kind \in Leaves /\ ~OutOfPlace(i)
  \/ written[i].kind = "open" /\ \E j \in DOMAIN written : Closes(i, j)

WrittenUnder(i) ==
  SetToSortSeq({j \in DOMAIN written : written[j].kind # "closing" /\ OpenerOf(j) = i}, <)

RECURSIVE WrittenTree(_), TreeOf(_)
WrittenTree(i) ==
  <<NodeKind(written[i]), written[i].name,
    LET under == WrittenUnder(i) IN [k \in DOMAIN under |-> WrittenTree(under[k])]>>
TreeOf(n) ==
  <<doc.live[n].kind, doc.live[n].name, LET ks == Kids(doc, n) IN [k \in DOMAIN ks |-> TreeOf(ks[k])]>>

WellFormed ==
  /\ written # <<>>
  /\ \A i \in DOMAIN written : written[i].kind = "closing" \/ Whole(i)
  /\ \A i \in DOMAIN written : written[i].kind = "open" => DepthAt(i) < MaxDepth - 2

Finished == SelectSeq(WrittenUnder(0), Whole)

\* The document holds the whole nodes of the text read so far, nested as the tags
\* are; a parse ends with an error if and only if the text is malformed, except
\* that a closing tag with nothing open ends it as if the text ended there; no
\* node is lost or left unlinked, and a text that failed leaves nothing.
TreeAsWritten ==
  LET kids == Kids(doc, Doc) IN
  /\ IF ~Reading /\ error # NoError /\ source = "text" THEN kids = <<>>
     ELSE [k \in DOMAIN kids |-> TreeOf(kids[k])] = [k \in DOMAIN Finished |-> WrittenTree(Finished[k])]
  /\ ~Reading => (error = NoError <=> Stray \/ WellFormed)
  /\ Sound(doc) /\ (~Reading => doc.unlinked = <<>>)
=============================================================================
