----------------------------- MODULE XmlPrinter -----------------------------
(***************************************************************************)
(* XMLPrinter of core/tinyxml2: a document as the text that is saved.  The   *)
(* printer is a record, and visiting a node maps it to the one after; what   *)
(* it has written are lexemes and the blanks between them.                   *)
(***************************************************************************)
EXTENDS XmlReader
LOCAL INSTANCE SequencesExt

Break == Lex("blank", "")

\* "opening" is a tag that has not been sealed yet: <a.
NewPrinter(compact) ==
  [out |-> <<>>, justOpened |-> FALSE, stack |-> <<>>, first |-> TRUE,
   depth |-> 0, textDepth |-> -1, compact |-> compact]

Write(pr, lex) == [pr EXCEPT !.out = Append(@, lex)]

SealElementIfJustOpened(pr) ==
  IF ~pr.justOpened THEN pr
  ELSE [pr EXCEPT !.justOpened = FALSE, !.out[Len(pr.out)] = Lex("open", @.name)]

PrepareForNewNode(pr0) ==
  LET pr == SealElementIfJustOpened(pr0) IN
  IF pr.compact THEN pr
  ELSE [(IF (IF pr.first THEN pr.depth > 0 ELSE pr.textDepth < 0) THEN Write(pr, Break) ELSE pr)
          EXCEPT !.first = FALSE]

OpenElement(pr, name) ==
  [Write(PrepareForNewNode(pr), Lex("opening", name)) EXCEPT
     !.stack = Append(@, name), !.justOpened = TRUE, !.depth = @ + 1]

CloseElement(pr) ==
  LET depth  == pr.depth - 1
      name   == Last(pr.stack)
      broken == IF pr.textDepth < 0 /\ ~pr.compact THEN Write(pr, Break) ELSE pr
      closed == IF pr.justOpened THEN [pr EXCEPT !.out[Len(pr.out)] = Lex("sealed", name)]
                ELSE Write(broken, Lex("closing", name))
  IN [(IF depth = 0 /\ ~pr.compact THEN Write(closed, Break) ELSE closed) EXCEPT
        !.depth = depth, !.stack = Front(@), !.justOpened = FALSE,
        !.textDepth = IF @ = depth THEN -1 ELSE @]

SlipPushText(pr) == Write(SealElementIfJustOpened(pr), Lex("text", ""))
PushText(pr) ==
  Write(SealElementIfJustOpened([pr EXCEPT !.textDepth = pr.depth - 1]), Lex("text", ""))

\* PushComment, PushDeclaration and PushUnknown.
PushOther(pr, kind) == Write(PrepareForNewNode(pr), Lex(kind, ""))

\* XMLNode::Accept of every kind: an element visits its children in between.
RECURSIVE Accept(_, _, _)
Accept(d, n, pr) ==
  LET kids == Kids(d, n)
      Visit(p, k) == Accept(d, k, p)
  IN CASE d.live[n].kind = "document" -> FoldLeft(Visit, pr, kids)
       [] d.live[n].kind = "element"  ->
            CloseElement(FoldLeft(Visit, OpenElement(pr, d.live[n].name), kids))
       [] d.live[n].kind = "text"     -> PushText(pr)
       [] OTHER                       -> PushOther(pr, d.live[n].kind)

Printed(d, compact) == Accept(d, Doc, NewPrinter(compact)).out

-----------------------------------------------------------------------------
Solid(out) == SelectSeq(out, LAMBDA lex : lex # Break)

\* The text without the closing tag that ended it early, and with an element that
\* has no content as a sealed tag.
Kept == IF Stray THEN Front(written) ELSE written
Shortest ==
  LET Shorten(s, lex) ==
        IF s # <<>> /\ lex.kind = "closing" /\ Last(s).kind = "open"
        THEN Append(Front(s), Lex("sealed", lex.name)) ELSE Append(s, lex)
  IN FoldLeft(Shorten, <<>>, Kept)

InElement(out, i) ==
  Cardinality({j \in 1..i : out[j].kind = "open"}) > Cardinality({j \in 1..i : out[j].kind = "closing"})

\* A document that was read is saved as the text it was read from, up to blanks, of
\* which the compact form has none; and no blank stands next to a text inside an
\* element, where it would be read as a part of it.
PrintedAsWritten ==
  ~Reading /\ error = NoError =>
    /\ Printed(doc, TRUE) = Shortest
    /\ LET out == Printed(doc, FALSE) IN
       /\ Solid(out) = Shortest
       /\ \A i \in 2..Len(out) :
            {out[i - 1].kind, out[i].kind} = {"text", "blank"} => ~InElement(out, i)
=============================================================================
