------------------------------ MODULE XmlText ------------------------------
(***************************************************************************)
(* The strings of core/tinyxml2.  What a file holds stays escaped in the     *)
(* buffer of the file until it is first read, and is rewritten there, in     *)
(* place (StrPair); what a program sets is kept as it is; XMLPrinter escapes *)
(* both.  An element with an attribute and some texts is read, set, copied,  *)
(* saved and loaded again; a character is its byte.                          *)
(***************************************************************************)
EXTENDS Integers, Sequences
LOCAL INSTANCE SequencesExt
LOCAL INSTANCE FiniteSetsExt

CONSTANTS
  Modes,      \* of a document: [entities, collapse]
  Files,      \* [attr, kids]: elements as files hold them
              \* (no text where an ampersand that begins no entity follows one
              \* that shrank: GetStr leaves a byte there that is not the text's)
  Settings,   \* [type, value]: what a program may set
  IntBits,    \* width of int and unsigned
  LongBits    \* width of int64_t and uint64_t

VARIABLES mode, el, meant
textVars == <<mode, el, meant>>

NUL == 0  LF == 10  CR == 13  Space == 32  Quot == 34  Hash == 35
Amp == 38  Apos == 39  Minus == 45  Semicolon == 59  Lt == 60  Gt == 62  LowerX == 120
Blanks == 9..13 \cup {Space}
Digit(c) == c - 48
IsDigit(c) == c \in 48..57
HexDigit(c) == IF IsDigit(c) THEN c - 48 ELSE IF c \in 97..102 THEN c - 87 ELSE c - 55
IsHexDigit(c) == IsDigit(c) \/ c \in 97..102 \/ c \in 65..70

\* The names are quot, amp, apos, lt and gt.
Entities ==
  {[value |-> Quot, pattern |-> <<113, 117, 111, 116>>], [value |-> Amp, pattern |-> <<97, 109, 112>>],
   [value |-> Apos, pattern |-> <<97, 112, 111, 115>>],
   [value |-> Lt, pattern |-> <<108, 116>>], [value |-> Gt, pattern |-> <<103, 116>>]}

At(b, i)         == IF i \in DOMAIN b THEN b[i] ELSE NUL
Holds(b, i, s)   == \A k \in DOMAIN s : At(b, i + k - 1) = s[k]
FirstOf(b, i, s) == Min({k \in i..Len(b) : Holds(b, k, s)} \cup {Len(b) + 1})

-----------------------------------------------------------------------------
\* The length is 0 where the code point has no encoding.
ConvertUTF32ToUTF8(u) ==
  CASE u < 128     -> <<u>>
    [] u \in 128..2047      -> <<192 + (u \div 64), 128 + (u % 64)>>
    [] u \in 2048..65535    -> <<224 + (u \div 4096), 128 + ((u \div 64) % 64), 128 + (u % 64)>>
    [] u \in 65536..2097151 ->
         <<240 + (u \div 262144), 128 + ((u \div 4096) % 64), 128 + ((u \div 64) % 64), 128 + (u % 64)>>
    [] OTHER       -> <<>>

Number(digits, base, Value(_)) == FoldLeft(LAMBDA n, c : n * base + Value(c), 0, digits)

\* The digits are read backwards from the semicolon to the last x, or to the last
\* hash; `after` is 0 where they are no number.  Where nothing follows the hash,
\* the ampersand alone is passed.
GetCharacterRef(b, p) ==
  LET semicolon == FirstOf(b, p + 2, <<Semicolon>>)
      hex       == At(b, p + 2) = LowerX
      mark      == Max({p + 1} \cup {k \in p + 1..semicolon - 1 : b[k] = IF hex THEN LowerX ELSE Hash})
      digits    == SubSeq(b, mark + 1, semicolon - 1)
      isNumber  == \A k \in DOMAIN digits : IF hex THEN IsHexDigit(digits[k]) ELSE IsDigit(digits[k])
      ucs       == IF hex THEN Number(digits, 16, HexDigit) ELSE Number(digits, 10, Digit)
  IN CASE At(b, p + 2) = NUL                   -> [after |-> p + 1, bytes |-> <<>>]
       [] semicolon > Len(b) \/ ~isNumber      -> [after |-> 0, bytes |-> <<>>]
       [] OTHER -> [after |-> semicolon + 1, bytes |-> ConvertUTF32ToUTF8(ucs)]

Written(b, q, s) == [k \in DOMAIN b |-> IF k \in q..(q + Len(s) - 1) THEN s[k - q + 1] ELSE b[k]]

\* One turn of the loop of StrPair::GetStr: the buffer, the next byte to read, the
\* next to write.  An ampersand that begins no entity is passed and not written.
Turn(s, flags) ==
  LET c == s.b[s.p]
      next == At(s.b, s.p + 1)
      ref  == GetCharacterRef(s.b, s.p)
      named == {e \in Entities : Holds(s.b, s.p + 1, Append(e.pattern, Semicolon))}
      Put(bytes, after) == [b |-> Written(s.b, s.q, bytes), p |-> after, q |-> s.q + Len(bytes)]
  IN CASE "newlines" \in flags /\ c \in {CR, LF} ->
            Put(<<LF>>, s.p + IF next \in {CR, LF} \ {c} THEN 2 ELSE 1)
       [] "entities" \in flags /\ c = Amp /\ next = Hash ->
            IF ref.after = 0 THEN Put(<<c>>, s.p + 1) ELSE Put(ref.bytes, ref.after)
       [] "entities" \in flags /\ c = Amp /\ next # Hash /\ named # {} ->
            LET e == CHOOSE e \in named : TRUE IN Put(<<e.value>>, s.p + Len(e.pattern) + 2)
       [] "entities" \in flags /\ c = Amp /\ next # Hash /\ named = {} ->
            [s EXCEPT !.p = @ + 1, !.q = @ + 1]
       [] OTHER -> Put(<<c>>, s.p + 1)

RECURSIVE Rewrite(_, _)
Rewrite(s, flags) == IF s.p > Len(s.b) THEN SubSeq(s.b, 1, s.q - 1) ELSE Rewrite(Turn(s, flags), flags)

\* Blanks at the ends go, and a run of them becomes a space.
CollapseWhitespace(b) ==
  LET keep == {k \in DOMAIN b : b[k] \notin Blanks}
      kept == SelectSeq([k \in DOMAIN b |-> k], LAMBDA k : k \in keep \/ (k - 1 \in keep /\ \E j \in keep : j > k))
  IN [k \in DOMAIN kept |-> IF b[kept[k]] \in Blanks THEN Space ELSE b[kept[k]]]

-----------------------------------------------------------------------------
\* A StrPair, and the mode of the document it is parsed in.
Cell(buf, flags)  == [buf |-> buf, flags |-> flags]
SetStr(bytes)     == Cell(bytes, {})
Set(bytes, flags) == Cell(bytes, flags \cup {"flush"})
GetStr(c) ==
  IF "flush" \notin c.flags THEN c
  ELSE LET b == Rewrite([b |-> c.buf, p |-> 1, q |-> 1], c.flags)
       IN SetStr(IF "collapse" \in c.flags THEN CollapseWhitespace(b) ELSE b)

\* ParseText: the bytes up to the end tag.
ParseText(bytes, endTag, flags) == Set(SubSeq(bytes, 1, FirstOf(bytes, 1, endTag) - 1), flags)

TextFlags ==
  {"newlines"} \cup (IF mode.entities THEN {"entities"} ELSE {})
               \cup (IF mode.collapse THEN {"collapse"} ELSE {})
ValueFlags == TextFlags \ {"collapse"}

\* XMLText::ParseDeep and XMLComment::ParseDeep.
ParseKid(kid) ==
  [kind |-> kid.kind,
   cell |-> CASE kid.kind = "text"    -> ParseText(kid.bytes, <<Lt>>, TextFlags)
              [] kid.kind = "cdata"   -> ParseText(kid.bytes, <<93, 93, Gt>>, {"newlines"})
              [] kid.kind = "comment" -> ParseText(kid.bytes, <<Minus, Minus, Gt>>, {"newlines"})]

\* The end tag of an attribute is its quote.  Blanks alone are no text.
Blank(kid) == kid.kind = "text" /\ \A k \in DOMAIN kid.bytes : kid.bytes[k] \in Blanks
NoAttr     == [kind |-> "none"]
ParseElement(file) ==
  [attr |-> IF file.attr.kind = "none" THEN NoAttr
            ELSE [kind |-> "value", cell |-> ParseText(file.attr.bytes, <<Quot>>, ValueFlags)],
   kids |-> LET kept == SelectSeq(file.kids, LAMBDA k : ~Blank(k)) IN [i \in DOMAIN kept |-> ParseKid(kept[i])]]

\* PrintString: entities for the five characters, or for three of them.
Escaped(restricted) == IF restricted THEN {Amp, Lt, Gt} ELSE {Amp, Lt, Gt, Quot, Apos}
SlipPrintString(bytes, restricted) ==
  FlattenSeq([k \in DOMAIN bytes |->
    IF mode.entities /\ bytes[k] \in Escaped(restricted) \ {Amp}
    THEN <<Amp>> \o (CHOOSE e \in Entities : e.value = bytes[k]).pattern \o <<Semicolon>>
    ELSE <<bytes[k]>>])
PrintString(bytes, restricted) ==
  FlattenSeq([k \in DOMAIN bytes |->
    IF mode.entities /\ bytes[k] \in Escaped(restricted)
    THEN <<Amp>> \o (CHOOSE e \in Entities : e.value = bytes[k]).pattern \o <<Semicolon>>
    ELSE <<bytes[k]>>])

\* What the printer writes of the element, without the blanks between tags.
PrintElement(e) ==
  [attr |-> IF e.attr.kind = "none" THEN NoAttr
            ELSE [kind |-> "value", bytes |-> PrintString(GetStr(e.attr.cell).buf, FALSE)],
   kids |-> [i \in DOMAIN e.kids |->
              LET value == GetStr(e.kids[i].cell).buf IN
              [kind  |-> e.kids[i].kind,
               bytes |-> IF e.kids[i].kind = "text" THEN PrintString(value, TRUE) ELSE value]]]

-----------------------------------------------------------------------------
\* Numbers: the types, and what sscanf and snprintf do.  A float is not modelled.
Signed(type)   == type \in {"int", "int64"}
Bits(type)     == IF type \in {"int", "unsigned"} THEN IntBits ELSE LongBits
Wrap(type, n)  ==
  LET w == 2 ^ Bits(type) u == n % w IN IF Signed(type) /\ u >= w \div 2 THEN u - w ELSE u

TrueWord  == <<116, 114, 117, 101>>
FalseWord == <<102, 97, 108, 115, 101>>
Capital(s) == <<s[1] - 32>> \o Tail(s)
Upper(s)   == [k \in DOMAIN s |-> s[k] - 32]

RECURSIVE Decimal(_)
Decimal(n) == IF n < 10 THEN <<48 + n>> ELSE Append(Decimal(n \div 10), 48 + (n % 10))
ToStr(type, v) ==
  CASE type = "string" -> v
    [] type = "bool"   -> IF v = 1 THEN TrueWord ELSE FalseWord
    [] OTHER           -> IF v < 0 THEN <<Minus>> \o Decimal(-v) ELSE Decimal(v)

Skipped(s)     == SubSeq(s, Min({k \in DOMAIN s : s[k] \notin Blanks} \cup {Len(s) + 1}), Len(s))
IsPrefixHex(s) == At(Skipped(s), 1) = 48 /\ At(Skipped(s), 2) \in {LowerX, 88}
NotRead        == [ok |-> FALSE]
Read(v)        == [ok |-> TRUE, value |-> v]

\* A number, and whatever follows it.
Scan(type, s) ==
  LET t      == Skipped(s)
      hex    == IsPrefixHex(s)
      minus  == At(t, 1) = Minus
      digits == IF hex THEN SubSeq(t, 3, Len(t)) ELSE IF minus THEN Tail(t) ELSE t
      run    == SubSeq(digits, 1, Min({k \in DOMAIN digits :
                  IF hex THEN ~IsHexDigit(digits[k]) ELSE ~IsDigit(digits[k])} \cup {Len(digits) + 1}) - 1)
      n      == IF hex THEN Number(run, 16, HexDigit) ELSE Number(run, 10, Digit)
  IN IF run = <<>> THEN NotRead ELSE Read(Wrap(type, IF minus THEN -n ELSE n))

ToNumber(type, s) ==
  CASE type = "string" -> Read(s)
    [] type = "bool"   ->
         LET n == Scan("int", s) IN
         IF n.ok THEN Read(IF n.value = 0 THEN 0 ELSE 1)
         ELSE IF s \in {TrueWord, Capital(TrueWord), Upper(TrueWord)} THEN Read(1)
         ELSE IF s \in {FalseWord, Capital(FalseWord), Upper(FalseWord)} THEN Read(0)
         ELSE NotRead
    [] OTHER           -> Scan(type, s)

-----------------------------------------------------------------------------
\* The queries look for a text in the first child.
IsText(kid) == kid.kind \in {"text", "cdata"}
QueryValue(cell, type) == ToNumber(type, GetStr(cell).buf)
QueryAttribute(e, type) == IF e.attr.kind = "none" THEN NotRead ELSE QueryValue(e.attr.cell, type)
QueryText(e, type) ==
  IF e.kids = <<>> \/ ~IsText(e.kids[1]) THEN NotRead ELSE QueryValue(e.kids[1].cell, type)
AttributeOr(e, type, default) ==
  LET r == QueryAttribute(e, type) IN IF r.ok THEN r.value ELSE default
TextOr(e, type, default) ==
  LET r == QueryText(e, type) IN IF r.ok THEN r.value ELSE default

\* GetText looks behind the comments.
TextBehindComments(e) == SelectInSeq(e.kids, LAMBDA k : k.kind # "comment")

\* What a program meant by what it did: the ghost of el.
NoNumber      == [type |-> "none"]
NumberOf(set) == IF set.type = "string" THEN NoNumber ELSE set

RECURSIVE Denoted(_, _)
Denoted(s, flags) ==
  LET rest(n) == Denoted(SubSeq(s, n, Len(s)), flags)
      named   == {e \in Entities : Holds(s, 2, Append(e.pattern, Semicolon))}
      ref     == GetCharacterRef(s, 1)
  IN IF s = <<>> THEN <<>>
     ELSE IF "newlines" \in flags /\ <<s[1], At(s, 2)>> \in {<<CR, LF>>, <<LF, CR>>} THEN <<LF>> \o rest(3)
     ELSE IF "newlines" \in flags /\ s[1] = CR THEN <<LF>> \o rest(2)
     ELSE IF "entities" \in flags /\ s[1] = Amp /\ named # {}
          THEN LET e == CHOOSE e \in named : TRUE IN <<e.value>> \o rest(Len(e.pattern) + 3)
     ELSE IF "entities" \in flags /\ s[1] = Amp /\ At(s, 2) = Hash /\ ref.after # 0
          THEN ref.bytes \o rest(ref.after)
     ELSE <<s[1]>> \o rest(2)

Meaning(kid, flags) ==
  LET b == Denoted(kid.bytes, flags) IN
  [kind |-> kid.kind, number |-> kid.number,
   bytes |-> IF "collapse" \in flags THEN CollapseWhitespace(b) ELSE b]
MeantBy(file, entities) ==
  LET raw(kid) == {"newlines"} \cup (IF entities THEN {"entities"} ELSE {})
                    \cup (IF mode.collapse /\ kid.kind = "text" THEN {"collapse"} ELSE {})
      kept     == SelectSeq(file.kids, LAMBDA k : ~Blank(k))
  IN [attr |-> IF file.attr.kind = "none" THEN NoAttr ELSE Meaning(file.attr, raw(file.attr)),
      kids |-> [i \in DOMAIN kept |->
                 Meaning(kept[i], IF kept[i].kind = "text" THEN raw(kept[i]) ELSE {"newlines"})]]

\* A text that the program sets is one that can be written in this mode.
Settable(set) == mode.entities \/ ToSet(ToStr(set.type, set.value)) \cap Escaped(FALSE) = {}

TextInit == mode \in Modes /\ \E file \in Files : el = ParseElement(file) /\ meant = MeantBy(file, mode.entities)

SetAttributeTo(set) ==
  LET v == ToStr(set.type, set.value) IN
  /\ Settable(set)
  /\ el' = [el EXCEPT !.attr = [kind |-> "value", cell |-> SetStr(v)]]
  /\ meant' = [meant EXCEPT !.attr = [kind |-> "value", number |-> NumberOf(set), bytes |-> v]]
  /\ UNCHANGED mode

\* The first child takes the text, or a new one before it does.
SetText(set) ==
  LET v == ToStr(set.type, set.value)
      first == el.kids # <<>> /\ IsText(el.kids[1])
      Means(kind) == [kind |-> kind, number |-> NumberOf(set), bytes |-> v]
  IN /\ Settable(set) /\ Len(el.kids) < 3
     /\ IF first
        THEN /\ el' = [el EXCEPT !.kids[1].cell = SetStr(v)]
             /\ meant' = [meant EXCEPT !.kids[1] = Means(@.kind)]
        ELSE /\ el' = [el EXCEPT !.kids = <<[kind |-> "text", cell |-> SetStr(v)]>> \o @]
             /\ meant' = [meant EXCEPT !.kids = <<Means("text")>> \o @]
     /\ UNCHANGED mode

ReadAttribute ==
  /\ el.attr.kind # "none" /\ el' = [el EXCEPT !.attr.cell = GetStr(@)]
  /\ UNCHANGED <<mode, meant>>
ReadText ==
  LET i == TextBehindComments(el) IN
  /\ i # 0 /\ el' = [el EXCEPT !.kids[i].cell = GetStr(@)]
  /\ UNCHANGED <<mode, meant>>

\* DeepClone: the strings of the copy are its own.
Copied(c) == SetStr(GetStr(c).buf)
DeepCopy ==
  /\ el' = [el EXCEPT !.attr = IF @.kind = "none" THEN NoAttr ELSE [@ EXCEPT !.cell = Copied(@)],
                      !.kids = [i \in DOMAIN @ |-> [@[i] EXCEPT !.cell = Copied(@)]]]
  /\ UNCHANGED <<mode, meant>>

SaveAndLoad ==
  /\ el' = ParseElement(PrintElement(el))
  /\ meant' = MeantBy(meant, FALSE)
  /\ UNCHANGED mode

TextNext ==
  \/ \E set \in Settings : SetAttributeTo(set) \/ SetText(set)
  \/ ReadAttribute \/ ReadText \/ DeepCopy \/ SaveAndLoad
TextSpec == TextInit /\ [][TextNext]_textVars

-----------------------------------------------------------------------------
\* Whatever is read, and however often, is what was meant by the file or by who set
\* it last, also in a copy and after it was saved and loaded, where only the line
\* ends are normalised and blanks collapse as they would in any file; a number
\* that was set as one type reads as the same number of that type.
TextAsMeant ==
  /\ el.attr.kind = meant.attr.kind
  /\ el.attr.kind # "none" =>
       /\ GetStr(el.attr.cell).buf = meant.attr.bytes
       /\ LET n == meant.attr.number IN n.type # "none" => AttributeOr(el, n.type, -1) = n.value
  /\ DOMAIN el.kids = DOMAIN meant.kids
  /\ \A i \in DOMAIN el.kids :
       el.kids[i].kind = meant.kids[i].kind /\ GetStr(el.kids[i].cell).buf = meant.kids[i].bytes
  /\ meant.kids # <<>> =>
       LET n == meant.kids[1].number IN n.type # "none" => TextOr(el, n.type, -1) = n.value
=============================================================================
