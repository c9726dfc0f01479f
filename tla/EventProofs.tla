---------------------------- MODULE EventProofs ----------------------------
(***************************************************************************)
(* What the hooks on the engine's files, events and drops promise, for any *)
(* set of files and streams, of worlds and handoffs, and of items.         *)
(***************************************************************************)
EXTENDS EncryptedFiles, HandoffEvent, DropHooks, SequenceTheorems, Numbers, TLAPS

(* Files: the hooked streams implement plain ones.                         *)

\* An entry of the table is about the file the engine has open in that stream,
\* which deciphers, and its position is within the plaintext.
EntryOf(s) ==
  /\ file[s] \in Files
  /\ TryDecryptAsset(file[s]) = "Ok"
  /\ file[s].len >= HeaderSize
  /\ \E p \in 0..(file[s].len - HeaderSize) :
       plain[s] = [of |-> file[s], len |-> file[s].len - HeaderSize, pos |-> p]

\* A stream is closed and has no entry, or it is open and inside its file.
StreamOk(s) ==
  \/ file[s] = Closed /\ plain[s] = Closed /\ rawPos[s] = 0
  \/ /\ file[s] \in Files
     /\ rawPos[s] \in 0..file[s].len
     /\ plain[s] = Closed \/ EntryOf(s)

FilesInv ==
  /\ file \in [Streams -> Files \cup {Closed}]
  /\ DOMAIN plain = Streams /\ plain = [s \in Streams |-> plain[s]]
  /\ rawPos = [s \in Streams |-> rawPos[s]] /\ DOMAIN rawPos = Streams
  /\ \A s \in Streams : StreamOk(s)

\* The refinement mapping, as the instance has it.
View == [s \in Streams |-> Seen(s)]
Pos  == [s \in Streams |-> OnGetPosition(s)]

\* What a stream shows: nothing when it is closed, else its plaintext or its bytes,
\* and a position inside them.
LEMMA Showing ==
  ASSUME FilesInv, NEW s \in Streams
  PROVE  /\ file[s] = Closed => Seen(s) = Closed /\ OnGetPosition(s) = 0
         /\ file[s] # Closed => /\ Seen(s) # Closed
                                /\ Seen(s) \in {Raw(file[s]), Clear(file[s])}
                                /\ Seen(s).len \in Nat
                                /\ OnGetPosition(s) \in 0..Seen(s).len
<1>0. StreamOk(s)
  BY DEF FilesInv
<1>1. CASE file[s] = Closed
  BY <1>0, <1>1, FilesAssumption DEF StreamOk, Seen, OnGetPosition
<1>2. CASE file[s] # Closed /\ plain[s] = Closed
  <2>1. Seen(s) = Raw(file[s]) /\ OnGetPosition(s) = rawPos[s]
    BY <1>2 DEF Seen, OnGetPosition, OnGetStreamSize, Raw
  <2> QED
    BY <2>1, <1>0, <1>2, FilesAssumption DEF StreamOk, Raw
<1>3. CASE file[s] # Closed /\ plain[s] # Closed
  <2>1. EntryOf(s)
    BY <1>0, <1>3 DEF StreamOk
  <2>2. PICK p \in 0..(file[s].len - HeaderSize) :
          plain[s] = [of |-> file[s], len |-> file[s].len - HeaderSize, pos |-> p]
    BY <2>1 DEF EntryOf
  <2>3. Seen(s) = Clear(file[s]) /\ OnGetPosition(s) = p
    <3>1. OnGetPosition(s) = p /\ OnGetStreamSize(s) = file[s].len - HeaderSize
      BY <1>3, <2>2 DEF OnGetPosition, OnGetStreamSize
    <3>2. (plain[s] # Closed) = TRUE
      BY <1>3
    <3> QED
      BY <3>1, <3>2, <1>3, Zenon DEF Seen, Clear
  <2> QED
    BY <2>1, <2>3, FilesAssumption DEF EntryOf, Clear
<1> QED
  BY <1>1, <1>2, <1>3

\* The streams that a step leaves alone stay as they are.
LEMMA OthersStay ==
  ASSUME FilesInv, NEW s \in Streams,
         NEW f \in Files \cup {Closed}, NEW e, NEW r,
         file' = [file EXCEPT ![s] = f], plain' = [plain EXCEPT ![s] = e],
         rawPos' = [rawPos EXCEPT ![s] = r]
  PROVE  /\ StreamOk(s)' => FilesInv'
         /\ View' = [View EXCEPT ![s] = Seen(s)']
         /\ Pos' = [Pos EXCEPT ![s] = OnGetPosition(s)']
         /\ file'[s] = f /\ plain'[s] = e /\ rawPos'[s] = r
<1>1. file'[s] = f /\ plain'[s] = e /\ rawPos'[s] = r
  BY DEF FilesInv
<1>2. \A t \in Streams \ {s} : file'[t] = file[t] /\ plain'[t] = plain[t] /\ rawPos'[t] = rawPos[t]
  BY DEF FilesInv
<1>3. \A t \in Streams \ {s} : Seen(t)' = Seen(t) /\ OnGetPosition(t)' = OnGetPosition(t)
  BY <1>2 DEF Seen, OnGetPosition, OnGetStreamSize
<1>4. \A t \in Streams \ {s} : StreamOk(t)'
  <2> SUFFICES ASSUME NEW t \in Streams \ {s} PROVE StreamOk(t)'
    OBVIOUS
  <2>1. file'[t] = file[t] /\ plain'[t] = plain[t] /\ rawPos'[t] = rawPos[t] /\ StreamOk(t)
    BY <1>2 DEF FilesInv
  <2>2. EntryOf(t)' = EntryOf(t)
    BY <2>1, Zenon DEF EntryOf
  <2> QED
    BY <2>1, <2>2, Zenon DEF StreamOk
<1>5. /\ file' \in [Streams -> Files \cup {Closed}]
      /\ DOMAIN plain' = Streams /\ plain' = [t \in Streams |-> plain'[t]]
      /\ DOMAIN rawPos' = Streams /\ rawPos' = [t \in Streams |-> rawPos'[t]]
  <2>1. file' \in [Streams -> Files \cup {Closed}]
    BY DEF FilesInv
  <2>2. DOMAIN plain' = Streams /\ plain' = [t \in Streams |-> plain'[t]]
    BY Zenon DEF FilesInv
  <2>3. DOMAIN rawPos' = Streams /\ rawPos' = [t \in Streams |-> rawPos'[t]]
    BY Zenon DEF FilesInv
  <2> QED
    BY <2>1, <2>2, <2>3
<1>6. View' = [View EXCEPT ![s] = Seen(s)'] /\ Pos' = [Pos EXCEPT ![s] = OnGetPosition(s)']
  BY <1>3 DEF View, Pos
<1> QED
  BY <1>1, <1>4, <1>5, <1>6 DEF FilesInv

-----------------------------------------------------------------------------
LEMMA InitStep == FilesInit => FilesInv /\ Plain!Init
<1> SUFFICES ASSUME FilesInit PROVE FilesInv /\ Plain!Init
  OBVIOUS
<1>1. FilesInv
  BY DEF FilesInit, FilesInv, StreamOk
<1>2. \A s \in Streams : Seen(s) = Closed /\ OnGetPosition(s) = 0
  BY <1>1, Showing, Zenon DEF FilesInit
<1> QED
  BY <1>1, <1>2 DEF FilesInit, Plain!Init

\* FileStream_OnOpen opens a plain stream over what the file may show, or closes it.
LEMMA OpenStep ==
  ASSUME FilesInv, NEW s \in Streams, NEW f \in Files, NEW ok \in BOOLEAN,
         NEW readable \in BOOLEAN, NEW mode \in {0, 1}, OnOpen(s, f, ok, mode, readable)
  PROVE  FilesInv' /\ (Plain!Open(s) \/ Plain!Close(s))
<1>1. CASE ~(ok /\ mode = 0)
  <2>1. /\ file' = [file EXCEPT ![s] = Closed] /\ plain' = [plain EXCEPT ![s] = Closed]
        /\ rawPos' = [rawPos EXCEPT ![s] = 0] /\ answer' = Closed
    BY <1>1 DEF OnOpen, FsUnregister
  <2>2. StreamOk(s)'
    <3>1. file'[s] = Closed /\ plain'[s] = Closed /\ rawPos'[s] = 0
      BY <2>1 DEF FilesInv
    <3> QED
      BY <3>1 DEF StreamOk
  <2>3. FilesInv'
    BY <2>1, <2>2, OthersStay
  <2>4. Seen(s)' = Closed /\ OnGetPosition(s)' = 0
    BY <2>1 DEF Seen, OnGetPosition, FilesInv
  <2> QED
    BY <2>1, <2>3, <2>4, OthersStay DEF Plain!Close, View, Pos
<1>2. CASE ok /\ mode = 0
  <2> DEFINE opens == f.len >= HeaderSize /\ f.magic /\ readable /\ TryDecryptAsset(f) = "Ok"
             entry == IF opens THEN [of |-> f, len |-> f.len - HeaderSize, pos |-> 0] ELSE Closed
  <2>1. /\ file' = [file EXCEPT ![s] = f] /\ plain' = [plain EXCEPT ![s] = entry]
        /\ rawPos' = [rawPos EXCEPT ![s] = 0] /\ answer' = Closed
    BY <1>2 DEF OnOpen, FsRegisterIfEncrypted
  <2>2. file'[s] = f /\ plain'[s] = entry /\ rawPos'[s] = 0
    BY <2>1 DEF FilesInv
  <2>3. StreamOk(s)'
    BY <2>2, FilesAssumption DEF StreamOk, EntryOf
  <2>4. FilesInv'
    BY <2>1, <2>3, OthersStay
  <2>5. Seen(s)' \in Shows(f) /\ OnGetPosition(s)' = 0
    <3>1. CASE opens
      <4>1. /\ plain'[s] # Closed /\ (plain'[s] # Closed) = TRUE
            /\ plain'[s].pos = 0 /\ plain'[s].len = f.len - HeaderSize
        BY <3>1, <2>2, FilesAssumption
      <4>2. Seen(s)' = Clear(f) /\ OnGetPosition(s)' = 0
        BY <4>1, <2>2, FilesAssumption, Zenon DEF Seen, OnGetPosition, OnGetStreamSize, Clear
      <4> QED
        BY <3>1, <4>2 DEF Shows
    <3>2. CASE ~opens
      <4>1. Seen(s)' = Raw(f) /\ OnGetPosition(s)' = 0
        BY <3>2, <2>2, FilesAssumption DEF Seen, OnGetPosition, OnGetStreamSize, Raw
      <4> QED
        BY <4>1 DEF Shows
    <3> QED
      BY <3>1, <3>2
  <2> QED
    BY <2>1, <2>4, <2>5, OthersStay DEF Plain!Open, View, Pos
<1> QED
  BY <1>1, <1>2

LEMMA ReadStep ==
  ASSUME FilesInv, NEW s \in Streams, NEW n \in ReadSizes, OnRead(s, n)
  PROVE  FilesInv' /\ Plain!Read(s)
<1>0. StreamOk(s) /\ file[s] \in Files /\ n \in Nat
  BY FilesAssumption DEF FilesInv, OnRead
<1>1. CASE plain[s] # Closed
  <2>1. EntryOf(s) /\ FsTryRead(s, n)
    BY <1>0, <1>1 DEF StreamOk, OnRead
  <2>2. PICK p \in 0..(file[s].len - HeaderSize) :
          plain[s] = [of |-> file[s], len |-> file[s].len - HeaderSize, pos |-> p]
    BY <2>1 DEF EntryOf
  <2> DEFINE len == file[s].len - HeaderSize
             take == Fewer(n, len - p)
             entry == [of |-> file[s], len |-> len, pos |-> p + take]
  <2>3. len \in Nat /\ take \in Nat /\ p + take \in 0..len
    BY <1>0, <2>1, <2>2, FilesAssumption DEF EntryOf, Fewer
  <2>4. /\ file' = [file EXCEPT ![s] = file[s]] /\ rawPos' = [rawPos EXCEPT ![s] = rawPos[s]]
        /\ plain' = [plain EXCEPT ![s] = entry]
        /\ answer' = [of |-> Clear(file[s]), from |-> p, take |-> take, full |-> take = n]
    <3>1. file' = file /\ rawPos' = rawPos
      BY <2>1 DEF FsTryRead
    <3>2. plain' = [plain EXCEPT ![s] = entry]
      <4>1. plain[s].pos = p /\ plain[s].len = len
        BY <2>2
      <4>2. plain' = [plain EXCEPT ![s] = [plain[s] EXCEPT !.pos = p + take]]
        BY <2>1, <4>1, Zenon DEF FsTryRead
      <4>3. [plain[s] EXCEPT !.pos = p + take] = entry
        BY <2>2
      <4> QED
        BY <4>2, <4>3, Zenon
    <3>3. answer' = [of |-> Clear(file[s]), from |-> p, take |-> take, full |-> take = n]
      <4>1. /\ plain[s].of = file[s] /\ plain[s].pos = p /\ plain[s].len = len
        BY <2>2
      <4> QED
        BY <2>1, <4>1, Zenon DEF FsTryRead
    <3>4. file' = [file EXCEPT ![s] = file[s]]
      BY <3>1 DEF FilesInv
    <3>5. rawPos' = [rawPos EXCEPT ![s] = rawPos[s]]
      BY <3>1, Zenon DEF FilesInv
    <3> QED
      BY <3>2, <3>3, <3>4, <3>5
  <2>5. file'[s] = file[s] /\ rawPos'[s] = rawPos[s] /\ plain'[s] = entry
    BY <2>4 DEF FilesInv
  <2>6. StreamOk(s)'
    BY <1>0, <2>1, <2>3, <2>5 DEF StreamOk, EntryOf
  <2>7. FilesInv'
    <3>1. file[s] \in Files \cup {Closed}
      BY <1>0
    <3> HIDE DEF len, take, entry
    <3> QED
      BY <2>4, <2>6, <3>1, OthersStay
  <2>8. Seen(s)' = Seen(s) /\ Seen(s) = Clear(file[s]) /\ Seen(s).len = len
    <3>1. /\ plain[s] # Closed /\ (plain[s] # Closed) = TRUE /\ plain[s].len = len
          /\ plain'[s] # Closed /\ (plain'[s] # Closed) = TRUE /\ plain'[s].len = len
      BY <1>0, <1>1, <2>1, <2>2, <2>3, <2>5, FilesAssumption DEF EntryOf
    <3>2. file[s] # Closed
      BY <1>0, FilesAssumption
    <3>3. Seen(s) = Clear(file[s]) /\ Seen(s)' = Clear(file[s])
      BY <3>1, <3>2, <2>5, Zenon DEF Seen, OnGetStreamSize, Clear
    <3> QED
      BY <3>3 DEF Clear
  <2>9. OnGetPosition(s) = p /\ OnGetPosition(s)' = p + take
    BY <1>1, <2>2, <2>3, <2>5, <1>0, <2>1, FilesAssumption DEF OnGetPosition, EntryOf
  <2>10. View' = View /\ Pos' = [Pos EXCEPT ![s] = @ + take]
    <3>1. View' = [View EXCEPT ![s] = View[s]] /\ Pos' = [Pos EXCEPT ![s] = p + take]
      BY <2>4, <2>8, <2>9, OthersStay DEF View, FilesInv
    <3> QED
      BY <3>1, <2>9 DEF View, Pos
  <2>11. View[s] = Clear(file[s]) /\ Pos[s] = p /\ View[s] # Closed /\ View[s].len = len
    BY <2>8, <2>9, <1>0, FilesAssumption DEF View, Pos
  <2>12. take = Plain!Lesser(n, View[s].len - Pos[s])
    BY <2>11, <2>3 DEF Fewer, Plain!Lesser
  <2> QED
    BY <2>4, <2>7, <2>10, <2>11, <2>12 DEF Plain!Read, View, Pos
<1>2. CASE plain[s] = Closed
  <2> DEFINE take == Fewer(n, file[s].len - rawPos[s])
  <2>1. EngineRead(s, n) /\ rawPos[s] \in 0..file[s].len /\ file[s].len \in Nat
    BY <1>0, <1>2, FilesAssumption DEF StreamOk, OnRead
  <2>2. take \in Nat /\ rawPos[s] + take \in 0..file[s].len
    BY <1>0, <2>1 DEF Fewer
  <2>3. /\ file' = file /\ plain' = plain /\ rawPos' = [rawPos EXCEPT ![s] = rawPos[s] + take]
        /\ answer' = [of |-> Raw(file[s]), from |-> rawPos[s], take |-> take, full |-> take = n]
    BY <2>1, Zenon DEF EngineRead
  <2>4. /\ file' = [file EXCEPT ![s] = file[s]] /\ plain' = [plain EXCEPT ![s] = plain[s]]
    BY <2>3, Zenon DEF FilesInv
  <2>5. file'[s] = file[s] /\ plain'[s] = Closed /\ rawPos'[s] = rawPos[s] + take
    BY <1>2, <2>3 DEF FilesInv
  <2>6. StreamOk(s)'
    BY <1>0, <2>2, <2>5 DEF StreamOk
  <2>7. FilesInv'
    <3>1. file[s] \in Files \cup {Closed}
      BY <1>0
    <3>2. rawPos' = [rawPos EXCEPT ![s] = rawPos[s] + take]
      BY <2>3
    <3> HIDE DEF take
    <3> QED
      BY <2>4, <2>6, <3>1, <3>2, OthersStay
  <2>8. Seen(s)' = Seen(s) /\ Seen(s) = Raw(file[s])
    BY <1>2, <2>5, <1>0, FilesAssumption DEF Seen, OnGetStreamSize, Raw
  <2>9. OnGetPosition(s) = rawPos[s] /\ OnGetPosition(s)' = rawPos[s] + take
    BY <1>2, <2>5 DEF OnGetPosition
  <2>10. View' = View /\ Pos' = [Pos EXCEPT ![s] = @ + take]
    <3>1. View' = [View EXCEPT ![s] = Seen(s)'] /\ Pos' = [Pos EXCEPT ![s] = OnGetPosition(s)']
      <4>1. rawPos' = [rawPos EXCEPT ![s] = rawPos[s] + take] /\ file[s] \in Files \cup {Closed}
        BY <2>3, <1>0
      <4> QED
        BY <2>4, <4>1, OthersStay
    <3> QED
      BY <3>1, <2>8, <2>9 DEF View, Pos
  <2>11. View[s] = Raw(file[s]) /\ Pos[s] = rawPos[s] /\ View[s] # Closed /\ View[s].len = file[s].len
    BY <2>8, <2>9, <1>0, FilesAssumption DEF View, Pos, Raw
  <2>12. take = Plain!Lesser(n, View[s].len - Pos[s])
    BY <2>11, Zenon DEF Fewer, Plain!Lesser
  <2> QED
    BY <2>3, <2>7, <2>10, <2>11, <2>12 DEF Plain!Read, View, Pos
<1> QED
  BY <1>1, <1>2

\* A seek past the end leaves the position, which is a seek to where it was.
LEMMA SeekStep ==
  ASSUME FilesInv, NEW s \in Streams, NEW p \in Nat, OnSetPosition(s, p)
  PROVE  FilesInv' /\ Plain!Seek(s)
<1>0. StreamOk(s) /\ file[s] \in Files /\ file' = file /\ answer' = Closed
  BY DEF FilesInv, OnSetPosition
<1>1. CASE plain[s] # Closed
  <2>1. EntryOf(s)
    BY <1>0, <1>1, FilesAssumption DEF StreamOk
  <2>2. PICK q \in 0..(file[s].len - HeaderSize) :
          plain[s] = [of |-> file[s], len |-> file[s].len - HeaderSize, pos |-> q]
    BY <2>1 DEF EntryOf
  <2> DEFINE len == file[s].len - HeaderSize
             at == IF p > len THEN q ELSE p
             entry == [of |-> file[s], len |-> len, pos |-> at]
  <2>3. len \in Nat /\ at \in 0..len
    BY <1>0, <2>1, <2>2, FilesAssumption DEF EntryOf
  <2>4. /\ rawPos' = rawPos
        /\ plain' = IF p > len THEN plain ELSE [plain EXCEPT ![s] = [plain[s] EXCEPT !.pos = p]]
    <3>1. plain[s].len = len
      BY <2>2
    <3> QED
      BY <1>1, <3>1, Zenon DEF OnSetPosition
  <2>5. plain' = [plain EXCEPT ![s] = entry]
    <3>1. CASE p > len
      <4>1. entry = plain[s] /\ plain' = plain
        BY <3>1, <2>2, <2>4
      <4> QED
        BY <4>1, Zenon DEF FilesInv
    <3>2. CASE ~(p > len)
      <4>1. [plain[s] EXCEPT !.pos = p] = entry
        BY <3>2, <2>2
      <4> QED
        BY <3>2, <2>4, <4>1, Zenon
    <3> QED
      BY <3>1, <3>2
  <2>6. file' = [file EXCEPT ![s] = file[s]] /\ rawPos' = [rawPos EXCEPT ![s] = rawPos[s]]
    BY <1>0, <2>4, Zenon DEF FilesInv
  <2>7. file'[s] = file[s] /\ rawPos'[s] = rawPos[s] /\ plain'[s] = entry
    BY <2>5, <2>6 DEF FilesInv
  <2>8. StreamOk(s)'
    BY <1>0, <2>1, <2>3, <2>7, FilesAssumption DEF StreamOk, EntryOf
  <2>9. FilesInv'
    <3>1. file[s] \in Files \cup {Closed}
      BY <1>0
    <3> HIDE DEF len, at, entry
    <3> QED
      BY <2>5, <2>6, <2>8, <3>1, OthersStay
  <2>10. Seen(s) = Clear(file[s]) /\ Seen(s)' = Clear(file[s])
    <3>1. /\ plain[s] # Closed /\ (plain[s] # Closed) = TRUE /\ plain[s].len = len
          /\ plain'[s] # Closed /\ (plain'[s] # Closed) = TRUE /\ plain'[s].len = len
      BY <1>0, <1>1, <2>1, <2>2, <2>3, <2>7, FilesAssumption DEF EntryOf
    <3>2. file[s] # Closed
      BY <1>0, FilesAssumption
    <3> QED
      BY <3>1, <3>2, <2>7, Zenon DEF Seen, OnGetStreamSize, Clear
  <2>11. OnGetPosition(s)' = at
    BY <2>3, <2>7, <1>0, <2>1, FilesAssumption DEF OnGetPosition, EntryOf
  <2>12. View' = View /\ Pos' = [Pos EXCEPT ![s] = at]
    <3>1. View' = [View EXCEPT ![s] = Seen(s)'] /\ Pos' = [Pos EXCEPT ![s] = OnGetPosition(s)']
      <4>1. file[s] \in Files \cup {Closed}
        BY <1>0
      <4> HIDE DEF len, at, entry
      <4> QED
        BY <2>5, <2>6, <4>1, OthersStay
    <3> QED
      BY <3>1, <2>10, <2>11 DEF View
  <2>13. View[s] # Closed /\ View[s].len = len
    BY <2>10, <1>0, FilesAssumption DEF View, Clear
  <2> QED
    BY <1>0, <2>3, <2>9, <2>12, <2>13 DEF Plain!Seek, View, Pos
<1>2. CASE plain[s] = Closed
  <2> DEFINE at == IF p > file[s].len THEN rawPos[s] ELSE p
  <2>1. rawPos[s] \in 0..file[s].len /\ file[s].len \in Nat /\ at \in 0..file[s].len
    BY <1>0, <1>2, FilesAssumption DEF StreamOk
  <2>2. plain' = plain /\ rawPos' = IF p > file[s].len THEN rawPos ELSE [rawPos EXCEPT ![s] = p]
    BY <1>2, Zenon DEF OnSetPosition
  <2>3. rawPos' = [rawPos EXCEPT ![s] = at]
    BY <2>2, Zenon DEF FilesInv
  <2>4. file' = [file EXCEPT ![s] = file[s]] /\ plain' = [plain EXCEPT ![s] = plain[s]]
    BY <1>0, <2>2, Zenon DEF FilesInv
  <2>5. file'[s] = file[s] /\ plain'[s] = Closed /\ rawPos'[s] = at
    BY <1>0, <1>2, <2>2, <2>3 DEF FilesInv
  <2>6. StreamOk(s)'
    BY <1>0, <2>1, <2>5 DEF StreamOk
  <2>7. FilesInv'
    BY <1>0, <2>3, <2>4, <2>6, OthersStay
  <2>8. Seen(s) = Raw(file[s]) /\ Seen(s)' = Raw(file[s]) /\ OnGetPosition(s)' = at
    BY <1>2, <2>5, <1>0, FilesAssumption DEF Seen, OnGetStreamSize, OnGetPosition, Raw
  <2>9. View' = View /\ Pos' = [Pos EXCEPT ![s] = at]
    <3>1. View' = [View EXCEPT ![s] = Seen(s)'] /\ Pos' = [Pos EXCEPT ![s] = OnGetPosition(s)']
      BY <1>0, <2>3, <2>4, OthersStay
    <3> QED
      BY <3>1, <2>8 DEF View
  <2>10. View[s] # Closed /\ View[s].len = file[s].len
    BY <2>8, <1>0, FilesAssumption DEF View, Raw
  <2> QED
    BY <1>0, <2>1, <2>7, <2>9, <2>10 DEF Plain!Seek, View, Pos
<1> QED
  BY <1>1, <1>2

LEMMA CloseStep ==
  ASSUME FilesInv, NEW s \in Streams, OnDtor(s)
  PROVE  FilesInv' /\ Plain!Close(s)
<1>1. /\ file' = [file EXCEPT ![s] = Closed] /\ plain' = [plain EXCEPT ![s] = Closed]
      /\ rawPos' = [rawPos EXCEPT ![s] = 0] /\ answer' = Closed
  BY DEF OnDtor, FsUnregister
<1>2. StreamOk(s)'
  BY <1>1, OthersStay DEF StreamOk
<1>3. FilesInv'
  BY <1>1, <1>2, OthersStay
<1>4. Seen(s)' = Closed /\ OnGetPosition(s)' = 0
  BY <1>1 DEF Seen, OnGetPosition, FilesInv
<1> QED
  BY <1>1, <1>3, <1>4, OthersStay DEF Plain!Close, View, Pos

LEMMA FilesStep ==
  ASSUME FilesInv, [FilesNext]_fileVars
  PROVE  FilesInv' /\ [Plain!Next]_(Plain!streamVars)
<1>1. CASE UNCHANGED fileVars
  BY <1>1 DEF fileVars, FilesInv, StreamOk, EntryOf, TryDecryptAsset, ParseHeader,
              Plain!streamVars, Seen, OnGetPosition, OnGetStreamSize
<1>2. CASE FilesNext
  <2>1. PICK s \in Streams :
          \/ \E f \in Files, ok, readable \in BOOLEAN, mode \in {0, 1} : OnOpen(s, f, ok, mode, readable)
          \/ \E n \in ReadSizes : OnRead(s, n)
          \/ \E p \in 0..(HeaderSize + 2) : OnSetPosition(s, p)
          \/ OnDtor(s)
    BY <1>2 DEF FilesNext
  <2>2. CASE \E f \in Files, ok, readable \in BOOLEAN, mode \in {0, 1} : OnOpen(s, f, ok, mode, readable)
    BY <2>2, OpenStep DEF Plain!Next
  <2>3. CASE \E n \in ReadSizes : OnRead(s, n)
    BY <2>3, ReadStep DEF Plain!Next
  <2>4. CASE \E p \in 0..(HeaderSize + 2) : OnSetPosition(s, p)
    BY <2>4, SeekStep, FilesAssumption DEF Plain!Next
  <2>5. CASE OnDtor(s)
    BY <2>5, CloseStep DEF Plain!Next
  <2> QED
    BY <2>1, <2>2, <2>3, <2>4, <2>5
<1> QED
  BY <1>1, <1>2

\* What the engine reads through the hooks is one stream over one content from open
\* to close: the hooks and the table of decrypted streams implement PlainStreams.
THEOREM HooksReadAsPlain == FilesSpec => ReadsAsPlain
<1>1. FilesInit => FilesInv /\ Plain!Init
  BY InitStep
<1>2. FilesInv /\ [FilesNext]_fileVars => FilesInv' /\ [Plain!Next]_(Plain!streamVars)
  BY FilesStep
<1> QED
  BY <1>1, <1>2, PTL DEF FilesSpec, ReadsAsPlain, Plain!Spec

-----------------------------------------------------------------------------
(* Handoffs: what is delivered is what its sender was asked for.           *)

\* The layout all three places agree on, version by version.
WellFormed(m) ==
  /\ m.to \in Worlds
  /\ \/ /\ m.kind = "plugin" /\ m.asked \in Errands
        /\ DOMAIN m.body = 0..25 /\ m.body[0] = 2 /\ m.body[12] = m.asked.char
        /\ m.body[22] = m.asked.sector /\ m.body[24] = m.asked.x /\ m.body[25] = m.asked.y
     \/ m.kind = "v1" /\ DOMAIN m.body = 0..23 /\ m.body[0] = 1 /\ m.body[12] = m.asked.char
     \/ m.kind = "text" /\ DOMAIN m.body \in {0..23, 0..25} /\ m.body[0] = 77

\* A server that has got past a step of AttachHooks has what that step gives.
Prepared(w) ==
  /\ stage[w] \in {"registered", "listening", "connected"} /\ setup[w].register => registered[w]
  /\ stage[w] \in {"listening", "connected"} => (hears[w] <=> setup[w].log \/ setup[w].inject)

HandoffInv ==
  /\ setup \in [Worlds -> Setups]
  /\ stage \in [Worlds -> {"boot", "registered", "listening", "connected"}]
  /\ registered \in [Worlds -> BOOLEAN] /\ hears \in [Worlds -> BOOLEAN]
  /\ \A w \in Worlds : Prepared(w)
  /\ \A m \in wire : WellFormed(m)

-----------------------------------------------------------------------------
\* The two ways the plugin lays out a payload.
LEMMA Layout ==
  ASSUME NEW h \in Errands
  PROVE  /\ DOMAIN BuildV2Payload(h) = 0..25 /\ BuildV2Payload(h)[0] = 2
         /\ BuildV2Payload(h)[12] = h.char /\ BuildV2Payload(h)[22] = h.sector
         /\ BuildV2Payload(h)[24] = h.x /\ BuildV2Payload(h)[25] = h.y
BY DEF BuildV2Payload, V2Words

LEMMA EngineLayout ==
  /\ DOMAIN OurPack(SampleEvent) = 0..25 /\ OurPack(SampleEvent)[0] = 2
  /\ OurPack(SampleEvent)[12] = Sample.char /\ OurPack(SampleEvent)[22] = Sample.sector
  /\ OurPack(SampleEvent)[24] = Sample.x /\ OurPack(SampleEvent)[25] = Sample.y
BY DEF OurPack, SampleEvent, Created, V2Words

LEMMA WordsOf ==
  /\ Cardinality(0..23) = V1Words
  /\ Cardinality(0..25) = V2Words
<1>1. \A n \in Nat : Cardinality(0..n) = n + 1
  <2> SUFFICES ASSUME NEW n \in Nat PROVE Cardinality(0..n) = n + 1
    OBVIOUS
  <2>1. 0 \in Int /\ n \in Int
    OBVIOUS
  <2>2. Cardinality(0..n) = IF 0 > n THEN 0 ELSE n - 0 + 1
    BY <2>1, FS_Interval
  <2> QED
    BY <2>2
<1>2. 23 \in Nat /\ 25 \in Nat /\ 23 + 1 = 24 /\ 25 + 1 = 26
  OBVIOUS
<1>3. Cardinality(0..23) = 24 /\ Cardinality(0..25) = 26
  BY <1>1, <1>2, Zenon
<1> QED
  BY <1>3, Zenon DEF V1Words, V2Words

\* What the delivery callback makes of a payload.
LEMMA Decoding ==
  ASSUME NEW m, WellFormed(m)
  PROVE  /\ m.kind \in {"plugin", "v1", "text"}
         /\ DecodeAndLog(Cardinality(DOMAIN m.body), m.body)
              = CASE m.kind = "plugin" -> m.asked
                  [] m.kind = "v1"     -> [Nothing EXCEPT !.char = m.asked.char]
                  [] m.kind = "text"   -> Nothing
<1>1. CASE m.kind = "plugin"
  <2>1. Cardinality(DOMAIN m.body) = V2Words /\ m.body[0] = 2
    BY <1>1, WordsOf DEF WellFormed
  <2>2. /\ m.asked = [char |-> m.asked.char, sector |-> m.asked.sector, x |-> m.asked.x, y |-> m.asked.y]
        /\ m.body[12] = m.asked.char /\ m.body[22] = m.asked.sector
        /\ m.body[24] = m.asked.x /\ m.body[25] = m.asked.y
    BY <1>1, HandoffAssumption, Zenon DEF WellFormed
  <2>3. \h30 \div 4 = 12 /\ \h58 \div 4 = 22 /\ \h60 \div 4 = 24 /\ \h64 \div 4 = 25
    OBVIOUS
  <2>4. DecodeAndLog(V2Words, m.body) = [char |-> m.body[12], sector |-> m.body[22], x |-> m.body[24], y |-> m.body[25]]
    BY <2>1, <2>3 DEF DecodeAndLog, V1Words, V2Words
  <2> QED
    BY <1>1, <2>1, <2>2, <2>4
<1>2. CASE m.kind = "v1"
  <2>1. Cardinality(DOMAIN m.body) = V1Words /\ m.body[0] = 1 /\ m.body[12] = m.asked.char
    BY <1>2, WordsOf DEF WellFormed
  <2>2. \h30 \div 4 = 12
    OBVIOUS
  <2>3. DecodeAndLog(V1Words, m.body) = [Nothing EXCEPT !.char = m.body[12]]
    BY <2>1, <2>2 DEF DecodeAndLog, V1Words, V2Words
  <2> QED
    BY <1>2, <2>1, <2>3
<1>3. CASE m.kind = "text"
  <2>1. Cardinality(DOMAIN m.body) \in {V1Words, V2Words} /\ m.body[0] = 77
    BY <1>3, WordsOf DEF WellFormed
  <2>2. DecodeAndLog(Cardinality(DOMAIN m.body), m.body) = Nothing
    BY <2>1 DEF DecodeAndLog
  <2> QED
    BY <1>3, <2>2
<1> QED
  BY <1>1, <1>2, <1>3 DEF WellFormed

LEMMA Injecting ==
  ASSUME NEW m, WellFormed(m), NEW w \in Worlds, registered[w]
  PROVE  /\ m.kind = "plugin" => InjectFromWire(w, Cardinality(DOMAIN m.body), m.body) = m.asked
         /\ m.kind = "v1" => InjectFromWire(w, Cardinality(DOMAIN m.body), m.body) = Nothing
<1>1. CASE m.kind = "plugin"
  <2>1. Cardinality(DOMAIN m.body) = V2Words
    BY <1>1, WordsOf DEF WellFormed
  <2>2. /\ m.asked = [char |-> m.asked.char, sector |-> m.asked.sector, x |-> m.asked.x, y |-> m.asked.y]
        /\ m.body[12] = m.asked.char /\ m.body[22] = m.asked.sector
        /\ m.body[24] = m.asked.x /\ m.body[25] = m.asked.y
    BY <1>1, HandoffAssumption, Zenon DEF WellFormed
  <2>3. /\ (\h78 - \h48) \div 4 = 12 /\ (\hA0 - \h48) \div 4 = 22
        /\ (\hA8 - \h48) \div 4 = 24 /\ (\hAC - \h48) \div 4 = 25
    OBVIOUS
  <2> DEFINE evt == [i \in DOMAIN Created |-> m.body[i]]
  <2>4. evt[12] = m.body[12] /\ evt[22] = m.body[22] /\ evt[24] = m.body[24] /\ evt[25] = m.body[25]
    BY DEF Created, V2Words
  <2> HIDE DEF evt
  <2>5. EventFields(evt) = [char |-> m.body[12], sector |-> m.body[22], x |-> m.body[24], y |-> m.body[25]]
    BY <2>3, <2>4 DEF EventFields
  <2>6. InjectFromWire(w, V2Words, m.body) = EventFields(evt)
    BY DEF InjectFromWire, evt
  <2> QED
    BY <1>1, <2>1, <2>2, <2>5, <2>6
<1>2. CASE m.kind = "v1"
  <2>1. Cardinality(DOMAIN m.body) = V1Words
    BY <1>2, WordsOf DEF WellFormed
  <2> QED
    BY <1>2, <2>1 DEF InjectFromWire, V1Words, V2Words
<1> QED
  BY <1>1, <1>2

-----------------------------------------------------------------------------
\* A step that prepares a server or sends leaves every message well formed.
LEMMA Sending ==
  ASSUME HandoffInv, NEW to \in Worlds, NEW kind, NEW asked, NEW body,
         WellFormed([to |-> to, kind |-> kind, asked |-> asked, body |-> body]),
         SendTo(to, kind, asked, body)
  PROVE  HandoffInv' /\ arrived' = NoDelivery
<1>1. /\ \A m \in wire' : m \in wire \/ m = [to |-> to, kind |-> kind, asked |-> asked, body |-> body]
      /\ UNCHANGED <<setup, stage, registered, hears>> /\ arrived' = NoDelivery
  BY DEF SendTo
<1> QED
  BY <1>1 DEF HandoffInv, Prepared

LEMMA Preparing ==
  ASSUME HandoffInv, NEW w \in Worlds, RegisterRep(w) \/ SetDeliveryCallback(w) \/ SpawnConnect(w)
  PROVE  HandoffInv' /\ arrived' = NoDelivery
<1>0. setup[w] \in [register : BOOLEAN, log : BOOLEAN, inject : BOOLEAN, target : Worlds \cup {""}]
  BY HandoffAssumption, Zenon DEF HandoffInv
<1>1. CASE RegisterRep(w)
  BY <1>0, <1>1, Zenon DEF RegisterRep, HandoffInv, Prepared
<1>2. CASE SetDeliveryCallback(w)
  BY <1>0, <1>2, Zenon DEF SetDeliveryCallback, HandoffInv, Prepared
<1>3. CASE SpawnConnect(w)
  BY <1>3 DEF SpawnConnect, HandoffInv, Prepared
<1> QED
  BY <1>1, <1>2, <1>3

LEMMA Delivering ==
  ASSUME HandoffInv, NEW m \in wire, Deliver(m)
  PROVE  HandoffInv' /\ HandoffsArriveWhole'
<1>1. /\ WellFormed(m) /\ m.to \in Worlds /\ stage[m.to] = "connected"
      /\ UNCHANGED <<setup, stage, registered, hears>> /\ wire' \subseteq wire
  BY DEF Deliver, HandoffInv, WellFormed
<1>2. HandoffInv'
  BY <1>1 DEF HandoffInv, Prepared
<1>3. /\ setup[m.to].register => registered[m.to]
      /\ setup[m.to].log \/ setup[m.to].inject => hears[m.to]
  BY <1>1 DEF HandoffInv, Prepared
<1>4. /\ arrived'.to = m.to /\ arrived'.kind = m.kind /\ arrived'.asked = m.asked
      /\ arrived'.shown = IF hears[m.to] /\ setup[m.to].log
                          THEN DecodeAndLog(Cardinality(DOMAIN m.body), m.body) ELSE Nothing
      /\ arrived'.done = IF hears[m.to] /\ setup[m.to].inject
                         THEN InjectFromWire(m.to, Cardinality(DOMAIN m.body), m.body) ELSE Nothing
  BY DEF Deliver
<1>5. setup[m.to].log => arrived'.shown = CASE arrived'.kind = "plugin" -> arrived'.asked
                                            [] arrived'.kind = "v1"     -> [Nothing EXCEPT !.char = arrived'.asked.char]
                                            [] arrived'.kind = "text"   -> Nothing
  BY <1>1, <1>3, <1>4, Decoding
<1>6. setup[m.to].inject /\ setup[m.to].register =>
        /\ arrived'.kind = "plugin" => arrived'.done = arrived'.asked
        /\ arrived'.kind = "v1" => arrived'.done = Nothing
  BY <1>1, <1>3, <1>4, Injecting
<1>7. HandoffsArriveWhole'
  BY <1>1, <1>4, <1>5, <1>6 DEF HandoffsArriveWhole
<1> QED
  BY <1>2, <1>7

LEMMA HandoffStep ==
  ASSUME HandoffInv, HandoffsArriveWhole, [HandoffNext]_handoffVars
  PROVE  HandoffInv' /\ HandoffsArriveWhole'
<1>0. arrived' = NoDelivery => HandoffsArriveWhole'
  BY DEF HandoffsArriveWhole
<1>1. ASSUME NEW w \in Worlds, RegisterRep(w) \/ SetDeliveryCallback(w) \/ SpawnConnect(w)
      PROVE  HandoffInv' /\ HandoffsArriveWhole'
  BY <1>0, <1>1, Preparing
<1>2. ASSUME NEW w \in Worlds, NEW to \in Worlds, NEW h \in Errands, ForwardToSector(w, to, h)
      PROVE  HandoffInv' /\ HandoffsArriveWhole'
  <2>1. WellFormed([to |-> to, kind |-> "plugin", asked |-> h, body |-> BuildV2Payload(h)])
    BY Layout DEF WellFormed
  <2>2. SendTo(to, "plugin", h, BuildV2Payload(h))
    BY <1>2 DEF ForwardToSector
  <2> QED
    BY <1>0, <2>1, <2>2, Sending
<1>3. ASSUME NEW w \in Worlds, setup[w].target # ""
      PROVE  setup[w].target \in Worlds
  <2>1. setup[w] \in [register : BOOLEAN, log : BOOLEAN, inject : BOOLEAN, target : Worlds \cup {""}]
    BY HandoffAssumption, Zenon DEF HandoffInv
  <2>2. setup[w].target \in Worlds \cup {""}
    BY <2>1, Zenon
  <2> QED
    BY <1>3, <2>2, Zenon
<1>4. ASSUME NEW w \in Worlds, TriggerSampleForward(w)
      PROVE  HandoffInv' /\ HandoffsArriveWhole'
  <2>1. setup[w].target \in Worlds /\ SendTo(setup[w].target, "plugin", Sample, BuildV2Payload(Sample))
    BY <1>3, <1>4, Zenon DEF TriggerSampleForward
  <2>2. WellFormed([to |-> setup[w].target, kind |-> "plugin", asked |-> Sample, body |-> BuildV2Payload(Sample)])
    BY <2>1, Layout, HandoffAssumption, Zenon DEF WellFormed
  <2> QED
    BY <1>0, <2>1, <2>2, Sending
<1>5. ASSUME NEW w \in Worlds, PostTo(w, TRUE)
      PROVE  HandoffInv' /\ HandoffsArriveWhole'
  <2>1. setup[w].target \in Worlds /\ SendTo(setup[w].target, "plugin", Sample, OurPack(SampleEvent))
    BY <1>3, <1>5, Zenon DEF PostTo
  <2>2. WellFormed([to |-> setup[w].target, kind |-> "plugin", asked |-> Sample, body |-> OurPack(SampleEvent)])
    BY <2>1, EngineLayout, HandoffAssumption, Zenon DEF WellFormed
  <2> QED
    BY <1>0, <2>1, <2>2, Sending
<1>6. ASSUME NEW w \in Worlds, NEW to \in Worlds, NEW words \in {V1Words, V2Words}, SendText(w, to, words)
      PROVE  HandoffInv' /\ HandoffsArriveWhole'
  <2> DEFINE body == [i \in 0..words - 1 |-> TextWord]
  <2>1. DOMAIN body \in {0..23, 0..25} /\ body[0] = 77
    <3>1. words - 1 \in {23, 25}
      BY DEF V1Words, V2Words
    <3>2. DOMAIN body = 0..words - 1 /\ \A i \in 0..words - 1 : body[i] = 77
      BY DEF TextWord
    <3>3. 0 \in 0..23 /\ 0 \in 0..25
      OBVIOUS
    <3> HIDE DEF body
    <3>4. CASE words - 1 = 23
      BY <3>2, <3>3, <3>4
    <3>5. CASE words - 1 = 25
      BY <3>2, <3>3, <3>5
    <3> QED
      BY <3>1, <3>4, <3>5
  <2>2. WellFormed([to |-> to, kind |-> "text", asked |-> Nothing, body |-> body])
    <3> HIDE DEF body
    <3> QED
      BY <2>1 DEF WellFormed
  <2>3. SendTo(to, "text", Nothing, body)
    BY <1>6 DEF SendText
  <2> HIDE DEF body
  <2> QED
    BY <1>0, <2>2, <2>3, Sending
<1>7. ASSUME NEW to \in Worlds, NEW h \in Errands, SendV1(to, h)
      PROVE  HandoffInv' /\ HandoffsArriveWhole'
  <2> DEFINE body == [i \in 0..V1Words - 1 |-> IF i = 0 THEN 1 ELSE IF i = 12 THEN h.char ELSE Filler]
  <2>1. DOMAIN body = 0..23 /\ body[0] = 1 /\ body[12] = h.char
    BY DEF V1Words
  <2>2. WellFormed([to |-> to, kind |-> "v1", asked |-> h, body |-> body])
    <3> HIDE DEF body
    <3> QED
      BY <2>1 DEF WellFormed
  <2>3. SendTo(to, "v1", h, body)
    BY <1>7 DEF SendV1
  <2> HIDE DEF body
  <2> QED
    BY <1>0, <2>2, <2>3, Sending
<1>8. ASSUME NEW m \in wire, Deliver(m)
      PROVE  HandoffInv' /\ HandoffsArriveWhole'
  BY <1>8, Delivering
<1>9. ASSUME UNCHANGED handoffVars
      PROVE  HandoffInv' /\ HandoffsArriveWhole'
  BY <1>9 DEF handoffVars, HandoffInv, Prepared, HandoffsArriveWhole
<1> QED
  BY <1>1, <1>2, <1>4, <1>5, <1>6, <1>7, <1>8, <1>9 DEF HandoffNext

\* HandoffsArriveWhole: a handoff that is delivered is shown and processed by every
\* receiver the server was configured with, with what its sender was asked for,
\* whichever of the three ways it was sent (BuildV2Payload, ourPack, DecodeAndLog,
\* InjectFromWire, and the order at the end of AttachHooks).
THEOREM HandoffsWhole == HandoffSpec => []HandoffsArriveWhole
<1>1. HandoffInit => HandoffInv /\ HandoffsArriveWhole
  BY DEF HandoffInit, HandoffInv, Prepared, HandoffsArriveWhole
<1>2. (HandoffInv /\ HandoffsArriveWhole) /\ [HandoffNext]_handoffVars => (HandoffInv /\ HandoffsArriveWhole)'
  BY HandoffStep
<1> QED
  BY <1>1, <1>2, PTL DEF HandoffSpec

(* Drops: what the hooks answer is what their sections of the file promise. *)

\* What Max of a set of places is.
LEMMA TopOf ==
  ASSUME NEW n \in Nat, NEW t \in SUBSET (1..n), t # {}
  PROVE  Seqs!Max(t) \in t /\ \A y \in t : y <= Seqs!Max(t)
<1>1. \E x \in t : \A y \in t : y <= x
  BY GreatestOf
<1>2. \E x \in t : \A y \in t : x >= y
  BY <1>1
<1>3. \A y \in t : Seqs!Max(t) >= y
  BY <1>2 DEF Seqs!Max
<1>4. Seqs!Max(t) \in t
  BY <1>2 DEF Seqs!Max
<1> QED
  BY <1>3, <1>4

\* The function a sum is computed with.
Sums(f) ==
  CHOOSE g : g = [t \in SUBSET DOMAIN f |->
                    IF t = {} THEN 0 ELSE g[t \ {Seqs!Max(t)}] + f[Seqs!Max(t)]]

\* A fold is its function at all places.
LEMMA SumIs ==
  ASSUME NEW f
  PROVE  Sum(f) = Sums(f)[DOMAIN f]
BY DEF Sum, Sums, Seqs!FoldLeft, Seqs!MapThenFoldSet

\* It adds the numbers up.
LEMMA SumsAdd ==
  ASSUME NEW n \in Nat, NEW f \in [1..n -> Nat]
  PROVE  /\ Sums(f)[1..0] = 0
         /\ \A k \in 1..n : Sums(f)[1..k] \in Nat /\ Sums(f)[1..k] = Sums(f)[1..(k - 1)] + f[k]
<1> DEFINE Top == [t \in SUBSET (1..n) |-> Seqs!Max(t)]
           F == [p \in (1..n) \X Nat |-> p[2] + f[p[1]]]
           Eq(g) == g = [t \in SUBSET DOMAIN f |->
                           IF t = {} THEN 0 ELSE g[t \ {Seqs!Max(t)}] + f[Seqs!Max(t)]]
<1>1. F \in [(1..n) \X Nat -> Nat]
  OBVIOUS
<1>2. \A t \in SUBSET (1..n) : t # {} => Top[t] \in t /\ \A y \in t : y <= Top[t]
  BY TopOf
<1>3. PICK g : Folding(g, n, Nat, 0, F, Top)
  <2> HIDE DEF F, Top
  <2> QED
    BY <1>1, <1>2, Folds
<1>4. ASSUME NEW t \in SUBSET (1..n), t # {}
      PROVE  g[t] = g[t \ {Seqs!Max(t)}] + f[Seqs!Max(t)]
  <2>1. Top[t] \in 1..n /\ Top[t] = Seqs!Max(t) /\ t \ {Seqs!Max(t)} \in SUBSET (1..n)
    BY <1>2, <1>4
  <2>2. g[t] = F[<<Top[t], g[t \ {Top[t]}]>>] /\ g[t \ {Top[t]}] \in Nat
    BY <1>3, <1>4, <2>1 DEF Folding
  <2> QED
    BY <2>1, <2>2
<1>5. Eq(g)
  <2>1. DOMAIN f = 1..n
    OBVIOUS
  <2>2. g = [t \in SUBSET (1..n) |-> g[t]]
    BY <1>3 DEF Folding
  <2>3. g[{}] = 0
    BY <1>3 DEF Folding
  <2> QED
    BY <1>4, <2>1, <2>2, <2>3
<1>6. Eq(Sums(f))
  <2> HIDE DEF Top, F
  <2> QED
    BY <1>5 DEF Sums
<1>7. PICK h : h = Sums(f)
  OBVIOUS
<1>8. h = [t \in SUBSET (1..n) |-> IF t = {} THEN 0 ELSE h[t \ {Seqs!Max(t)}] + f[Seqs!Max(t)]]
  BY <1>6, <1>7
<1>9. h[1..0] = 0
  <2>1. 1..0 = {} /\ {} \in SUBSET (1..n)
    OBVIOUS
  <2> QED
    BY <1>8, <2>1
<1>10. ASSUME NEW k \in 1..n PROVE h[1..k] = h[1..(k - 1)] + f[k]
  <2>1. 1..k \in SUBSET (1..n) /\ k \in 1..k /\ 1..k # {}
    OBVIOUS
  <2>2. Seqs!Max(1..k) = k
    <3>1. Seqs!Max(1..k) \in 1..k /\ k <= Seqs!Max(1..k)
      BY <2>1, TopOf
    <3> QED
      BY <3>1
  <2>3. (1..k) \ {k} = 1..(k - 1)
    OBVIOUS
  <2> QED
    BY <1>8, <2>1, <2>2, <2>3
<1>11. \A k \in 0..n : h[1..k] \in Nat
  <2> DEFINE S == {k \in 0..n : h[1..k] \in Nat}
  <2>1. 0 \in S
    BY <1>9
  <2>2. \A k \in 1..n : k - 1 \in S => k \in S
    BY <1>10
  <2>3. S \in SUBSET (0..n)
    OBVIOUS
  <2>4. S = 0..n
    <3> HIDE DEF S
    <3> QED
      BY <2>1, <2>2, <2>3, Climb
  <2> QED
    BY <2>4
<1> QED
  BY <1>7, <1>9, <1>10, <1>11

\* A sum is the one up to the last number, and the last number.
LEMMA SumStep ==
  ASSUME NEW n \in Nat, NEW f \in [1..n -> Nat]
  PROVE  /\ Sum(f) \in Nat
         /\ n = 0 => Sum(f) = 0
         /\ n > 0 => Sum(f) = Sum([i \in 1..(n - 1) |-> f[i]]) + f[n]
<1>1. DOMAIN f = 1..n /\ Sum(f) = Sums(f)[1..n]
  BY SumIs
<1>2. Sum(f) \in Nat /\ (n = 0 => Sum(f) = 0)
  BY <1>1, SumsAdd
<1>4. Sums(f)[1..0] = 0 /\ \A k \in 1..n : Sums(f)[1..k] = Sums(f)[1..(k - 1)] + f[k]
  BY SumsAdd
<1>3. ASSUME n > 0 PROVE Sum(f) = Sum([i \in 1..(n - 1) |-> f[i]]) + f[n]
  <2> DEFINE e == [i \in 1..(n - 1) |-> f[i]]
  <2>1. n - 1 \in Nat /\ e \in [1..(n - 1) -> Nat] /\ DOMAIN e = 1..(n - 1)
    BY <1>3
  <2>2. Sum(e) = Sums(e)[1..(n - 1)]
    BY <2>1, SumIs
  <2>3. \A k \in 1..n : e[k] = f[k] \/ k = n
    OBVIOUS
  <2> DEFINE S == {k \in 0..(n - 1) : Sums(e)[1..k] = Sums(f)[1..k]}
  <2>9. /\ Sums(e)[1..0] = 0
        /\ \A k \in 1..(n - 1) : Sums(e)[1..k] = Sums(e)[1..(k - 1)] + e[k]
    <3> HIDE DEF e
    <3> QED
      BY <2>1, SumsAdd
  <2>4. 0 \in S
    <3> HIDE DEF e
    <3> QED
      BY <1>3, <1>4, <2>9
  <2>5. ASSUME NEW k \in 1..(n - 1), k - 1 \in S PROVE k \in S
    <3>1. Sums(e)[1..k] = Sums(e)[1..(k - 1)] + e[k]
      BY <2>9
    <3>2. k \in 1..n /\ Sums(f)[1..k] = Sums(f)[1..(k - 1)] + f[k]
      BY <1>4
    <3> QED
      BY <3>1, <3>2, <2>5
  <2>6. S = 0..(n - 1)
    <3>1. S \in SUBSET (0..(n - 1))
      OBVIOUS
    <3> HIDE DEF S
    <3> QED
      BY <2>1, <2>4, <2>5, <3>1, Climb
  <2>7. Sums(e)[1..(n - 1)] = Sums(f)[1..(n - 1)]
    BY <2>1, <2>6
  <2>8. Sums(f)[1..n] = Sums(f)[1..(n - 1)] + f[n]
    BY <1>3, <1>4
  <2> QED
    BY <1>1, <2>2, <2>7, <2>8
<1> QED
  BY <1>2, <1>3

\* The sum of the first k of some numbers.
Upto(w, k) == Sum([j \in 1..k |-> w[j]])

\* They are numbers, and grow by one number at a time.
LEMMA Accrues ==
  ASSUME NEW n \in Nat, NEW w \in [1..n -> Nat]
  PROVE  /\ Upto(w, 0) = 0
         /\ \A k \in 0..n : Upto(w, k) \in Nat
         /\ \A k \in 1..n : Upto(w, k) = Upto(w, k - 1) + w[k]
<1>1. ASSUME NEW k \in 0..n
      PROVE  /\ Upto(w, k) \in Nat
             /\ k = 0 => Upto(w, k) = 0
             /\ k > 0 => Upto(w, k) = Upto(w, k - 1) + w[k]
  <2>1. PICK f : f = [j \in 1..k |-> w[j]]
    OBVIOUS
  <2>2. k \in Nat /\ f \in [1..k -> Nat]
    BY <2>1
  <2>3. [i \in 1..(k - 1) |-> f[i]] = [j \in 1..(k - 1) |-> w[j]]
    BY <2>1
  <2>4. Upto(w, k) = Sum(f) /\ Upto(w, k - 1) = Sum([i \in 1..(k - 1) |-> f[i]])
    BY <2>1, <2>3 DEF Upto
  <2>5. /\ Sum(f) \in Nat
        /\ k = 0 => Sum(f) = 0
        /\ k > 0 => Sum(f) = Sum([i \in 1..(k - 1) |-> f[i]]) + f[k]
    BY <2>2, SumStep
  <2>6. k > 0 => f[k] = w[k]
    BY <2>1
  <2> QED
    BY <2>4, <2>5, <2>6
<1> QED
  BY <1>1

\* Sums of parts of the numbers do not pass one another.
LEMMA Grows ==
  ASSUME NEW n \in Nat, NEW w \in [1..n -> Nat], NEW k \in 0..n, NEW i \in 0..k
  PROVE  Upto(w, i) <= Upto(w, k)
<1> DEFINE S == {m \in 0..n : i <= m => Upto(w, i) <= Upto(w, m)}
<1>1. /\ \A m \in 0..n : Upto(w, m) \in Nat
      /\ \A m \in 1..n : Upto(w, m) = Upto(w, m - 1) + w[m]
  BY Accrues
<1>2. i \in 0..n
  OBVIOUS
<1>3. 0 \in S
  BY <1>1, <1>2
<1>4. ASSUME NEW m \in 1..n, m - 1 \in S PROVE m \in S
  <2>1. Upto(w, m - 1) \in Nat /\ w[m] \in Nat /\ Upto(w, m) = Upto(w, m - 1) + w[m]
    BY <1>1
  <2>2. CASE i <= m - 1
    <3>1. Upto(w, i) <= Upto(w, m - 1) /\ Upto(w, i) \in Nat
      BY <1>1, <1>2, <1>4, <2>2
    <3> QED
      BY <2>1, <3>1
  <2>3. CASE i > m - 1
    <3>1. i = m \/ ~(i <= m)
      BY <1>2, <2>3
    <3> QED
      BY <1>1, <3>1
  <2> QED
    BY <1>2, <2>2, <2>3
<1>5. S = 0..n
  <2>1. S \in SUBSET (0..n)
    OBVIOUS
  <2> HIDE DEF S
  <2> QED
    BY <1>3, <1>4, <2>1, Climb
<1> QED
  BY <1>5

\* A ticket falls to one of the parts.
Tickets(pick, up, id) == {t \in 1..up : pick[t] = id}

\* Those of the part of place k pick the id at k.
Falls(pick, ids, w, n) ==
  \A k \in 1..n : \A t \in (Upto(w, k - 1) + 1)..Upto(w, k) : pick[t] = ids[k]

\* What the entries with one id weigh, each by itself.
Portion(v, ids, w, n, id) ==
  v \in [1..n -> Nat] /\ \A j \in 1..n : v[j] = IF ids[j] = id THEN w[j] ELSE 0

\* Tickets are drawn from 1 to the sum of the weights w, and one that falls into the
\* part of place k picks the id at k: an id is picked by as many as it weighs.
LEMMA Shares ==
  ASSUME NEW n \in Nat, NEW w \in [1..n -> Nat], NEW ids, NEW pick, NEW id,
         Falls(pick, ids, w, n), NEW v, Portion(v, ids, w, n, id)
  PROVE  Cardinality(Tickets(pick, Upto(w, n), id)) = Upto(v, n)
<1>1. \A j \in 1..n : v[j] = IF ids[j] = id THEN w[j] ELSE 0
  BY DEF Portion
<1>2. v \in [1..n -> Nat]
  BY DEF Portion
<1>3. /\ Upto(w, 0) = 0
      /\ \A k \in 0..n : Upto(w, k) \in Nat
      /\ \A k \in 1..n : Upto(w, k) = Upto(w, k - 1) + w[k]
  BY Accrues
<1>4. /\ Upto(v, 0) = 0
      /\ \A k \in 0..n : Upto(v, k) \in Nat
      /\ \A k \in 1..n : Upto(v, k) = Upto(v, k - 1) + v[k]
  BY <1>2, Accrues
<1> DEFINE T(k) == Tickets(pick, Upto(w, k), id)
           S == {k \in 0..n : IsFiniteSet(T(k)) /\ Cardinality(T(k)) = Upto(v, k)}
<1>5. 0 \in S
  <2>1. T(0) = {}
    BY <1>3 DEF Tickets
  <2>2. IsFiniteSet(T(0)) /\ Cardinality(T(0)) = 0
    <3> HIDE DEF T
    <3> QED
      BY <2>1, FS_EmptySet
  <2> HIDE DEF T
  <2> QED
    BY <1>4, <2>2
<1>6. ASSUME NEW k \in 1..n, k - 1 \in S PROVE k \in S
  <2>1. /\ Upto(w, k) \in Nat /\ Upto(w, k - 1) \in Nat /\ w[k] \in Nat
        /\ Upto(w, k) = Upto(w, k - 1) + w[k]
    BY <1>3
  <2>2. PICK a \in Nat, b \in Nat : a = Upto(w, k - 1) /\ b = Upto(w, k) /\ b = a + w[k]
    BY <2>1
  <2> DEFINE new == (a + 1)..b
  <2>3. IsFiniteSet(new) /\ Cardinality(new) = w[k]
    <3>1. /\ IsFiniteSet((a + 1)..b)
          /\ Cardinality((a + 1)..b) = IF a + 1 > b THEN 0 ELSE b - (a + 1) + 1
      BY FS_Interval
    <3> QED
      BY <2>1, <2>2, <3>1, SMTT(30)
  <2>4. \A t \in new : pick[t] = ids[k]
    BY <2>2 DEF Falls
  <2>5. IsFiniteSet(T(k - 1)) /\ Cardinality(T(k - 1)) = Upto(v, k - 1)
    BY <1>6
  <2>6. CASE ids[k] = id
    <3>1. T(k) = T(k - 1) \cup new /\ T(k - 1) \cap new = {}
      <4>1. 1..b = (1..a) \cup new /\ (1..a) \cap new = {}
        BY <2>1, <2>2, SMTT(30)
      <4> HIDE DEF new
      <4> QED
        BY <2>2, <2>4, <2>6, <4>1 DEF Tickets
    <3>2. Cardinality(T(k - 1) \cap new) = 0
      BY <3>1, FS_EmptySet
    <3>3. /\ IsFiniteSet(T(k - 1) \cup new)
          /\ Cardinality(T(k - 1) \cup new)
               = Cardinality(T(k - 1)) + Cardinality(new) - Cardinality(T(k - 1) \cap new)
      <4> HIDE DEF new, T
      <4> QED
        BY <2>3, <2>5, FS_Union
    <3>4. v[k] = w[k] /\ Upto(v, k) = Upto(v, k - 1) + v[k] /\ Upto(v, k - 1) \in Nat
      BY <1>1, <1>4, <2>6
    <3>5. IsFiniteSet(T(k))
      <4> HIDE DEF T, new
      <4> QED
        BY <3>1, <3>3
    <3>6. Cardinality(T(k)) = Upto(v, k)
      <4> HIDE DEF T, new
      <4>1. Cardinality(T(k)) = Upto(v, k - 1) + w[k] - 0
        BY <2>3, <2>5, <3>1, <3>2, <3>3
      <4> QED
        BY <2>1, <3>4, <4>1
    <3> HIDE DEF T
    <3> QED
      BY <3>5, <3>6
  <2>7. CASE ids[k] # id
    <3>1. T(k) = T(k - 1)
      <4>1. 1..b = (1..a) \cup new
        BY <2>1, <2>2, SMTT(30)
      <4> HIDE DEF new
      <4> QED
        BY <2>2, <2>4, <2>7, <4>1 DEF Tickets
    <3>2. v[k] = 0 /\ Upto(v, k) = Upto(v, k - 1) + v[k] /\ Upto(v, k - 1) \in Nat
      BY <1>1, <1>4, <2>7, SMTT(30)
    <3> HIDE DEF T, new
    <3> QED
      BY <2>5, <3>1, <3>2
  <2> QED
    BY <2>6, <2>7
<1>7. S = 0..n
  <2>1. S \in SUBSET (0..n)
    OBVIOUS
  <2> HIDE DEF S
  <2> QED
    BY <1>5, <1>6, <2>1, Climb
<1> HIDE DEF T
<1>8. Cardinality(T(n)) = Upto(v, n)
  BY <1>7
<1> QED
  BY <1>1, <1>8 DEF T

GemItem == [id : Attribute, weight : Attribute]

\* The weights of right items.
LEMMA Weights ==
  ASSUME NEW s \in Seq(GemItem), \A i \in DOMAIN s : Positive(s[i].weight)
  PROVE  /\ Len(s) \in Nat /\ DOMAIN s = 1..Len(s)
         /\ [j \in 1..Len(s) |-> s[j].weight] \in [1..Len(s) -> Nat]
         /\ \A i \in 1..Len(s) : s[i].weight > 0
<1>1. Len(s) \in Nat /\ DOMAIN s = 1..Len(s)
  OBVIOUS
<1>2. ASSUME NEW i \in 1..Len(s) PROVE s[i].weight \in Nat /\ s[i].weight > 0
  <2>1. s[i] \in GemItem
    BY ElementOfSeq
  <2>2. s[i].weight \in Attribute /\ Positive(s[i].weight)
    BY <1>1, <2>1 DEF GemItem
  <2> QED
    BY <2>2 DEF Positive, Attribute
<1> QED
  BY <1>1, <1>2

\* The items as the gem hook keeps them.
LEMMA Accumulated ==
  ASSUME NEW section \in Section(GemItem),
         \A i \in DOMAIN section.items : Positive(section.items[i].weight),
         NEW w, w = [j \in 1..Len(section.items) |-> section.items[j].weight]
  PROVE  /\ Len(Cumulated(section).items) = Len(section.items)
         /\ \A i \in 1..Len(section.items) :
              Cumulated(section).items[i] = [id |-> section.items[i].id, upTo |-> Upto(w, i)]
<1>1. PICK s : s = section.items
  OBVIOUS
<1>2. DOMAIN s = 1..Len(s) /\ Len(s) \in Nat
  BY <1>1 DEF Section
<1>3. \A i \in 1..Len(s) : Sum([j \in 1..i |-> s[j].weight]) = Upto(w, i)
  <2> TAKE i \in 1..Len(s)
  <2>1. [j \in 1..i |-> s[j].weight] = [j \in 1..i |-> w[j]]
    BY <1>1
  <2> QED
    BY <2>1 DEF Upto
<1>4. Cumulated(section).items
        = [i \in 1..Len(s) |-> [id |-> s[i].id, upTo |-> Sum([j \in 1..i |-> s[j].weight])]]
  BY <1>1, <1>2 DEF Cumulated, Section
<1>5. PICK c : c = [i \in 1..Len(s) |-> [id |-> s[i].id, upTo |-> Upto(w, i)]]
  OBVIOUS
<1>6. Cumulated(section).items = c
  BY <1>3, <1>4, <1>5
<1>7. Len(c) = Len(s)
  BY <1>2, <1>5
<1> QED
  BY <1>1, <1>5, <1>6, <1>7

\* A ticket that falls into the part of an item selects it.
LEMMA Selects ==
  ASSUME NEW section \in Section(GemItem),
         \A i \in DOMAIN section.items : Positive(section.items[i].weight),
         NEW w, w = [j \in 1..Len(section.items) |-> section.items[j].weight],
         conf["gem"] = Cumulated(section), NEW k \in 1..Len(section.items),
         NEW t \in (Upto(w, k - 1) + 1)..Upto(w, k)
  PROVE  SelectGemItemId(t) = section.items[k].id
<1>1. PICK c : c = conf["gem"].items
  OBVIOUS
<1>2. PICK n \in Nat : n = Len(section.items)
  BY DEF Section
<1>3. Len(c) = n /\ \A i \in 1..n : c[i].id = section.items[i].id /\ c[i].upTo = Upto(w, i)
  <2>1. \A i \in 1..n : c[i] = [id |-> section.items[i].id, upTo |-> Upto(w, i)]
    BY <1>1, <1>2, Accumulated
  <2>2. Len(c) = n
    BY <1>1, <1>2, Accumulated
  <2>3. ASSUME NEW i \in 1..n PROVE c[i].id = section.items[i].id /\ c[i].upTo = Upto(w, i)
    <3>1. c[i] = [id |-> section.items[i].id, upTo |-> Upto(w, i)]
      BY <2>1
    <3> QED
      BY <3>1
  <2> QED
    BY <2>2, <2>3
<1>10. k \in 1..n
  BY <1>2
<1>4. w \in [1..n -> Nat]
  BY <1>2, Weights DEF Section
<1>5. \A i \in 0..n : Upto(w, i) \in Nat
  BY <1>4, Accrues
<1>6. \A i \in 1..(k - 1) : Upto(w, i) <= Upto(w, k - 1)
  <2>1. k - 1 \in 0..n /\ \A i \in 1..(k - 1) : i \in 0..(k - 1)
    BY <1>2
  <2> QED
    BY <1>4, <2>1, Grows
<1> DEFINE I == {i \in 1..Len(c) : c[i].upTo >= t}
<1>7. k \in I /\ \A i \in I : k <= i
  <2>1. Upto(w, k) \in Nat /\ Upto(w, k - 1) \in Nat /\ t \in Nat /\ t <= Upto(w, k) /\ t > Upto(w, k - 1)
    BY <1>2, <1>5, SMTT(30)
  <2>2. c[k].upTo = Upto(w, k) /\ k \in 1..Len(c)
    BY <1>3, <1>10
  <2>3. ASSUME NEW i \in I, i < k PROVE FALSE
    <3>1. i \in 1..(k - 1) /\ i \in 0..n /\ c[i].upTo = Upto(w, i)
      <4>1. i \in 1..n
        BY <1>3, <2>3
      <4>2. i \in 1..(k - 1) /\ i \in 0..n
        <5> HIDE DEF I
        <5> QED
          BY <1>10, <2>3, <4>1
      <4> QED
        BY <1>3, <4>1, <4>2
    <3>2. Upto(w, i) <= Upto(w, k - 1) /\ Upto(w, i) \in Nat /\ Upto(w, i) >= t
      BY <1>5, <1>6, <2>3, <3>1
    <3> QED
      BY <2>1, <3>2
  <2>4. \A i \in I : i \in Nat
    BY <1>3
  <2> QED
    BY <1>2, <2>1, <2>2, <2>3, <2>4
<1>8. Seqs!Min(I) = k
  <2>1. \A i \in I : i \in Nat
    BY <1>3
  <2>2. k \in I /\ \A i \in I : k =< i
    BY <1>7
  <2>3. Seqs!Min(I) \in I /\ \A i \in I : Seqs!Min(I) =< i
    <3> HIDE DEF I
    <3> QED
      BY <2>2, Zenon DEF Seqs!Min
  <2> HIDE DEF I
  <2>4. k <= Seqs!Min(I) /\ Seqs!Min(I) <= k /\ k \in Nat /\ Seqs!Min(I) \in Nat
    BY <2>1, <2>2, <2>3
  <2> QED
    BY <2>4
<1> QED
  <2>1. SelectGemItemId(t) = c[k].id
    <3> DEFINE J == {i \in 1..Len(conf["gem"].items) : conf["gem"].items[i].upTo >= t}
    <3>1. J = I
      BY <1>1
    <3>2. J # {} /\ Seqs!Min(J) = k
      <4> HIDE DEF J, I
      <4> QED
        BY <1>7, <1>8, <3>1
    <3>3. SelectGemItemId(t)
            = IF (IF J # {} THEN Seqs!Min(J) ELSE 0) = 0 THEN Seqs!Last(conf["gem"].items).id
              ELSE conf["gem"].items[IF J # {} THEN Seqs!Min(J) ELSE 0].id
      BY Zenon DEF SelectGemItemId, Seqs!SelectInSeq
    <3>4. (k = 0) = FALSE
      BY <1>10
    <3> HIDE DEF J
    <3> QED
      BY <1>1, <3>2, <3>3, <3>4
  <2> QED
    BY <1>3, <1>10, <2>1

\* A section that is not kept leaves the hook without items.
LEMMA NotKept ==
  ASSUME NEW section, NEW ok, ~(section.enabled /\ ok)
  PROVE  Kept(section, ok) = Off
BY DEF Kept

\* There is nothing to accumulate.
LEMMA OffStays == Cumulated(Off).items = <<>> /\ Cumulated(Off).head = Unset /\ ~Cumulated(Off).enabled
<1>1. PICK c : c = Cumulated(Off)
  OBVIOUS
<1>2. c.items = [i \in DOMAIN <<>> |-> [id |-> Off.items[i].id, upTo |-> Sum([j \in 1..i |-> Off.items[j].weight])]]
  BY <1>1 DEF Cumulated, Off
<1>3. DOMAIN <<>> = {} /\ DOMAIN c.items = {}
  BY <1>2
<1>4. c.items = <<>>
  BY <1>2, <1>3
<1> QED
  BY <1>1, <1>4 DEF Cumulated, Off

\* A positive number, as the hooks test an attribute for it.
LEMMA Counting == ASSUME NEW a \in Attribute PROVE Positive(a) <=> a \in Counts
BY DropAssumption DEF Attribute, Positive, Counts

\* The words that stand for no number are none.
LEMMA Wordy ==
  /\ Unset \notin Nat /\ Malformed \notin Nat /\ Vanilla \notin Nat
  /\ \A t \in 0..100 : t \in Nat /\ t # Malformed /\ t # Vanilla
<1>1. Unset \notin Nat /\ Malformed \notin Nat /\ Vanilla \notin Nat
  BY DropAssumption
<1>2. \A t \in 0..100 : t \in Nat
  OBVIOUS
<1> QED
  BY <1>1, <1>2

\* Two ways to say that no key is there twice.
LEMMA Apart ==
  ASSUME NEW n \in Nat, NEW key
  PROVE  (\A i, j \in 1..n : key[i] = key[j] => i = j) <=> (\A i, j \in 1..n : i < j => key[i] # key[j])
<1>1. ASSUME \A i, j \in 1..n : i < j => key[i] # key[j], NEW i \in 1..n, NEW j \in 1..n, key[i] = key[j]
      PROVE  i = j
  <2>1. ~(i < j) /\ ~(j < i)
    BY <1>1
  <2> QED
    BY <2>1
<1>2. ASSUME \A i, j \in 1..n : key[i] = key[j] => i = j, NEW i \in 1..n, NEW j \in 1..n, i < j
      PROVE  key[i] # key[j]
  <2>1. i # j
    BY <1>2
  <2> QED
    BY <1>2, <2>1
<1> QED
  BY <1>1, <1>2

\* What the gem hook is configured with.
LEMMA GemKept ==
  ASSUME NEW s \in Section(GemItem), NEW c, c = ConfigureGemDrops(s)
  PROVE  \/ c.items = <<>> /\ c.head = Unset /\ ~c.enabled /\ ~RightGem(s)
         \/ /\ RightGem(s) /\ c = Cumulated(s)
            /\ \A i \in DOMAIN s.items : Positive(s.items[i].id) /\ Positive(s.items[i].weight)
            /\ c.head = s.head /\ (s.items = <<>> <=> c.items = <<>>)
<1> DEFINE ok == /\ s.head = Unset \/ (s.head # Malformed /\ s.head \in 0..100)
                 /\ \A i \in DOMAIN s.items : /\ Positive(s.items[i].id)
                                              /\ Positive(s.items[i].weight)
                 /\ s.head # Unset \/ s.items # <<>>
<1>1. c = Cumulated(Kept(s, ok))
  BY DEF ConfigureGemDrops
<1>4. RightGem(s) <=> s.enabled /\ ok
  <2>1. \A i \in DOMAIN s.items : s.items[i].id \in Attribute /\ s.items[i].weight \in Attribute
    <3> TAKE i \in DOMAIN s.items
    <3>1. s.items[i] \in GemItem
      BY ElementOfSeq DEF Section
    <3> QED
      BY <3>1 DEF GemItem
  <2>2. s.head \in Attribute
    BY DEF Section
  <2>3. s.head \in (0..100) \cup {Unset} <=> s.head = Unset \/ (s.head # Malformed /\ s.head \in 0..100)
    BY Wordy, Zenon
  <2> QED
    <3>2. (\A i \in DOMAIN s.items : Positive(s.items[i].id) /\ Positive(s.items[i].weight))
            <=> (\A i \in DOMAIN s.items : s.items[i].id \in Counts /\ s.items[i].weight \in Counts)
      <4>1. ASSUME NEW i \in DOMAIN s.items
            PROVE  Positive(s.items[i].id) /\ Positive(s.items[i].weight)
                     <=> s.items[i].id \in Counts /\ s.items[i].weight \in Counts
        <5>1. Positive(s.items[i].id) <=> s.items[i].id \in Counts
          BY <2>1, Counting
        <5>2. Positive(s.items[i].weight) <=> s.items[i].weight \in Counts
          BY <2>1, Counting
        <5> QED
          BY <5>1, <5>2
      <4> QED
        BY <4>1
    <3>1. ok <=> /\ s.head = Unset \/ (s.head # Malformed /\ s.head \in 0..100)
                 /\ \A i \in DOMAIN s.items : s.items[i].id \in Counts /\ s.items[i].weight \in Counts
                 /\ s.head = Unset => s.items # <<>>
      BY <3>2
    <3> HIDE DEF ok
    <3> QED
      BY <2>3, <3>1 DEF RightGem
<1>2. CASE ~(s.enabled /\ ok)
  <2> HIDE DEF ok
  <2>1. Kept(s, ok) = Off
    BY <1>2, NotKept
  <2> QED
    BY <1>1, <1>2, <1>4, <2>1, OffStays
<1>3. CASE s.enabled /\ ok
  <2>1. c = Cumulated(s)
    BY <1>1, <1>3 DEF Kept
  <2>2. c.head = s.head
    BY <2>1 DEF Cumulated, Section
  <2>3. s.items = <<>> <=> c.items = <<>>
    <3>1. c.items = [i \in DOMAIN s.items |-> [id |-> s.items[i].id, upTo |-> Sum([j \in 1..i |-> s.items[j].weight])]]
      BY <2>1 DEF Cumulated, Section
    <3>2. DOMAIN c.items = DOMAIN s.items
      BY <3>1
    <3>3. s.items \in Seq(GemItem)
      BY DEF Section
    <3>4. ASSUME s.items = <<>> PROVE c.items = <<>>
      <4>1. DOMAIN c.items = {}
        BY <3>2, <3>4
      <4> QED
        BY <3>1, <4>1
    <3>5. ASSUME c.items = <<>> PROVE s.items = <<>>
      <4>1. DOMAIN s.items = {}
        BY <3>2, <3>5
      <4>2. Len(s.items) = 0
        <5>1. PICK n \in Nat : DOMAIN s.items = 1..n /\ Len(s.items) = n
          BY <3>3
        <5>2. n # 0 => 1 \in 1..n
          OBVIOUS
        <5> QED
          BY <4>1, <5>1, <5>2
      <4> QED
        BY <3>3, <4>2, EmptySeq
    <3> QED
      BY <3>4, <3>5
  <2>4. \A i \in DOMAIN s.items : Positive(s.items[i].id) /\ Positive(s.items[i].weight)
    BY <1>3
  <2> HIDE DEF ok
  <2> QED
    BY <1>3, <1>4, <2>1, <2>2, <2>3, <2>4
<1> QED
  BY <1>2, <1>3

\* The tickets, as the drops of the run are checked for: any weights, any number of
\* items, with an id as often as one likes.
LEMMA Fair ==
  ASSUME xml.gem \in Section(GemItem), conf["gem"] = ConfigureGemDrops(xml.gem),
         diverted \subseteq Wanted
  PROVE  FairTickets
<1> SUFFICES ASSUME "gemItem" \in diverted, NEW i \in DOMAIN xml.gem.items, NEW id, id = xml.gem.items[i].id
             PROVE  Cardinality({t \in 1..TotalWeight : SelectGemItemId(t) = id})
                      = Sum([j \in DOMAIN xml.gem.items |->
                               IF xml.gem.items[j].id = id THEN xml.gem.items[j].weight ELSE 0])
  BY DEF FairTickets
<1>1. conf["gem"].items # <<>>
  BY DEF Wanted, DropKinds
<1>2. PICK s : s = xml.gem
  OBVIOUS
<1>3. /\ s \in Section(GemItem) /\ conf["gem"] = Cumulated(s)
      /\ \A j \in DOMAIN s.items : Positive(s.items[j].weight)
  BY <1>1, <1>2, GemKept
<1>4. PICK n \in Nat : n = Len(s.items) /\ DOMAIN s.items = 1..n
  BY <1>3 DEF Section
<1>5. PICK w : w = [j \in 1..n |-> s.items[j].weight]
  OBVIOUS
<1>6. w \in [1..n -> Nat] /\ n \in 1..n
  <2>1. s.items \in Seq(GemItem) /\ Len(s.items) = n
    BY <1>3, <1>4 DEF Section
  <2>2. [j \in 1..Len(s.items) |-> s.items[j].weight] \in [1..Len(s.items) -> Nat]
    BY <1>3, <2>1, Weights
  <2>3. i \in 1..n
    BY <1>2, <1>4
  <2> QED
    BY <1>5, <2>1, <2>2, <2>3
<1>7. PICK up : up = Upto(w, n)
  OBVIOUS
<1>8. TotalWeight = up
  <2>1. Len(conf["gem"].items) = n /\ conf["gem"].items[n] = [id |-> s.items[n].id, upTo |-> Upto(w, n)]
    BY <1>3, <1>4, <1>5, <1>6, Accumulated
  <2> QED
    BY <1>7, <2>1 DEF TotalWeight, Seqs!Last
<1>9. up \in Nat
  BY <1>6, <1>7, Accrues
<1>10. PICK pick : pick = [t \in 1..up |-> SelectGemItemId(t)]
  OBVIOUS
<1>11. PICK ids : ids = [j \in 1..n |-> s.items[j].id]
  OBVIOUS
<1>12. ASSUME NEW k \in 1..n, NEW t \in (Upto(w, k - 1) + 1)..Upto(w, k)
       PROVE  pick[t] = ids[k]
  <2>1. SelectGemItemId(t) = s.items[k].id
    BY <1>3, <1>4, <1>5, Selects
  <2>2. Upto(w, k - 1) \in Nat /\ Upto(w, k) \in Nat /\ Upto(w, k) <= up
    <3>1. k \in 0..n /\ k - 1 \in 0..n /\ n \in 0..n /\ k \in 0..n
      OBVIOUS
    <3> QED
      BY <1>6, <1>7, <3>1, Accrues, Grows
  <2>3. t \in 1..up
    BY <1>9, <2>2
  <2> QED
    BY <1>10, <1>11, <2>1, <2>3
<1> DEFINE share == [j \in 1..n |-> IF ids[j] = id THEN w[j] ELSE 0]
<1>13. Cardinality(Tickets(pick, Upto(w, n), id)) = Upto(share, n)
  <2>1. Falls(pick, ids, w, n)
    BY <1>12 DEF Falls
  <2>2. w \in [1..n -> Nat]
    BY <1>6
  <2>3. Portion(share, ids, w, n, id)
    BY <2>2 DEF Portion
  <2> HIDE DEF share
  <2> QED
    BY <2>1, <2>2, <2>3, Shares
<1>14. Tickets(pick, Upto(w, n), id) = {t \in 1..TotalWeight : SelectGemItemId(t) = id}
  BY <1>7, <1>8, <1>10 DEF Tickets
<1>15. Upto(share, n) = Sum([j \in 1..n |-> IF s.items[j].id = id THEN s.items[j].weight ELSE 0])
  <2>1. PICK v : v = share
    OBVIOUS
  <2>2. [j \in 1..n |-> v[j]] = [j \in 1..n |-> IF s.items[j].id = id THEN s.items[j].weight ELSE 0]
    BY <1>5, <1>11, <2>1
  <2> QED
    BY <2>1, <2>2 DEF Upto
<1> QED
  BY <1>2, <1>4, <1>13, <1>14, <1>15

\* Half of a number, rounded down.
LEMMA Half == ASSUME NEW t \in Nat PROVE t \div 2 \in Nat /\ 2 * (t \div 2) \in {t, t - 1}
OBVIOUS

Material == [quality : Nat, quantity : Nat]

\* The sums of a dig.
LEMMA Amounts ==
  ASSUME NEW m \in Seq(Material)
  PROVE  Quantity(m) \in Nat /\ Worth(m) \in Nat
<1>1. PICK n \in Nat : DOMAIN m = 1..n
  OBVIOUS
<1>2. \A i \in 1..n : m[i].quality \in Nat /\ m[i].quantity \in Nat
  <2> TAKE i \in 1..n
  <2>1. m[i] \in Material
    BY <1>1, ElementOfSeq
  <2> QED
    BY <2>1 DEF Material
<1>3. \A i \in 1..n : m[i].quality * m[i].quantity \in Nat
  BY <1>2
<1>4. [i \in DOMAIN m |-> m[i].quantity] \in [1..n -> Nat]
  BY <1>1, <1>2
<1>5. [i \in DOMAIN m |-> m[i].quality * m[i].quantity] \in [1..n -> Nat]
  BY <1>1, <1>3
<1> QED
  BY <1>4, <1>5, SumStep DEF Quantity, Worth

\* The quality of an award is the mean of the dig: no other is nearer, but for the
\* limits.
LEMMA MeanQuality ==
  ASSUME NEW m \in Seq(Material), NEW q, q = ExtractMaterialQuality(m)
  PROVE  q \in 1..100 /\ Means(q, m)
<1>1. PICK t \in Nat, w \in Nat : t = Quantity(m) /\ w = Worth(m)
  BY Amounts
<1>2. CASE t = 0
  BY <1>1, <1>2 DEF ExtractMaterialQuality, Means
<1>3. CASE t > 0
  <2>1. PICK h \in Nat : h = t \div 2 /\ 2 * h \in {t, t - 1}
    BY Half
  <2>2. PICK k \in Int : k = (w + h) \div t /\ t * k <= w + h /\ w + h < t * k + t
    BY <1>3, Division
  <2>3. q = IF k < 1 THEN 1 ELSE IF k > 100 THEN 100 ELSE k
    BY <1>1, <1>3, <2>1, <2>2 DEF ExtractMaterialQuality
  <2>4. CASE k < 1
    <3>1. t * k <= 0
      <4>1. k = 0 \/ t * k + t <= t * 0
        BY <1>3, <2>4, Monotone
      <4> QED
        BY <1>3, <4>1
    <3>2. 1 * t - w > 0
      BY <2>1, <2>2, <3>1
    <3> QED
      BY <1>1, <2>3, <2>4, <3>2 DEF Means
  <2>5. CASE k > 100
    <3>1. t * 100 + t <= t * k
      BY <1>3, <2>5, Monotone
    <3>2. 100 * t - w < 0
      BY <1>3, <2>1, <2>2, <3>1
    <3> QED
      BY <1>1, <2>3, <2>5, <3>2 DEF Means
  <2>6. CASE k \in 1..100
    <3>1. q = k
      BY <2>3, <2>6
    <3>2. PICK e \in Int : e = q * t - w
      BY <3>1
    <3>3. e <= h /\ e > h - t
      <4>1. PICK p \in Int : p = t * k /\ p = q * t
        BY <3>1
      <4> QED
        BY <2>2, <3>2, <4>1, SMTT(30)
    <3>4. 2 * e \in (-t)..t
      BY <2>1, <3>3
    <3> QED
      BY <1>1, <2>6, <3>1, <3>2, <3>4 DEF Means
  <2> QED
    BY <2>4, <2>5, <2>6
<1> QED
  BY <1>2, <1>3

TunnelItem == [id : Attribute, chance : Attribute, lo : Attribute, hi : Attribute]

\* An item of the file, and of the hook.
SameItem(x, y) ==
  /\ Positive(x.id) /\ x.id \in Nat /\ y.id = x.id
  /\ y.chance = x.chance /\ x.chance \in 0..100
  /\ y.lo \in Nat /\ (x.lo # Unset => y.lo = x.lo)
  /\ y.hi \in Nat /\ (x.hi # Unset => y.hi = x.hi)

\* The limits of an item, as the hook tests them and as the file means them.
LEMMA Limits ==
  ASSUME NEW lo \in Attribute, NEW hi \in Attribute
  PROVE  /\ lo \notin {0, Malformed} /\ hi # Malformed
         /\ hi = Unset \/ hi >= (IF lo = Unset THEN 1 ELSE lo)
         <=> /\ lo \in Counts \cup {Unset} /\ hi \in Counts \cup {Unset}
             /\ lo # Unset /\ hi # Unset => lo <= hi
<1>1. Unset \notin Nat /\ Malformed \notin Nat /\ Unset # Malformed
  BY DropAssumption
<1>2. lo \notin {0, Malformed} <=> lo \in Counts \cup {Unset}
  BY <1>1 DEF Attribute, Counts
<1>3. CASE hi = Unset
  <2>1. hi # Malformed /\ hi \in Counts \cup {Unset}
    BY <1>1, <1>3
  <2> QED
    BY <1>2, <1>3, <2>1
<1>4. CASE hi = Malformed /\ hi # Unset
  <2>1. hi \notin Counts \cup {Unset}
    BY <1>1, <1>4 DEF Counts
  <2> QED
    BY <1>4, <2>1
<1>5. CASE hi \in Nat
  <2>1. hi # Malformed /\ hi # Unset
    BY <1>1, <1>5
  <2>2. CASE lo = Unset
    BY <1>2, <1>5, <2>1, <2>2 DEF Counts
  <2>3. CASE lo \in Nat /\ lo # Unset
    BY <1>2, <1>5, <2>1, <2>3 DEF Counts
  <2>4. CASE lo = Malformed /\ lo # Unset
    BY <1>2, <2>4
  <2> QED
    BY <2>2, <2>3, <2>4 DEF Attribute
<1> QED
  BY <1>3, <1>4, <1>5 DEF Attribute

\* What the tunnel hook is configured with.
LEMMA TunnelKept ==
  ASSUME NEW s \in Section(TunnelItem), NEW c, c = ConfigureTunnelDrops(s)
  PROVE  \/ c.items = <<>> /\ c.head = Unset /\ ~c.enabled /\ ~RightTunnel(s)
         \/ /\ RightTunnel(s) /\ c.enabled /\ c.head = s.head
            /\ s.head = Unset \/ (s.head \in Nat /\ s.head \in 1..100)
            /\ DOMAIN c.items = DOMAIN s.items
            /\ \A i \in DOMAIN s.items : SameItem(s.items[i], c.items[i])
<1> DEFINE rightItem(x) == /\ Positive(x.id)
                           /\ x.chance # Malformed /\ x.chance \in 0..100
                           /\ x.lo \notin {0, Malformed} /\ x.hi # Malformed
                           /\ x.hi = Unset \/ x.hi >= (IF x.lo = Unset THEN 1 ELSE x.lo)
           range(x) == [x EXCEPT !.lo = IF @ = Unset THEN 1 ELSE @,
                                 !.hi = IF @ # Unset THEN @ ELSE IF x.lo = Unset THEN 1 ELSE x.lo]
           ok == /\ s.head = Unset \/ (s.head # Malformed /\ s.head \in 1..100)
                 /\ \A i \in DOMAIN s.items : rightItem(s.items[i])
                 /\ Distinct(s.items, LAMBDA x : x.id)
                 /\ s.items # <<>>
<1>1. c = [Kept(s, ok) EXCEPT !.items = [i \in DOMAIN @ |-> range(@[i])]]
  BY Zenon DEF ConfigureTunnelDrops
<1>4. RightTunnel(s) <=> s.enabled /\ ok
  <2>1. ASSUME NEW i \in DOMAIN s.items
        PROVE  rightItem(s.items[i]) <=>
                 LET x == s.items[i] IN
                 /\ x.id \in Counts /\ x.chance \in 0..100
                 /\ x.lo \in Counts \cup {Unset} /\ x.hi \in Counts \cup {Unset}
                 /\ x.lo # Unset /\ x.hi # Unset => x.lo <= x.hi
    <3>1. PICK x : x = s.items[i]
      OBVIOUS
    <3>2. x \in TunnelItem
      BY <3>1, ElementOfSeq DEF Section
    <3>3. x.id \in Attribute /\ x.chance \in Attribute /\ x.lo \in Attribute /\ x.hi \in Attribute
      BY <3>2 DEF TunnelItem
    <3>4. Positive(x.id) <=> x.id \in Counts
      BY <3>3, Counting
    <3>5. (x.chance # Malformed /\ x.chance \in 0..100) <=> x.chance \in 0..100
      BY Wordy, Zenon
    <3>6. /\ x.lo \notin {0, Malformed} /\ x.hi # Malformed
          /\ x.hi = Unset \/ x.hi >= (IF x.lo = Unset THEN 1 ELSE x.lo)
          <=> /\ x.lo \in Counts \cup {Unset} /\ x.hi \in Counts \cup {Unset}
              /\ x.lo # Unset /\ x.hi # Unset => x.lo <= x.hi
      BY <3>3, Limits
    <3> QED
      BY <3>1, <3>4, <3>5, <3>6, Zenon
  <2>2. s.head \in (1..100) \cup {Unset} <=> s.head = Unset \/ (s.head # Malformed /\ s.head \in 1..100)
    <3>1. \A t \in 1..100 : t # Malformed
      BY Wordy
    <3> QED
      BY <3>1, Zenon
  <2>3. Distinct(s.items, LAMBDA x : x.id) <=> NoTwice(s.items, LAMBDA x : x.id)
    <3>1. PICK n \in Nat : DOMAIN s.items = 1..n
      BY DEF Section
    <3>2. PICK key : key = [i \in 1..n |-> s.items[i].id]
      OBVIOUS
    <3>3. \A i \in 1..n : key[i] = s.items[i].id
      BY <3>2
    <3>4. (\A i, j \in 1..n : key[i] = key[j] => i = j) <=> (\A i, j \in 1..n : i < j => key[i] # key[j])
      BY Apart
    <3>5. (\A i, j \in 1..Len(s.items) : s.items[i].id = s.items[j].id => i = j)
            <=> (\A i, j \in DOMAIN s.items : i < j => s.items[i].id # s.items[j].id)
      <4>1. DOMAIN s.items = 1..Len(s.items)
        BY DEF Section
      <4> QED
        BY <3>1, <3>3, <3>4, <4>1
    <3> QED
      BY <3>5, Zenon DEF Distinct, NoTwice
  <2> HIDE DEF rightItem
  <2> QED
    BY <2>1, <2>2, <2>3, ZenonT(30) DEF RightTunnel
<1>2. CASE ~(s.enabled /\ ok)
  <2>1. Kept(s, ok) = Off
    <3> HIDE DEF ok
    <3> QED
      BY <1>2, NotKept, Zenon
  <2>2. PICK o : o = Kept(s, ok) /\ o = Off
    BY <2>1, Zenon
  <2>3. c = [o EXCEPT !.items = [i \in DOMAIN o.items |-> range(o.items[i])]]
    <3> HIDE DEF ok, range
    <3> QED
      BY <1>1, <2>2
  <2>4. o.items = <<>> /\ DOMAIN o.items = {} /\ o.head = Unset /\ o.enabled = FALSE
    <3>1. o = Off
      BY <2>2, Zenon
    <3> HIDE DEF ok, range
    <3> QED
      BY <3>1 DEF Off
  <2>7. ~RightTunnel(s)
    <3> HIDE DEF ok
    <3> QED
      BY <1>2, <1>4
  <2>5. c.items = [i \in {} |-> range(o.items[i])] /\ c.head = o.head /\ c.enabled = o.enabled
    <3> HIDE DEF range
    <3> QED
      BY <2>2, <2>3, <2>4, Zenon DEF Off
  <2>6. c.items = <<>>
    <3> HIDE DEF range
    <3> QED
      BY <2>5, SMTT(30)
  <2> QED
    BY <2>4, <2>5, <2>6, <2>7
<1>3. CASE s.enabled /\ ok
  <2>1. Kept(s, ok) = s
    <3> HIDE DEF ok
    <3> QED
      BY <1>3 DEF Kept
  <2>2. c = [s EXCEPT !.items = [i \in DOMAIN s.items |-> range(s.items[i])]]
    <3> HIDE DEF ok, range
    <3> QED
      BY <1>1, <2>1
  <2>3. c.items = [i \in DOMAIN s.items |-> range(s.items[i])] /\ c.head = s.head /\ c.enabled
    <3>1. s.enabled
      BY <1>3
    <3> HIDE DEF range, ok
    <3> QED
      BY <2>2, <3>1 DEF Section
  <2>4. ASSUME NEW i \in DOMAIN s.items PROVE SameItem(s.items[i], c.items[i])
    <3>1. PICK x : x = s.items[i]
      OBVIOUS
    <3>2. x \in TunnelItem
      BY <3>1, ElementOfSeq DEF Section
    <3>3. rightItem(x)
      BY <1>3, <3>1
    <3>4. c.items[i] = range(x)
      <4> HIDE DEF range
      <4> QED
        BY <2>3, <3>1
    <3>5. /\ range(x).id = x.id /\ range(x).chance = x.chance
          /\ range(x).lo = (IF x.lo = Unset THEN 1 ELSE x.lo)
          /\ range(x).hi = (IF x.hi # Unset THEN x.hi ELSE IF x.lo = Unset THEN 1 ELSE x.lo)
      BY <3>2 DEF TunnelItem
    <3>6. /\ x.id \in Attribute /\ x.lo \in Attribute /\ x.hi \in Attribute
      BY <3>2 DEF TunnelItem
    <3>7. SameItem(x, range(x))
      <4> HIDE DEF range
      <4> QED
        BY <3>3, <3>5, <3>6, DropAssumption DEF SameItem, Positive, Attribute
    <3> HIDE DEF range
    <3> QED
      BY <3>1, <3>4, <3>7
  <2>5. DOMAIN c.items = DOMAIN s.items
    <3> HIDE DEF range
    <3> QED
      BY <2>3
  <2>6. s.head = Unset \/ (s.head \in Nat /\ s.head \in 1..100)
    <3>1. s.head = Unset \/ s.head \in 1..100
      BY <1>3
    <3> HIDE DEF ok
    <3>2. \A h \in 1..100 : h \in Nat
      OBVIOUS
    <3> QED
      BY <3>1, <3>2
  <2> QED
    BY <1>3, <1>4, <2>3, <2>4, <2>5, <2>6, Zenon
<1> HIDE DEF ok, range
<1> QED
  BY <1>2, <1>3, Zenon

\* A dig awards what the file says.
LEMMA Awarding ==
  ASSUME xml.tunnel \in Section(TunnelItem), conf["tunnel"] = ConfigureTunnelDrops(xml.tunnel),
         conf["tunnel"].enabled, NEW m \in Seq(Material), NEW ask, AwardTunnelDrop(ask, m)
  PROVE  /\ got'.ask = ask /\ got'.out \in Awards /\ RightTunnel(xml.tunnel)
         /\ \A a \in got'.out.awarded : AwardAsConfigured(a, m)
         /\ \A i \in DOMAIN xml.tunnel.items :
              xml.tunnel.items[i].chance = 100 =>
                \E a \in got'.out.awarded : a.id = xml.tunnel.items[i].id
<1>1. PICK s, c : s = xml.tunnel /\ c = conf["tunnel"]
  OBVIOUS
<1>2. /\ RightTunnel(s) /\ c.head = s.head
      /\ s.head = Unset \/ (s.head \in Nat /\ s.head \in 1..100)
      /\ DOMAIN c.items = DOMAIN s.items
      /\ \A i \in DOMAIN s.items : SameItem(s.items[i], c.items[i])
  BY <1>1, TunnelKept
<1>3. PICK q : q = IF c.head # Unset THEN c.head ELSE ExtractMaterialQuality(m)
  OBVIOUS
<1>4. /\ q \in Nat
      /\ IF s.head # Unset THEN q = s.head ELSE q \in 1..100 /\ Means(q, m)
  <2>1. PICK e : e = ExtractMaterialQuality(m)
    OBVIOUS
  <2>2. e \in 1..100 /\ Means(e, m)
    BY <2>1, MeanQuality
  <2>3. q = IF s.head # Unset THEN s.head ELSE e
    BY <1>2, <1>3, <2>1
  <2>4. CASE s.head # Unset
    <3>1. q = s.head /\ q \in Nat
      BY <1>2, <2>3, <2>4
    <3> QED
      BY <2>4, <3>1
  <2>5. CASE s.head = Unset
    <3>1. q = e
      BY <2>3, <2>5
    <3> QED
      BY <2>2, <2>5, <3>1
  <2> QED
    BY <2>4, <2>5
<1> DEFINE Won(d, r) ==
      \E won \in SUBSET (DOMAIN d.items) :
        /\ \A i \in DOMAIN d.items : (i \in won) \in PassesChanceRoll(d.items[i].chance)
        /\ \E n \in [won -> UNION {d.items[i].lo..d.items[i].hi : i \in won}] :
             /\ \A i \in won : n[i] \in d.items[i].lo..d.items[i].hi
             /\ got' = [ask |-> ask,
                        out |-> [awarded |-> {[id |-> d.items[i].id, quality |-> r, quantity |-> n[i]] : i \in won}]]
<1>15. Won(c, q)
  <2>1. Won(conf["tunnel"], IF conf["tunnel"].head # Unset THEN conf["tunnel"].head
                            ELSE ExtractMaterialQuality(m))
    BY Zenon DEF AwardTunnelDrop, Answers
  <2> HIDE DEF Won
  <2> QED
    BY <1>1, <1>3, <2>1
<1>5. PICK won \in SUBSET (DOMAIN c.items) :
        /\ \A i \in DOMAIN c.items : (i \in won) \in PassesChanceRoll(c.items[i].chance)
        /\ \E n \in [won -> UNION {c.items[i].lo..c.items[i].hi : i \in won}] :
             /\ \A i \in won : n[i] \in c.items[i].lo..c.items[i].hi
             /\ got' = [ask |-> ask,
                        out |-> [awarded |-> {[id |-> c.items[i].id, quality |-> q, quantity |-> n[i]] : i \in won}]]
  BY <1>15
<1> HIDE DEF Won
<1>6. PICK n : /\ \A i \in won : n[i] \in c.items[i].lo..c.items[i].hi
               /\ got' = [ask |-> ask,
                          out |-> [awarded |-> {[id |-> c.items[i].id, quality |-> q, quantity |-> n[i]] : i \in won}]]
  BY <1>5
<1>7. PICK all : all = {[id |-> c.items[i].id, quality |-> q, quantity |-> n[i]] : i \in won}
  OBVIOUS
<1>8. got'.ask = ask /\ got'.out = [awarded |-> all]
  BY <1>6, <1>7
<1>9. got'.out.awarded = all
  BY <1>8
<1>10. \A i \in won : i \in DOMAIN s.items /\ SameItem(s.items[i], c.items[i])
  BY <1>2, <1>5
<1>11. \A i \in won : n[i] \in Nat /\ c.items[i].id \in Nat /\ n[i] >= c.items[i].lo /\ n[i] <= c.items[i].hi
  BY <1>6, <1>10 DEF SameItem
<1>12. [awarded |-> all] \in Awards
  <2>1. \A a \in all : a \in [id : Nat, quality : Nat, quantity : Nat]
    BY <1>4, <1>7, <1>11
  <2> QED
    BY <2>1 DEF Awards
<1>13. ASSUME NEW a \in all PROVE AwardAsConfigured(a, m)
  <2>1. PICK i \in won : a = [id |-> c.items[i].id, quality |-> q, quantity |-> n[i]]
    BY <1>7
  <2>2. a.id = c.items[i].id /\ a.quality = q /\ a.quantity = n[i]
    BY <2>1
  <2>3. i \in DOMAIN s.items /\ SameItem(s.items[i], c.items[i])
    BY <1>10
  <2>4. s.items[i].chance # 0
    <3>1. SUFFICES ASSUME c.items[i].chance = 0 PROVE FALSE
      BY <2>3 DEF SameItem
    <3>2. PassesChanceRoll(c.items[i].chance) = {FALSE}
      BY <3>1 DEF PassesChanceRoll
    <3>3. (i \in won) \in PassesChanceRoll(c.items[i].chance)
      BY <1>5
    <3>4. (i \in won) = FALSE
      BY <3>2, <3>3
    <3> QED
      BY <3>4
  <2>5. /\ a.id = s.items[i].id
        /\ s.items[i].lo # Unset => a.quantity >= s.items[i].lo
        /\ s.items[i].hi # Unset => a.quantity <= s.items[i].hi
    BY <1>11, <2>2, <2>3 DEF SameItem
  <2> QED
    BY <1>1, <1>4, <2>2, <2>3, <2>4, <2>5 DEF AwardAsConfigured
<1>14. ASSUME NEW i \in DOMAIN s.items, s.items[i].chance = 100
       PROVE  \E a \in all : a.id = s.items[i].id
  <2>1. i \in DOMAIN c.items /\ SameItem(s.items[i], c.items[i])
    BY <1>2
  <2>2. PassesChanceRoll(c.items[i].chance) = {TRUE}
    <3>1. c.items[i].chance = 100
      BY <1>14, <2>1 DEF SameItem
    <3>2. 100 # 0
      OBVIOUS
    <3> QED
      BY <3>1, <3>2 DEF PassesChanceRoll
  <2>3. (i \in won) \in PassesChanceRoll(c.items[i].chance)
    BY <1>5, <2>1
  <2>4. i \in won
    <3>1. (i \in won) \in {TRUE}
      BY <2>2, <2>3
    <3> QED
      BY <3>1, Zenon
  <2>5. [id |-> c.items[i].id, quality |-> q, quantity |-> n[i]] \in all
    BY <1>7, <2>4
  <2>6. [id |-> c.items[i].id, quality |-> q, quantity |-> n[i]].id = s.items[i].id
    BY <2>1 DEF SameItem
  <2> QED
    BY <2>5, <2>6
<1> QED
  BY <1>1, <1>2, <1>8, <1>9, <1>12, <1>13, <1>14

TreeItem == [type : Attribute, id : Attribute]

\* A sort keeps the items.
Types(items, n) == [k \in 1..n |-> items[k].type]
SameItems(c, items, n) ==
  /\ DOMAIN c = 1..n
  /\ \A i \in 1..n : \E k \in 1..n : c[i] = items[k]
  /\ \A k \in 1..n : \E i \in 1..n : c[i] = items[k]

LEMMA Sorted ==
  ASSUME NEW n \in Nat, NEW items, DOMAIN items = 1..n,
         Types(items, n) \in [1..n -> Nat], OneToOne(Types(items, n), n)
  PROVE  SameItems(ByType(items), items, n)
<1>0. PICK c : c = ByType(items)
  OBVIOUS
<1>1. PICK key : key = Types(items, n) /\ key = [k \in 1..n |-> items[k].type]
  BY DEF Types
<1>2. PICK place : place = Rank(key, n)
  OBVIOUS
<1>3. /\ \A i, j \in 1..n : place[i] = place[j] => i = j
      /\ \A k \in 1..n : place[k] \in 0..(n - 1)
      /\ \A p \in 0..(n - 1) : \E k \in 1..n : place[k] = p
  <2>1. key \in [1..n -> Nat] /\ OneToOne(key, n)
    BY <1>1
  <2>2. /\ OneToOne(Rank(key, n), n)
        /\ \A k \in 1..n : Rank(key, n)[k] \in 0..(n - 1)
        /\ \A p \in 0..(n - 1) : \E k \in 1..n : Rank(key, n)[k] = p
    BY <2>1, Ranks
  <2> QED
    BY <1>2, <2>2 DEF OneToOne
<1>4. \A k \in 1..n : Cardinality({j \in 1..n : items[j].type < items[k].type}) = place[k]
  <2> TAKE k \in 1..n
  <2>1. {j \in 1..n : items[j].type < items[k].type} = {j \in 1..n : key[j] < key[k]}
    BY <1>1
  <2> QED
    BY <1>2, <2>1 DEF Rank
<1>5. c = [i \in 1..n |-> items[CHOOSE k \in 1..n : Cardinality({j \in 1..n : items[j].type < items[k].type}) = i - 1]]
  BY <1>0 DEF ByType
<1> DEFINE At(i) == CHOOSE k \in 1..n : Cardinality({j \in 1..n : items[j].type < items[k].type}) = i - 1
<1>6. ASSUME NEW i \in 1..n PROVE At(i) \in 1..n /\ place[At(i)] = i - 1
  <2>1. i - 1 \in 0..(n - 1)
    OBVIOUS
  <2>2. \E k \in 1..n : Cardinality({j \in 1..n : items[j].type < items[k].type}) = i - 1
    <3>1. PICK k \in 1..n : place[k] = i - 1
      BY <1>3, <2>1
    <3>2. Cardinality({j \in 1..n : items[j].type < items[k].type}) = place[k]
      BY <1>4
    <3>3. Cardinality({j \in 1..n : items[j].type < items[k].type}) = i - 1
      BY <3>1, <3>2
    <3> QED
      BY <3>3, Zenon
  <2>3. At(i) \in 1..n /\ Cardinality({j \in 1..n : items[j].type < items[At(i)].type}) = i - 1
    BY <2>2, Zenon
  <2> HIDE DEF At
  <2> QED
    BY <1>4, <2>3
<1>7. \A i \in 1..n : c[i] = items[At(i)]
  BY <1>5
<1> HIDE DEF At
<1>8. ASSUME NEW k \in 1..n PROVE \E i \in 1..n : c[i] = items[k]
  <2>1. PICK i : i = place[k] + 1
    OBVIOUS
  <2>2. i \in 1..n /\ place[k] = i - 1
    <3>1. place[k] \in 0..(n - 1)
      BY <1>3
    <3> QED
      BY <2>1, <3>1, SMTT(30)
  <2>3. At(i) = k
    BY <1>3, <1>6, <2>2
  <2> QED
    BY <1>7, <2>2, <2>3
<1> QED
  BY <1>0, <1>5, <1>6, <1>7, <1>8, ZenonT(40) DEF SameItems

\* The function a tree's drop is computed with.
Drops(items, type) ==
  CHOOSE g : g = [t \in SUBSET DOMAIN items |->
                    IF t = {} THEN Vanilla
                    ELSE IF items[Seqs!Max(t)].type = type THEN items[Seqs!Max(t)].id
                    ELSE g[t \ {Seqs!Max(t)}]]

\* A fold is its function at all places.
LEMMA DropIs ==
  ASSUME NEW items, NEW type
  PROVE  TreeDrop(items, type) = Drops(items, type)[DOMAIN items]
BY DEF TreeDrop, Drops, Seqs!FoldLeft, Seqs!MapThenFoldSet

\* One item after the other, the last that fits wins.
LEMMA DropsGo ==
  ASSUME NEW n \in Nat, NEW items, DOMAIN items = 1..n, NEW type,
         \A i \in 1..n : items[i].id \in Nat
  PROVE  /\ Drops(items, type)[1..0] = Vanilla
         /\ \A k \in 1..n : Drops(items, type)[1..k]
              = IF items[k].type = type THEN items[k].id ELSE Drops(items, type)[1..(k - 1)]
<1> DEFINE Top == [t \in SUBSET (1..n) |-> Seqs!Max(t)]
           V == Nat \cup {Vanilla}
           F == [p \in (1..n) \X V |-> IF items[p[1]].type = type THEN items[p[1]].id ELSE p[2]]
           Eq(g) == g = [t \in SUBSET DOMAIN items |->
                           IF t = {} THEN Vanilla
                           ELSE IF items[Seqs!Max(t)].type = type THEN items[Seqs!Max(t)].id
                           ELSE g[t \ {Seqs!Max(t)}]]
<1>1. F \in [(1..n) \X V -> V]
  OBVIOUS
<1>2. \A t \in SUBSET (1..n) : t # {} => Top[t] \in t /\ \A y \in t : y <= Top[t]
  BY TopOf
<1>3. PICK g : Folding(g, n, V, Vanilla, F, Top)
  <2>1. Vanilla \in V
    OBVIOUS
  <2> HIDE DEF F, Top, V
  <2> QED
    BY <1>1, <1>2, <2>1, Folds
<1>4. ASSUME NEW t \in SUBSET (1..n), t # {}
      PROVE  g[t] = IF items[Seqs!Max(t)].type = type THEN items[Seqs!Max(t)].id ELSE g[t \ {Seqs!Max(t)}]
  <2>1. Top[t] \in 1..n /\ Top[t] = Seqs!Max(t) /\ t \ {Seqs!Max(t)} \in SUBSET (1..n)
    BY <1>2, <1>4
  <2>2. g[t] = F[<<Top[t], g[t \ {Top[t]}]>>] /\ g[t \ {Top[t]}] \in V
    <3> HIDE DEF F, Top, V
    <3> QED
      BY <1>3, <1>4, <2>1 DEF Folding
  <2> QED
    BY <2>1, <2>2
<1>5. Eq(g)
  <2>2. g = [t \in SUBSET (1..n) |-> g[t]]
    <3> HIDE DEF F, Top, V
    <3> QED
      BY <1>3 DEF Folding
  <2>3. g[{}] = Vanilla
    <3> HIDE DEF F, Top, V
    <3> QED
      BY <1>3 DEF Folding
  <2> QED
    BY <1>4, <2>2, <2>3
<1>6. Eq(Drops(items, type))
  <2> HIDE DEF Top, F
  <2> QED
    BY <1>5 DEF Drops
<1>7. PICK h : h = Drops(items, type)
  OBVIOUS
<1>8. h = [t \in SUBSET (1..n) |->
             IF t = {} THEN Vanilla
             ELSE IF items[Seqs!Max(t)].type = type THEN items[Seqs!Max(t)].id
             ELSE h[t \ {Seqs!Max(t)}]]
  BY <1>6, <1>7
<1>9. h[1..0] = Vanilla
  <2>1. 1..0 = {} /\ {} \in SUBSET (1..n)
    OBVIOUS
  <2> QED
    BY <1>8, <2>1
<1>10. ASSUME NEW k \in 1..n
       PROVE  h[1..k] = IF items[k].type = type THEN items[k].id ELSE h[1..(k - 1)]
  <2>1. 1..k \in SUBSET (1..n) /\ k \in 1..k /\ 1..k # {}
    OBVIOUS
  <2>2. Seqs!Max(1..k) = k
    <3>1. Seqs!Max(1..k) \in 1..k /\ k <= Seqs!Max(1..k)
      BY <2>1, TopOf
    <3> QED
      BY <3>1
  <2>3. (1..k) \ {k} = 1..(k - 1)
    OBVIOUS
  <2> QED
    BY <1>8, <2>1, <2>2, <2>3
<1> QED
  BY <1>7, <1>9, <1>10

\* The places and the ids of some items.
Items(items, n) == DOMAIN items = 1..n /\ \A i \in 1..n : items[i].id \in Nat

\* A tree answers with an item of its type, and with the engine's if there is none.
LEMMA Dropped ==
  ASSUME NEW n \in Nat, NEW items, NEW type, Items(items, n)
  PROVE  \/ /\ TreeDrop(items, type) = Vanilla
            /\ \A i \in 1..n : items[i].type # type
         \/ \E i \in 1..n : items[i].type = type /\ TreeDrop(items, type) = items[i].id
<1>1. PICK h : h = Drops(items, type)
  OBVIOUS
<1>2. /\ h[1..0] = Vanilla
      /\ \A k \in 1..n : h[1..k] = IF items[k].type = type THEN items[k].id ELSE h[1..(k - 1)]
  BY <1>1, DropsGo DEF Items
<1> DEFINE S == {k \in 0..n :
                   \/ h[1..k] = Vanilla /\ \A i \in 1..k : items[i].type # type
                   \/ \E i \in 1..n : items[i].type = type /\ h[1..k] = items[i].id}
<1>3. 0 \in S
  BY <1>2
<1>4. ASSUME NEW k \in 1..n, k - 1 \in S PROVE k \in S
  <2>1. CASE items[k].type = type
    BY <1>2, <2>1
  <2>2. CASE items[k].type # type
    <3>1. h[1..k] = h[1..(k - 1)] /\ \A i \in 1..k : i \in 1..(k - 1) \/ i = k
      BY <1>2, <2>2
    <3> QED
      BY <1>4, <2>2, <3>1
  <2> QED
    BY <2>1, <2>2
<1>5. S = 0..n
  <2>1. S \in SUBSET (0..n)
    OBVIOUS
  <2> HIDE DEF S
  <2> QED
    BY <1>3, <1>4, <2>1, Climb
<1>6. n \in S
  <2> HIDE DEF S
  <2> QED
    BY <1>5
<1>7. TreeDrop(items, type) = h[1..n]
  BY <1>1, DropIs, SMTT(30) DEF Items
<1> QED
  BY <1>6, <1>7

\* A byte, as the tree's type attribute is read into, is a natural number.
LEMMA ByteIsNat == \A t \in 0..255 : t \in Nat
OBVIOUS

\* What the tree hook is configured with.
LEMMA TreeKept ==
  ASSUME NEW s \in Section(TreeItem), NEW c, c = ConfigureTreeDrops(s)
  PROVE  \/ ~c.enabled /\ ~RightTree(s)
         \/ /\ c.enabled /\ RightTree(s)
            /\ \E n \in Nat :
                 /\ DOMAIN s.items = 1..n
                 /\ \A i \in 1..n : /\ s.items[i].id \in Nat
                                    /\ s.items[i] = [type |-> s.items[i].type, id |-> s.items[i].id]
                 /\ SameItems(c.items, s.items, n)
<1> DEFINE ok == /\ s.items # <<>>
                 /\ \A i \in DOMAIN s.items : /\ s.items[i].type \in 0..255
                                              /\ Positive(s.items[i].id)
                 /\ Distinct(s.items, LAMBDA x : x.type)
<1>1. c = [Kept(s, ok) EXCEPT !.items = ByType(@)]
  BY Zenon DEF ConfigureTreeDrops
<1>4. RightTree(s) <=> s.enabled /\ ok
  <2>1. ASSUME NEW i \in DOMAIN s.items PROVE Positive(s.items[i].id) <=> s.items[i].id \in Counts
    <3>1. s.items[i] \in TreeItem
      BY ElementOfSeq DEF Section
    <3>2. s.items[i].id \in Attribute
      BY <3>1 DEF TreeItem
    <3> QED
      BY <3>2, Counting
  <2>2. Distinct(s.items, LAMBDA x : x.type) <=> NoTwice(s.items, LAMBDA x : x.type)
    <3>1. PICK n \in Nat : DOMAIN s.items = 1..n /\ Len(s.items) = n
      BY DEF Section
    <3>2. PICK key : key = [i \in 1..n |-> s.items[i].type]
      OBVIOUS
    <3>3. \A i \in 1..n : key[i] = s.items[i].type
      BY <3>2
    <3>4. (\A i, j \in 1..n : key[i] = key[j] => i = j) <=> (\A i, j \in 1..n : i < j => key[i] # key[j])
      BY Apart
    <3>5. (\A i, j \in 1..Len(s.items) : s.items[i].type = s.items[j].type => i = j)
            <=> (\A i, j \in DOMAIN s.items : i < j => s.items[i].type # s.items[j].type)
      <4>1. (\A i, j \in 1..n : s.items[i].type = s.items[j].type => i = j)
              <=> (\A i, j \in 1..n : i < j => s.items[i].type # s.items[j].type)
        BY <3>3, <3>4
      <4> QED
        BY <3>1, <4>1
    <3> QED
      BY <3>5, Zenon DEF Distinct, NoTwice
  <2> QED
    BY <2>1, <2>2, ZenonT(30) DEF RightTree
<1>2. CASE ~(s.enabled /\ ok)
  <2>1. PICK o : o = Kept(s, ok) /\ o = Off
    <3> HIDE DEF ok
    <3> QED
      BY <1>2, NotKept
  <2>2. c = [o EXCEPT !.items = ByType(o.items)] /\ o = Off
    <3> HIDE DEF ok
    <3> QED
      BY <1>1, <2>1
  <2>3. ~c.enabled
    <3> HIDE DEF ok
    <3> QED
      BY <2>2 DEF Off
  <2> HIDE DEF ok
  <2> QED
    BY <1>2, <1>4, <2>3
<1>3. CASE s.enabled /\ ok
  <2>1. Kept(s, ok) = s
    <3> HIDE DEF ok
    <3> QED
      BY <1>3 DEF Kept
  <2>2. c.items = ByType(s.items) /\ c.enabled
    <3>1. s.enabled
      BY <1>3
    <3> HIDE DEF ok
    <3> QED
      BY <1>1, <2>1, <3>1 DEF Section
  <2>3. PICK n \in Nat : DOMAIN s.items = 1..n /\ Len(s.items) = n
    BY DEF Section
  <2>4. ASSUME NEW i \in 1..n
        PROVE  /\ s.items[i].id \in Nat /\ s.items[i].type \in Nat
               /\ s.items[i] = [type |-> s.items[i].type, id |-> s.items[i].id]
    <3>1. s.items[i] \in TreeItem
      BY <2>3, ElementOfSeq DEF Section
    <3>2. s.items[i].type \in 0..255 /\ Positive(s.items[i].id)
      BY <1>3, <2>3
    <3>3. s.items[i].id \in Attribute
      BY <3>1 DEF TreeItem
    <3> HIDE DEF ok
    <3>4. s.items[i].id \in Nat
      BY <3>2, <3>3 DEF Positive, Attribute
    <3>5. s.items[i] = [type |-> s.items[i].type, id |-> s.items[i].id]
      BY <3>1 DEF TreeItem
    <3> QED
      <4>1. s.items[i].type \in Nat /\ Positive(s.items[i].id)
        BY <3>2, ByteIsNat, Zenon
      <4> QED
        BY <3>2, <3>4, <3>5, <4>1, Zenon
  <2>5. \A i, j \in 1..n : s.items[i].type = s.items[j].type => i = j
    BY <1>3, <2>3 DEF Distinct
  <2>6. SameItems(c.items, s.items, n)
    <3>1. PICK items : items = s.items
      OBVIOUS
    <3>2. DOMAIN items = 1..n /\ Types(items, n) \in [1..n -> Nat] /\ OneToOne(Types(items, n), n)
      <4> HIDE DEF ok
      <4> QED
        BY <2>3, <2>4, <2>5, <3>1 DEF Types, OneToOne
    <3>3. SameItems(ByType(items), items, n)
      BY <3>2, Sorted
    <3> QED
      BY <2>2, <3>1, <3>3
  <2> HIDE DEF ok
  <2> QED
    BY <1>3, <1>4, <2>2, <2>3, <2>4, <2>6
<1> HIDE DEF ok
<1> QED
  BY <1>2, <1>3, Zenon

\* The node found is a recipe that suits, and none is found only if none does.
LEMMA NodeFound ==
  ASSUME NEW skill, NEW tool, NEW material, NEW node,
         node = FindMatchingRecipeNode(skill, tool, material),
         NEW ask, ask.skill = skill, ask.tool = tool, ask.material = material
  PROVE  IF \E r \in Seqs!ToSet(Recipes) : Suits(r, ask)
         THEN node # 0 /\ Recipes[node] \in Seqs!ToSet(Recipes) /\ Suits(Recipes[node], ask)
         ELSE node = 0
<1> DEFINE Fits(k) == /\ Recipes[k].tool = tool /\ Recipes[k].skill = skill
                      /\ \E i \in DOMAIN Recipes[k].needs :
                           ~Recipes[k].needs[i].skip /\ Recipes[k].needs[i].material = material
           I == {k \in 1..Len(Recipes) : Fits(k)}
<1>1. node = IF I # {} THEN Seqs!Min(I) ELSE 0
  BY Zenon DEF FindMatchingRecipeNode, Seqs!SelectInSeq
<1>2. DOMAIN Recipes = 1..Len(Recipes) /\ Len(Recipes) \in Nat
  BY DropAssumption
<1>3. ASSUME NEW k \in 1..Len(Recipes) PROVE Fits(k) <=> Suits(Recipes[k], ask)
  <2>1. PICK needs : needs = Recipes[k].needs
    OBVIOUS
  <2>2. needs \in Seq([material : Nat, skip : BOOLEAN])
    <3>1. Recipes[k] \in [tool : Nat, skill : Nat, needs : Seq([material : Nat, skip : BOOLEAN])]
      BY DropAssumption, ElementOfSeq
    <3> QED
      BY <2>1, <3>1
  <2>3. ASSUME NEW i \in DOMAIN needs
        PROVE  ~needs[i].skip /\ needs[i].material = material <=> needs[i] = [material |-> material, skip |-> FALSE]
    <3>1. needs[i] \in [material : Nat, skip : BOOLEAN]
      <4>1. DOMAIN needs = 1..Len(needs)
        BY <2>2
      <4> QED
        BY <2>2, <2>3, <4>1, ElementOfSeq
    <3> QED
      BY <3>1
  <2>4. [material |-> ask.material, skip |-> FALSE] \in Seqs!ToSet(needs)
          <=> \E i \in DOMAIN needs : ~needs[i].skip /\ needs[i].material = material
    BY <2>3 DEF Seqs!ToSet
  <2> QED
    BY <2>1, <2>4 DEF Suits
<1> HIDE DEF Fits
<1>4. ASSUME NEW k \in 1..Len(Recipes) PROVE Recipes[k] \in Seqs!ToSet(Recipes)
  BY <1>2 DEF Seqs!ToSet
<1>5. CASE I # {}
  <2>1. I \subseteq Nat
    BY <1>2
  <2>2. \E x \in I : \A y \in I : x =< y
    <3> HIDE DEF I
    <3> QED
      BY <1>5, <2>1, LeastOf
  <2>3. node \in I
    <3> HIDE DEF I
    <3> QED
      BY <1>1, <1>5, <2>2, Zenon DEF Seqs!Min
  <2>4. node \in 1..Len(Recipes) /\ Fits(node)
    BY <2>3
  <2>5. Recipes[node] \in Seqs!ToSet(Recipes) /\ Suits(Recipes[node], ask)
    BY <1>3, <1>4, <2>4
  <2>6. node # 0
    BY <2>4
  <2> QED
    BY <2>5, <2>6
<1>6. CASE I = {}
  <2>1. node = 0
    <3> HIDE DEF I
    <3> QED
      BY <1>1, <1>6
  <2>2. ASSUME NEW r \in Seqs!ToSet(Recipes), Suits(r, ask) PROVE FALSE
    <3>1. PICK k \in 1..Len(Recipes) : r = Recipes[k]
      BY <1>2 DEF Seqs!ToSet
    <3>2. Fits(k)
      BY <1>3, <2>2, <3>1
    <3> QED
      BY <1>6, <3>2
  <2> QED
    BY <2>1, <2>2
<1> QED
  BY <1>5, <1>6

\* What the recipe hook is configured with.
LEMMA ToolsKept ==
  ASSUME NEW s \in Section(Attribute), NEW c, c = ConfigureRecipeStartingTools(s)
  PROVE  IF RightTools(s) THEN c = s /\ c.enabled ELSE ~c.enabled
<1> DEFINE ok == /\ s.items # <<>>
                 /\ \A i \in DOMAIN s.items : Positive(s.items[i])
                 /\ Distinct(s.items, LAMBDA x : x)
<1>1. c = Kept(s, ok)
  BY DEF ConfigureRecipeStartingTools
<1>2. RightTools(s) <=> s.enabled /\ ok
  <2>1. ASSUME NEW i \in DOMAIN s.items PROVE Positive(s.items[i]) <=> s.items[i] \in Counts
    <3>1. s.items[i] \in Attribute
      BY ElementOfSeq DEF Section
    <3> QED
      BY <3>1, Counting
  <2>2. Distinct(s.items, LAMBDA x : x) <=> NoTwice(s.items, LAMBDA x : x)
    <3>1. PICK n \in Nat : DOMAIN s.items = 1..n /\ Len(s.items) = n
      BY DEF Section
    <3>2. PICK key : key = s.items
      OBVIOUS
    <3>3. (\A i, j \in 1..n : key[i] = key[j] => i = j) <=> (\A i, j \in 1..n : i < j => key[i] # key[j])
      BY Apart
    <3>4. (\A i, j \in 1..Len(s.items) : s.items[i] = s.items[j] => i = j)
            <=> (\A i, j \in DOMAIN s.items : i < j => s.items[i] # s.items[j])
      BY <3>1, <3>2, <3>3
    <3> QED
      BY <3>4, Zenon DEF Distinct, NoTwice
  <2> QED
    BY <2>1, <2>2, ZenonT(30) DEF RightTools
<1>3. Off.enabled = FALSE
  BY DEF Off
<1> HIDE DEF ok
<1> QED
  BY <1>1, <1>2, <1>3 DEF Kept

\* The hooks that run are those the sections ask for and the engine took, and no call
\* is answered before the server starts.
Sections ==
  /\ xml.gem \in Section(GemItem) /\ xml.tunnel \in Section(TunnelItem)
  /\ xml.tree \in Section(TreeItem) /\ xml.tools \in Section(Attribute)

Configured ==
  /\ conf["gem"] = ConfigureGemDrops(xml.gem)
  /\ conf["tunnel"] = ConfigureTunnelDrops(xml.tunnel)
  /\ conf["tree"] = ConfigureTreeDrops(xml.tree)
  /\ conf["tools"] = ConfigureRecipeStartingTools(xml.tools)

DropsInv ==
  /\ Sections
  /\ lifecycle # "boot" => Configured
  /\ IF lifecycle = "running" THEN diverted = Wanted \ refused ELSE diverted = {} /\ got = NoCall
  /\ AsConfigured(got.ask, got.out)

\* The file has sections of its kinds from the start.
LEMMA SectionsAtInit == DropsInit => Sections
BY DropAssumption DEF DropsInit, Sections, GemItem, TunnelItem, TreeItem

\* A hook runs if its section asks for it and the engine took it.
LEMMA Running ==
  ASSUME DropsInv, lifecycle = "running"
  PROVE  /\ Sections /\ Configured
         /\ \A k \in {"tunnel", "tree", "tools"} : k \in diverted <=> conf[k].enabled /\ k \notin refused
         /\ "gemChance" \in diverted <=> conf["gem"].head # Unset /\ "gemChance" \notin refused
         /\ "gemItem" \in diverted <=> conf["gem"].items # <<>> /\ "gemItem" \notin refused
BY DEF DropsInv, Wanted, DropKinds

\* A call that was answered as configured stays so.
LEMMA StaysConfigured ==
  ASSUME NEW a, NEW o, AsConfigured(a, o), got'.ask = a, got'.out = o, UNCHANGED <<xml, refused>>
  PROVE  AsConfigured(got.ask, got.out)'
<1>1. \A x, m : AwardAsConfigured(x, m)' <=> AwardAsConfigured(x, m)
  BY ZenonT(60) DEF AwardAsConfigured
<1>2. AnswerAsConfigured(a, o)' <=> AnswerAsConfigured(a, o)
  BY <1>1, ZenonT(60) DEF AnswerAsConfigured
<1>3. Promised(a)' <=> Promised(a)
  BY ZenonT(60) DEF Promised
<1>4. AsConfigured(a, o)'
  BY <1>2, <1>3, Zenon DEF AsConfigured
<1> QED
  BY <1>4, Zenon

\* A call is answered, and nothing else happens.
LEMMA Answered ==
  ASSUME DropsInv, NEW a, NEW o, Answers(a, o), AsConfigured(a, o)
  PROVE  DropsInv'
<1>1. /\ lifecycle = "running" /\ got' = [ask |-> a, out |-> o]
      /\ UNCHANGED <<xml, lifecycle, conf, diverted, refused>>
  BY DEF Answers
<1>2. AsConfigured(got.ask, got.out)'
  BY <1>1, StaysConfigured
<1>3. Sections'
  BY <1>1 DEF DropsInv, Sections
<1>4. (lifecycle # "boot" => Configured)'
  BY <1>1 DEF DropsInv, Configured
<1>5. (diverted = Wanted \ refused)'
  BY <1>1 DEF DropsInv, Wanted
<1> QED
  BY <1>1, <1>2, <1>3, <1>4, <1>5 DEF DropsInv

\* The chance of a gem is the section's.
LEMMA ChanceStep ==
  ASSUME DropsInv, NEW gem \in BOOLEAN, OnComputeDropChance(gem)
  PROVE  DropsInv'
<1>1. PICK a, o : /\ a = [kind |-> "gemChance", gem |-> gem]
                  /\ o = IF "gemChance" \in diverted /\ gem THEN conf["gem"].head ELSE Vanilla
                  /\ Answers(a, o)
  BY DEF OnComputeDropChance
<1>2. a.kind = "gemChance" /\ a.gem = gem
  BY <1>1
<1>3. /\ xml.gem \in Section(GemItem) /\ conf["gem"] = ConfigureGemDrops(xml.gem)
      /\ "gemChance" \in diverted <=> conf["gem"].head # Unset /\ "gemChance" \notin refused
  BY <1>1, Running DEF Answers, Sections, Configured
<1>4. conf["gem"].head # Unset <=> RightGem(xml.gem) /\ xml.gem.head # Unset
  BY <1>3, GemKept
<1>5. Promised(a) <=> gem /\ RightGem(xml.gem) /\ xml.gem.head # Unset
  BY <1>2 DEF Promised
<1>6. CASE Promised(a) /\ "gemChance" \notin refused
  <2>1. RightGem(xml.gem) /\ o = conf["gem"].head /\ xml.gem.head # Unset
    BY <1>1, <1>3, <1>4, <1>5, <1>6
  <2>2. o = xml.gem.head
    BY <1>3, <2>1, GemKept
  <2>3. o # Vanilla
    <3>1. xml.gem.head \in 0..100
      BY <2>1 DEF RightGem
    <3> QED
      BY <2>1, <2>2, <3>1, Wordy, Zenon
  <2>4. AsConfigured(a, o)
    BY <1>2, <1>6, <2>2, <2>3 DEF AsConfigured, AnswerAsConfigured
  <2> QED
    BY <1>1, <2>4, Answered
<1>7. CASE ~(Promised(a) /\ "gemChance" \notin refused)
  <2>1. o = Vanilla
    BY <1>1, <1>3, <1>4, <1>5, <1>7
  <2>2. AsConfigured(a, o)
    BY <1>2, <1>7, <2>1 DEF AsConfigured
  <2> QED
    BY <1>1, <2>2, Answered
<1> QED
  BY <1>6, <1>7

\* Every ticket falls to a place.
LEMMA Reached ==
  ASSUME NEW n \in Nat, NEW w \in [1..n -> Nat], NEW t \in 1..Upto(w, n)
  PROVE  \E k \in 1..n : t \in (Upto(w, k - 1) + 1)..Upto(w, k)
<1>1. /\ Upto(w, 0) = 0
      /\ \A k \in 0..n : Upto(w, k) \in Nat
  BY Accrues
<1>2. PICK T : T = {k \in 0..n : t <= Upto(w, k)}
  OBVIOUS
<1>3. Upto(w, n) \in Nat
  BY <1>1
<1>4. n \in T /\ T \subseteq Nat
  BY <1>2, <1>3
<1>5. PICK k \in T : \A j \in T : k <= j
  BY <1>4, LeastOf
<1>6. k # 0
  BY <1>1, <1>2, <1>5
<1>7. k \in 1..n /\ k - 1 \in 0..n /\ k - 1 \notin T
  BY <1>2, <1>5, <1>6
<1>8. Upto(w, k - 1) \in Nat /\ Upto(w, k) \in Nat /\ ~(t <= Upto(w, k - 1)) /\ t <= Upto(w, k)
  BY <1>1, <1>2, <1>5, <1>7
<1> QED
  BY <1>3, <1>7, <1>8

\* So a ticket selects an item of the file.
LEMMA Selected ==
  ASSUME xml.gem \in Section(GemItem), conf["gem"] = Cumulated(xml.gem), xml.gem.items # <<>>,
         \A j \in DOMAIN xml.gem.items : Positive(xml.gem.items[j].weight),
         NEW t \in 1..TotalWeight
  PROVE  \E i \in DOMAIN xml.gem.items : SelectGemItemId(t) = xml.gem.items[i].id
<1>1. PICK s : s = xml.gem
  OBVIOUS
<1>2. /\ s \in Section(GemItem) /\ conf["gem"] = Cumulated(s) /\ s.items # <<>>
      /\ \A j \in DOMAIN s.items : Positive(s.items[j].weight)
  BY <1>1
<1>3. PICK n \in Nat : n = Len(s.items) /\ DOMAIN s.items = 1..n
  BY <1>2 DEF Section
<1>4. PICK w : w = [j \in 1..n |-> s.items[j].weight]
  OBVIOUS
<1>5. w \in [1..n -> Nat]
  <2>1. s.items \in Seq(GemItem)
    BY <1>2 DEF Section
  <2>2. [j \in 1..Len(s.items) |-> s.items[j].weight] \in [1..Len(s.items) -> Nat]
    BY <1>2, <2>1, Weights
  <2> QED
    BY <1>3, <1>4, <2>2
<1>6. n \in 1..n
  <2>1. s.items \in Seq(GemItem) /\ s.items # <<>>
    BY <1>2 DEF Section
  <2>2. Len(s.items) # 0
    BY <2>1, EmptySeq
  <2> QED
    BY <1>3, <2>2
<1>7. TotalWeight = Upto(w, n)
  <2>1. Len(conf["gem"].items) = n /\ conf["gem"].items[n] = [id |-> s.items[n].id, upTo |-> Upto(w, n)]
    BY <1>2, <1>3, <1>4, <1>6, Accumulated
  <2> QED
    BY <2>1 DEF TotalWeight, Seqs!Last
<1>8. PICK k \in 1..n : t \in (Upto(w, k - 1) + 1)..Upto(w, k)
  BY <1>5, <1>7, Reached
<1>9. SelectGemItemId(t) = s.items[k].id
  BY <1>2, <1>3, <1>4, <1>8, Selects
<1> QED
  BY <1>1, <1>3, <1>9

\* The item of a gem is one of the section's.
LEMMA LookupStep ==
  ASSUME DropsInv, NEW site \in BOOLEAN, NEW original \in BOOLEAN, OnItemTypeLookup(site, original)
  PROVE  DropsInv'
<1>0. lifecycle = "running"
  BY DEF OnItemTypeLookup, Answers
<1>1. /\ xml.gem \in Section(GemItem) /\ conf["gem"] = ConfigureGemDrops(xml.gem)
      /\ "gemItem" \in diverted <=> conf["gem"].items # <<>> /\ "gemItem" \notin refused
  BY <1>0, Running DEF Sections, Configured
<1>2. conf["gem"].items # <<>> <=> RightGem(xml.gem) /\ xml.gem.items # <<>>
  BY <1>1, GemKept
<1>3. PICK a : a = [kind |-> "gemItem", gem |-> site /\ original]
  OBVIOUS
<1>4. a.kind = "gemItem" /\ a.gem = (site /\ original)
  BY <1>3
<1>5. Promised(a) <=> site /\ original /\ RightGem(xml.gem) /\ xml.gem.items # <<>>
  BY <1>4 DEF Promised
<1>6. CASE "gemItem" \in diverted /\ site /\ original
  <2>1. PICK t \in 1..TotalWeight : Answers([kind |-> "gemItem", gem |-> TRUE], SelectGemItemId(t))
    BY <1>6 DEF OnItemTypeLookup
  <2>2. PICK o : o = SelectGemItemId(t) /\ Answers(a, o)
    BY <1>3, <1>6, <2>1
  <2>3. Promised(a) /\ "gemItem" \notin refused /\ RightGem(xml.gem) /\ xml.gem.items # <<>>
    BY <1>1, <1>2, <1>5, <1>6
  <2>4. /\ conf["gem"] = Cumulated(xml.gem)
        /\ \A j \in DOMAIN xml.gem.items : Positive(xml.gem.items[j].weight)
    BY <1>1, <2>3, GemKept
  <2>5. PICK i \in DOMAIN xml.gem.items : o = xml.gem.items[i].id
    BY <1>1, <2>2, <2>3, <2>4, Selected
  <2>6. o # Vanilla
    BY <2>3, <2>5, DropAssumption DEF RightGem, Counts
  <2>7. AsConfigured(a, o)
    BY <1>4, <2>3, <2>5, <2>6 DEF AsConfigured, AnswerAsConfigured
  <2> QED
    BY <2>2, <2>7, Answered
<1>7. CASE ~("gemItem" \in diverted /\ site /\ original)
  <2>1. Answers(a, Vanilla)
    BY <1>3, <1>7 DEF OnItemTypeLookup
  <2>2. ~(Promised(a) /\ "gemItem" \notin refused)
    BY <1>1, <1>2, <1>5, <1>7
  <2>3. AsConfigured(a, Vanilla)
    BY <1>4, <2>2 DEF AsConfigured
  <2> QED
    BY <2>1, <2>3, Answered
<1> QED
  BY <1>6, <1>7

\* A dig awards what the section says, or nothing is awarded beside it.
LEMMA TunnelStep ==
  ASSUME DropsInv, NEW site \in BOOLEAN, NEW added \in BOOLEAN, NEW m \in Yields,
         OnAddTunnelMaterials(site, added, m)
  PROVE  DropsInv'
<1>0. lifecycle = "running"
  BY Zenon DEF OnAddTunnelMaterials, AwardTunnelDrop, Answers
<1>1. PICK a : a = [kind |-> "tunnel", dug |-> site /\ added, materials |-> m]
  OBVIOUS
<1>2. a.kind = "tunnel" /\ a.materials = m /\ a.dug = (site /\ added)
  BY <1>1
<1>5. /\ xml.tunnel \in Section(TunnelItem) /\ conf["tunnel"] = ConfigureTunnelDrops(xml.tunnel)
      /\ "tunnel" \in diverted <=> conf["tunnel"].enabled /\ "tunnel" \notin refused
  BY <1>0, Running DEF Sections, Configured
<1>6. conf["tunnel"].enabled <=> RightTunnel(xml.tunnel)
  BY <1>5, TunnelKept
<1>7. Promised(a) <=> site /\ added /\ RightTunnel(xml.tunnel)
  BY <1>2 DEF Promised
<1>3. CASE "tunnel" \in diverted /\ added /\ site
  <2>1. AwardTunnelDrop(a, m)
    BY <1>1, <1>3 DEF OnAddTunnelMaterials
  <2>2. conf["tunnel"].enabled
    BY <1>3, <1>5
  <2>3. m \in Seq(Material)
    BY DropAssumption DEF Material
  <2>4. /\ got'.ask = a /\ got'.out \in Awards
        /\ \A x \in got'.out.awarded : AwardAsConfigured(x, m)
        /\ \A i \in DOMAIN xml.tunnel.items :
             xml.tunnel.items[i].chance = 100 =>
               \E x \in got'.out.awarded : x.id = xml.tunnel.items[i].id
    BY <1>5, <2>1, <2>2, <2>3, Awarding
  <2>5. \E o : Answers(a, o)
    BY <2>1, Zenon DEF AwardTunnelDrop
  <2>6. PICK o : Answers(a, o) /\ got' = [ask |-> a, out |-> o]
    BY <2>5 DEF Answers
  <2>7. o = got'.out
    BY <2>6
  <2>8. o # Vanilla
    BY <2>4, <2>7, DropAssumption
  <2>9. AsConfigured(a, o)
    <3>1. Promised(a) /\ "tunnel" \notin refused
      BY <1>3, <1>5, <1>6, <1>7
    <3> QED
      BY <1>2, <2>4, <2>7, <2>8, <3>1 DEF AsConfigured, AnswerAsConfigured
  <2> QED
    BY <2>6, <2>9, Answered
<1>4. CASE ~("tunnel" \in diverted /\ added /\ site)
  <2>1. Answers(a, Vanilla)
    BY <1>1, <1>4 DEF OnAddTunnelMaterials
  <2>2. ~(Promised(a) /\ "tunnel" \notin refused)
    BY <1>4, <1>5, <1>6, <1>7
  <2>3. AsConfigured(a, Vanilla)
    BY <1>2, <2>2 DEF AsConfigured
  <2> QED
    BY <2>1, <2>3, Answered
<1> QED
  BY <1>3, <1>4

\* A tree drops the item of its type.
LEMMA FellStep ==
  ASSUME DropsInv, NEW type, FellTree(type)
  PROVE  DropsInv'
<1>1. PICK a, o : /\ a = [kind |-> "tree", type |-> type]
                  /\ o = IF "tree" \in diverted THEN TreeDrop(conf["tree"].items, type) ELSE Vanilla
                  /\ Answers(a, o)
  BY DEF FellTree
<1>2. a.kind = "tree" /\ a.type = type
  BY <1>1
<1>5. PICK s, c : s = xml.tree /\ c = conf["tree"]
  OBVIOUS
<1>6. /\ s \in Section(TreeItem) /\ c = ConfigureTreeDrops(s)
      /\ "tree" \in diverted <=> c.enabled /\ "tree" \notin refused
  BY <1>1, <1>5, Running DEF Answers, Sections, Configured
<1>7. Promised(a) <=> RightTree(s) /\ \E i \in DOMAIN s.items : s.items[i].type = type
  BY <1>2, <1>5 DEF Promised
<1>3. CASE "tree" \notin diverted
  <2>1. o = Vanilla
    BY <1>1, <1>3
  <2>2. ~(RightTree(s) /\ "tree" \notin refused)
    BY <1>3, <1>6, TreeKept
  <2>3. AsConfigured(a, o)
    BY <1>2, <1>7, <2>1, <2>2 DEF AsConfigured
  <2> QED
    BY <1>1, <2>3, Answered
<1>4. CASE "tree" \in diverted
  <2>1. c.enabled /\ "tree" \notin refused
    BY <1>4, <1>6
  <2>2. /\ RightTree(s)
        /\ \E n \in Nat :
             /\ DOMAIN s.items = 1..n
             /\ \A i \in 1..n : /\ s.items[i].id \in Nat
                                /\ s.items[i] = [type |-> s.items[i].type, id |-> s.items[i].id]
             /\ SameItems(c.items, s.items, n)
    BY <1>6, <2>1, TreeKept
  <2>3. PICK n \in Nat : /\ DOMAIN s.items = 1..n
                         /\ \A i \in 1..n : /\ s.items[i].id \in Nat
                                            /\ s.items[i] = [type |-> s.items[i].type, id |-> s.items[i].id]
                         /\ SameItems(c.items, s.items, n)
    BY <2>2
  <2>5. PICK items : items = c.items
    OBVIOUS
  <2>6. /\ DOMAIN items = 1..n
        /\ \A i \in 1..n : \E k \in 1..n : items[i] = s.items[k]
        /\ \A k \in 1..n : \E i \in 1..n : items[i] = s.items[k]
    BY <2>3, <2>5 DEF SameItems
  <2>7. \A i \in 1..n : items[i].id \in Nat
    <3> TAKE i \in 1..n
    <3>1. PICK k \in 1..n : items[i] = s.items[k]
      BY <2>6
    <3> QED
      BY <2>3, <3>1
  <2>8. o = TreeDrop(items, type)
    BY <1>1, <1>4, <1>5, <2>5
  <2>9. \/ o = Vanilla /\ \A i \in 1..n : items[i].type # type
        \/ \E i \in 1..n : items[i].type = type /\ o = items[i].id
    <3>1. Items(items, n)
      BY <2>6, <2>7 DEF Items
    <3> QED
      BY <2>8, <3>1, Dropped
  <2>10. CASE o = Vanilla /\ \A i \in 1..n : items[i].type # type
    <3>1. ASSUME NEW k \in 1..n PROVE s.items[k].type # type
      <4>1. PICK i \in 1..n : items[i] = s.items[k]
        BY <2>6
      <4> QED
        BY <2>10, <4>1
    <3>2. ~Promised(a)
      BY <1>7, <2>3, <3>1
    <3>3. AsConfigured(a, o)
      BY <2>10, <3>2 DEF AsConfigured
    <3> QED
      BY <1>1, <3>3, Answered
  <2>11. ASSUME NEW i \in 1..n, items[i].type = type, o = items[i].id PROVE DropsInv'
    <3>1. PICK k \in 1..n : items[i] = s.items[k]
      BY <2>6
    <3>2. s.items[k] = [type |-> s.items[k].type, id |-> s.items[k].id] /\ s.items[k].type = type /\ s.items[k].id = o
      BY <2>3, <2>11, <3>1
    <3>3. s.items[k] = [type |-> a.type, id |-> o] /\ k \in DOMAIN s.items
      BY <1>2, <2>3, <3>2
    <3>4. o # Vanilla
      BY <2>7, <2>11, DropAssumption
    <3>5. Promised(a)
      BY <1>7, <2>2, <3>2, <3>3
    <3>6. AsConfigured(a, o)
      BY <1>2, <1>5, <2>1, <3>3, <3>4, <3>5 DEF AsConfigured, AnswerAsConfigured
    <3> QED
      BY <1>1, <3>6, Answered
  <2> QED
    BY <2>9, <2>10, <2>11
<1> QED
  BY <1>3, <1>4

\* The recipe is one for the tool, the skill and the material.
LEMMA RecipeStep ==
  ASSUME DropsInv, NEW site \in BOOLEAN, NEW skill, NEW tool, NEW material,
         OnFindRecipeForMaterial(site, skill, tool, material)
  PROVE  DropsInv'
<1>1. PICK node : node = FindMatchingRecipeNode(skill, tool, material)
  OBVIOUS
<1>2. PICK a, o :
        /\ a = [kind |-> "tools", site |-> site, skill |-> skill, tool |-> tool, material |-> material]
        /\ o = IF "tools" \in diverted /\ site /\ tool \in Seqs!ToSet(conf["tools"].items) /\ node # 0
               THEN Recipes[node] ELSE Vanilla
        /\ Answers(a, o)
  BY <1>1 DEF OnFindRecipeForMaterial
<1>3. a.kind = "tools" /\ a.site = site /\ a.skill = skill /\ a.tool = tool /\ a.material = material
  BY <1>2
<1>4. /\ xml.tools \in Section(Attribute) /\ conf["tools"] = ConfigureRecipeStartingTools(xml.tools)
      /\ "tools" \in diverted <=> conf["tools"].enabled /\ "tools" \notin refused
  BY <1>2, Running DEF Answers, Sections, Configured
<1>5. IF RightTools(xml.tools) THEN conf["tools"] = xml.tools /\ conf["tools"].enabled ELSE ~conf["tools"].enabled
  BY <1>4, ToolsKept
<1>6. IF \E r \in Seqs!ToSet(Recipes) : Suits(r, a)
      THEN node # 0 /\ Recipes[node] \in Seqs!ToSet(Recipes) /\ Suits(Recipes[node], a)
      ELSE node = 0
  BY <1>1, <1>3, NodeFound
<1>7. Promised(a) <=> /\ site /\ RightTools(xml.tools) /\ tool \in Seqs!ToSet(xml.tools.items)
                      /\ \E r \in Seqs!ToSet(Recipes) : Suits(r, a)
  BY <1>3 DEF Promised
<1>8. CASE Promised(a) /\ "tools" \notin refused
  <2>1. o = Recipes[node] /\ o \in Seqs!ToSet(Recipes) /\ Suits(o, a)
    BY <1>2, <1>4, <1>5, <1>6, <1>7, <1>8
  <2>2. o # Vanilla
    BY <2>1, DropAssumption
  <2>3. AsConfigured(a, o)
    BY <1>3, <1>8, <2>1, <2>2 DEF AsConfigured, AnswerAsConfigured
  <2> QED
    BY <1>2, <2>3, Answered
<1>9. CASE ~(Promised(a) /\ "tools" \notin refused)
  <2>1. ~("tools" \in diverted /\ site /\ tool \in Seqs!ToSet(conf["tools"].items) /\ node # 0)
    BY <1>4, <1>5, <1>6, <1>7, <1>9
  <2>2. o = Vanilla
    BY <1>2, <2>1
  <2>3. AsConfigured(a, o)
    BY <1>3, <1>9, <2>2 DEF AsConfigured
  <2> QED
    BY <1>2, <2>3, Answered
<1> QED
  BY <1>8, <1>9

\* Before the first call nothing is promised.
LEMMA Uncalled == got' = NoCall => AsConfigured(got.ask, got.out)'
BY DEF NoCall, AsConfigured, Promised

\* The sections are read while no hook runs.
LEMMA ConfigureStep ==
  ASSUME DropsInv, Configure
  PROVE  DropsInv'
<1>1. lifecycle = "boot" /\ lifecycle' = "ready" /\ xml' = xml /\ diverted' = {} /\ got' = NoCall
  BY DEF DropsInv, Configure
<1>2. Sections'
  BY <1>1 DEF DropsInv, Sections
<1>3. Configured'
  BY <1>1 DEF Configure, Configured
<1>4. AsConfigured(got.ask, got.out)'
  BY <1>1, Uncalled
<1> QED
  BY <1>1, <1>2, <1>3, <1>4 DEF DropsInv

\* The hooks that are wanted and taken run.
LEMMA AttachStep ==
  ASSUME DropsInv, NEW fitting, NEW committed, AttachHooks(fitting, committed)
  PROVE  DropsInv'
<1>1. /\ lifecycle = "ready" /\ lifecycle' = "running" /\ xml' = xml /\ conf' = conf /\ got' = NoCall
      /\ diverted' = Wanted \ refused'
  BY DEF DropsInv, AttachHooks
<1>2. Sections' /\ Configured'
  BY <1>1 DEF DropsInv, Sections, Configured
<1>3. (diverted = Wanted \ refused)'
  BY <1>1 DEF Wanted
<1>4. AsConfigured(got.ask, got.out)'
  BY <1>1, Uncalled
<1> QED
  BY <1>1, <1>2, <1>3, <1>4 DEF DropsInv

\* Every step keeps the invariant.
LEMMA DropsStep ==
  ASSUME DropsInv, [DropsNext]_dropVars
  PROVE  DropsInv'
<1>1. CASE UNCHANGED dropVars
  <2>1. UNCHANGED <<xml, lifecycle, conf, diverted, refused, got>>
    BY <1>1 DEF dropVars
  <2>2. Sections' /\ (lifecycle # "boot" => Configured)'
    BY <2>1 DEF DropsInv, Sections, Configured
  <2>3. (IF lifecycle = "running" THEN diverted = Wanted \ refused ELSE diverted = {} /\ got = NoCall)'
    BY <2>1 DEF DropsInv, Wanted
  <2>4. AsConfigured(got.ask, got.out)'
    <3>1. AsConfigured(got.ask, got.out)
      BY DEF DropsInv
    <3>2. got'.ask = got.ask /\ got'.out = got.out /\ UNCHANGED <<xml, refused>>
      BY <2>1
    <3> QED
      BY <3>1, <3>2, StaysConfigured
  <2> QED
    BY <2>2, <2>3, <2>4 DEF DropsInv
<1>2. CASE Configure
  BY <1>2, ConfigureStep
<1>3. ASSUME NEW fitting, NEW committed, AttachHooks(fitting, committed) PROVE DropsInv'
  BY <1>3, AttachStep
<1>4. ASSUME NEW gem \in BOOLEAN, OnComputeDropChance(gem) PROVE DropsInv'
  BY <1>4, ChanceStep
<1>5. ASSUME NEW site \in BOOLEAN, NEW original \in BOOLEAN, OnItemTypeLookup(site, original) PROVE DropsInv'
  BY <1>5, LookupStep
<1>6. ASSUME NEW site \in BOOLEAN, NEW added \in BOOLEAN, NEW m \in Yields,
             OnAddTunnelMaterials(site, added, m)
      PROVE  DropsInv'
  BY <1>6, TunnelStep
<1>7. ASSUME NEW type, FellTree(type) PROVE DropsInv'
  BY <1>7, FellStep
<1>8. ASSUME NEW site \in BOOLEAN, NEW skill, NEW tool, NEW material,
             OnFindRecipeForMaterial(site, skill, tool, material)
      PROVE  DropsInv'
  BY <1>8, RecipeStep
<1> QED
  BY <1>1, <1>2, <1>3, <1>4, <1>5, <1>6, <1>7, <1>8 DEF DropsNext

\* A call gets the answer the file has for it if the section is right and the engine
\* took the hook, and the engine's own if not; no ticket for a gem is worth more than
\* another: of any sections, any yields, any recipes.
THEOREM DropsFollowTheFile == DropsSpec => []DropsAsConfigured
<1>1. DropsInit => DropsInv
  <2> SUFFICES ASSUME DropsInit PROVE DropsInv
    OBVIOUS
  <2>1. lifecycle = "boot" /\ diverted = {} /\ got = NoCall
    BY DEF DropsInit
  <2>2. AsConfigured(got.ask, got.out)
    BY <2>1 DEF NoCall, AsConfigured, Promised
  <2> QED
    BY <2>1, <2>2, SectionsAtInit DEF DropsInv
<1>2. DropsInv /\ [DropsNext]_dropVars => DropsInv'
  BY DropsStep
<1>3. DropsInv => DropsAsConfigured
  <2> SUFFICES ASSUME DropsInv PROVE DropsAsConfigured
    OBVIOUS
  <2>1. CASE lifecycle # "running"
    BY <2>1 DEF DropsInv, DropsAsConfigured, FairTickets
  <2>2. CASE lifecycle = "running"
    <3>1. xml.gem \in Section(GemItem) /\ conf["gem"] = ConfigureGemDrops(xml.gem) /\ diverted \subseteq Wanted
      BY <2>2, Running DEF Sections, Configured, DropsInv
    <3>2. FairTickets
      BY <3>1, Fair
    <3> QED
      BY <3>2 DEF DropsInv, DropsAsConfigured
  <2> QED
    BY <2>1, <2>2
<1> QED
  BY <1>1, <1>2, <1>3, PTL DEF DropsSpec
=============================================================================
