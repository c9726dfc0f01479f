--------------------------- MODULE EncryptedFiles ---------------------------
(***************************************************************************)
(* Encrypted asset files: the hooks of FileStream (hooks/engine/             *)
(* hook_filestream.cpp; client/hook_filestream.cpp is its twin), the table   *)
(* of decrypted streams (core/crypto/lfxe_filestream.cpp) and the container  *)
(* (lfxe_decrypt.cpp, lfxe_format.h).  Bytes are counted, not computed: a    *)
(* content is a file, whether it is deciphered, and a length.                *)
(***************************************************************************)
EXTENDS Integers

CONSTANTS
  Streams,    \* addresses of FileStream objects, used again and again
  Files,      \* records: len, magic, header (it is one this code supports), key
  HeaderSize, ReadSizes, Closed

Raw(f)   == [file |-> f, clear |-> FALSE, len |-> f.len]
Clear(f) == [file |-> f, clear |-> TRUE, len |-> f.len - HeaderSize]

\* Closed is none of the values that stand for what is open.
ASSUME FilesAssumption ==
  /\ HeaderSize \in Nat /\ ReadSizes \subseteq Nat
  /\ Closed \notin Files
  /\ \A f \in Files : /\ f.len \in Nat
                      /\ f.magic => f.len >= 1
                      /\ f.header => f.magic /\ f.len >= HeaderSize
                      /\ Closed \notin {Raw(f), Clear(f)}
                      /\ \A p \in 0..f.len :
                           Closed # [of |-> f, len |-> f.len - HeaderSize, pos |-> p]

VARIABLES
  file,   \* the file the engine has open in a stream, and whether to read it
  rawPos, \* the engine's own position
  plain,  \* gMap: length and position of the plaintext; Closed without an entry
  answer  \* what the last read returned to the engine

fileVars == <<file, rawPos, plain, answer>>

FilesInit ==
  /\ file   = [s \in Streams |-> Closed]
  /\ rawPos = [s \in Streams |-> 0]
  /\ plain  = [s \in Streams |-> Closed]
  /\ answer = Closed
-----------------------------------------------------------------------------
ParseHeader(f) == f.len >= HeaderSize /\ f.magic /\ f.header

\* TryDecryptAsset: the result, and the length of the plaintext with "Ok".
TryDecryptAsset(f) ==
  IF ~f.magic THEN "NotEncrypted"
  ELSE IF ~ParseHeader(f) THEN "BadHeader"
  ELSE IF ~f.key THEN "NoKey" ELSE "Ok"

SlipStaleEntry(s, f, readable) ==
  IF f.len >= HeaderSize /\ f.magic /\ readable /\ TryDecryptAsset(f) = "Ok"
  THEN [plain EXCEPT ![s] = [of |-> f, len |-> f.len - HeaderSize, pos |-> 0]]
  ELSE plain

\* FsRegisterIfEncrypted for a stream that reads f: the entry it leaves.  It
\* clears a stale one first; readable says whether the engine can read the file.
FsRegisterIfEncrypted(s, f, readable) ==
  IF f.len >= HeaderSize /\ f.magic /\ readable /\ TryDecryptAsset(f) = "Ok"
  THEN [plain EXCEPT ![s] = [of |-> f, len |-> f.len - HeaderSize, pos |-> 0]]
  ELSE [plain EXCEPT ![s] = Closed]

FsUnregister(s) == [plain EXCEPT ![s] = Closed]

\* FileStream_OnOpen of a stream that may be in use; mode 0 is reading.
OnOpen(s, f, ok, mode, readable) ==
  /\ file'   = [file EXCEPT ![s] = IF ok /\ mode = 0 THEN f ELSE Closed]
  /\ rawPos' = [rawPos EXCEPT ![s] = 0]
  /\ plain'  = IF ok /\ mode = 0 THEN FsRegisterIfEncrypted(s, f, readable) ELSE FsUnregister(s)
  /\ answer' = Closed

Fewer(m, n) == IF m <= n THEN m ELSE n

\* FsTryRead: a short read at the end of the plaintext is not full.
FsTryRead(s, n) ==
  LET take == Fewer(n, plain[s].len - plain[s].pos) IN
  /\ plain' = [plain EXCEPT ![s].pos = @ + take]
  /\ answer' = [of |-> Clear(plain[s].of), from |-> plain[s].pos, take |-> take, full |-> take = n]
  /\ UNCHANGED <<file, rawPos>>

\* External: the engine reads the file itself.
EngineRead(s, n) ==
  LET take == Fewer(n, file[s].len - rawPos[s]) IN
  /\ rawPos' = [rawPos EXCEPT ![s] = @ + take]
  /\ answer' = [of |-> Raw(file[s]), from |-> rawPos[s], take |-> take, full |-> take = n]
  /\ UNCHANGED <<file, plain>>

OnRead(s, n) ==
  /\ file[s] # Closed
  /\ IF plain[s] # Closed THEN FsTryRead(s, n) ELSE EngineRead(s, n)

\* FileStream_OnSetPosition: the stream that answers refuses what is past its end.
OnSetPosition(s, p) ==
  /\ file[s] # Closed
  /\ answer' = Closed
  /\ IF plain[s] # Closed
     THEN /\ plain' = IF p > plain[s].len THEN plain ELSE [plain EXCEPT ![s].pos = p]
          /\ UNCHANGED rawPos
     ELSE /\ rawPos' = IF p > file[s].len THEN rawPos ELSE [rawPos EXCEPT ![s] = p]
          /\ UNCHANGED plain
  /\ UNCHANGED file

\* FileStream_OnGetPosition and FileStream_OnGetStreamSize
OnGetPosition(s)   == IF plain[s] # Closed THEN plain[s].pos ELSE rawPos[s]
OnGetStreamSize(s) == IF plain[s] # Closed THEN plain[s].len ELSE file[s].len

OnDtor(s) ==
  /\ file[s] # Closed
  /\ plain'  = FsUnregister(s)
  /\ file'   = [file EXCEPT ![s] = Closed]
  /\ rawPos' = [rawPos EXCEPT ![s] = 0]
  /\ answer' = Closed

FilesNext ==
  \E s \in Streams :
    \/ \E f \in Files, ok, readable \in BOOLEAN, mode \in {0, 1} : OnOpen(s, f, ok, mode, readable)
    \/ \E n \in ReadSizes : OnRead(s, n)
    \/ \E p \in 0..(HeaderSize + 2) : OnSetPosition(s, p)
    \/ OnDtor(s)

FilesSpec == FilesInit /\ [][FilesNext]_fileVars
-----------------------------------------------------------------------------
FilesTypeOK ==
  /\ file \in [Streams -> Files \cup {Closed}]
  /\ \A s \in Streams :
       /\ file[s] # Closed => rawPos[s] \in 0..file[s].len
       /\ plain[s] # Closed => plain[s].of \in Files /\ plain[s].pos \in 0..plain[s].len

\* What the engine sees of a stream through the hooks.
Seen(s) ==
  IF file[s] = Closed THEN Closed
  ELSE [file |-> file[s], clear |-> plain[s] # Closed, len |-> OnGetStreamSize(s)]

\* A file that decrypts shows its plaintext, unless the engine failed to read it.
Shows(f) == IF TryDecryptAsset(f) = "Ok" THEN {Clear(f), Raw(f)} ELSE {Raw(f)}

Plain == INSTANCE PlainStreams WITH
           MayShow <- Shows,
           view    <- [s \in Streams |-> Seen(s)],
           pos     <- [s \in Streams |-> OnGetPosition(s)],
           result  <- answer

\* "we own reads now": size, position and bytes of a stream all come from one
\* content from open to close, also when the object of a closed stream is opened
\* again on another file.
ReadsAsPlain == Plain!Spec
=============================================================================
