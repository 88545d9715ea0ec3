----------------------------- MODULE SecretFile -----------------------------
(* read_secret_line: one pass over a secret file that others may replace   *)
(* or write meanwhile.  A byte is what the rules tell apart: printable      *)
(* text, the terminators, and a byte that is not UTF-8.                      *)
EXTENDS Naturals, Sequences, SequencesExt, FiniteSets

CONSTANTS
  MaxBytes,      \* MAX_SECRET_FILE_BYTES
  Contents,      \* what a secret file may hold
  Replacements,  \* what it is replaced with
  MaxEdits       \* bound on replacements and rewrites

ASSUME SecretFileAssumption == MaxBytes \in Nat \ {0} /\ MaxEdits \in Nat
ASSUME ContentsAssumption == Contents \cup Replacements \subseteq Seq(STRING)

-----------------------------------------------------------------------------
(* The rules for bytes. *)

Terminators == {"CR", "LF"}
NotUtf8 == "xFF"

Refused(why) == [ok |-> FALSE, why |-> why, secret |-> <<>>]
Accepted(s)  == [ok |-> TRUE, why |-> "none", secret |-> s]

StripOneLF(s) == IF s # <<>> /\ Last(s) = "LF" THEN Front(s) ELSE s

(* The passphrase rule: one trailing LF is stripped, and nothing else that  *)
(* ends a line is let through.                                              *)
LineRule(bytes) ==
  LET s == StripOneLF(bytes)
  IN  CASE Contains(bytes, NotUtf8) -> Refused("NotUtf8")
        [] Contains(s, "CR")        -> Refused("CarriageReturn")
        [] Contains(s, "LF")        -> Refused("MultiLine")
        [] OTHER                    -> Accepted(s)

(* FileSource::read: an empty passphrase file is an error. *)
FileSourceRule(bytes) ==
  LET r == LineRule(bytes) IN IF r.ok /\ r.secret = <<>> THEN Refused("FileEmpty") ELSE r

-----------------------------------------------------------------------------
(* The file and its reader. *)

Inodes == 0 .. MaxEdits + 1
Absent == 0                      \* the path leads nowhere, or may not be opened

VARIABLES
  inode,      \* [Inodes -> kind, loose mode, bytes]
  path,       \* the inode the path leads to
  written,    \* inodes written in place, of which no reader can expect a whole
  edits,      \* how often somebody edited
  rpc, fd,    \* the reader and the inode it has open
  buf,        \* what it has read
  warned,     \* whether it warned of a mode that lets others read
  answer,     \* what it returned
  found       \* history: what the file held when it was opened

reader == <<rpc, fd, buf, warned, answer, found>>
disk   == <<inode, path, written, edits>>

Kinds == {"file", "fifo", "dir", "missing", "denied"}
File(kind, loose, bytes) == [kind |-> kind, loose |-> loose, bytes |-> bytes]
NoFile == File("missing", FALSE, <<>>)
Pending == Refused("pending")

FileInit ==
  /\ \E f \in [kind : {"file"}, loose : BOOLEAN, bytes : Contents]
             \cup [kind : {"fifo"}, loose : {FALSE}, bytes : Contents]
             \cup {File(k, FALSE, <<>>) : k \in {"dir", "missing", "denied"}} :
       inode = [i \in Inodes |-> IF i = 1 THEN f ELSE NoFile]
  /\ path = 1 /\ written = {} /\ edits = 0
  /\ rpc = "open" /\ fd = Absent /\ buf = <<>>
  /\ warned = FALSE /\ answer = Pending /\ found = <<>>

Return(a) == rpc' = "done" /\ answer' = a

(* File::open, its errors classified. *)
Open ==
  /\ rpc = "open" /\ UNCHANGED <<buf, warned, disk>>
  /\ LET k == inode[path].kind
     IN  IF k \in {"missing", "denied"} THEN Return(Refused(k)) /\ UNCHANGED <<fd, found>>
         ELSE rpc' = "fstat" /\ fd' = path /\ found' = inode[path].bytes /\ UNCHANGED answer

(* fstat on the descriptor: a directory is refused, and a regular file that *)
(* is too large; the length of a pipe says nothing.  A regular file that    *)
(* others may read is warned of.  fstat may fail.                           *)
Fstat ==
  /\ rpc = "fstat" /\ UNCHANGED <<fd, buf, found, disk>>
  /\ LET f == inode[fd]
     IN  \/ /\ f.kind = "dir" /\ Return(Refused("IsDirectory")) /\ UNCHANGED warned
         \/ /\ f.kind = "file" /\ Len(f.bytes) > MaxBytes
            /\ Return(Refused("TooLarge")) /\ UNCHANGED warned
         \/ /\ f.kind = "fifo" \/ (f.kind = "file" /\ Len(f.bytes) <= MaxBytes)
            /\ rpc' = "read" /\ warned' = (f.kind = "file" /\ f.loose) /\ UNCHANGED answer
         \/ Return(Refused("Io")) /\ UNCHANGED warned

(* What is left of an open file; a pipe gives its bytes once. *)
Rest == IF inode[fd].kind = "fifo" THEN inode[fd].bytes
        ELSE SubSeq(inode[fd].bytes, Len(buf) + 1, Len(inode[fd].bytes))

(* FAULTY: one call of read is taken for the whole. *)
ReadOnce ==
  /\ rpc = "read" /\ UNCHANGED <<fd, warned, found, path, written, edits>>
  /\ \E k \in 0 .. Len(Rest) :
       /\ (k = 0 => Rest = <<>>) /\ k <= MaxBytes + 1
       /\ buf' = SubSeq(Rest, 1, k)
       /\ rpc' = "rules" /\ UNCHANGED <<inode, answer>>

(* The loop: any part of what is there, until the end of the file or until  *)
(* the buffer, which has room for one byte too many, is full.  EINTR is     *)
(* another round; another error ends it.                                    *)
ReadChunk ==
  /\ rpc = "read" /\ UNCHANGED <<fd, warned, found, path, written, edits>>
  /\ \/ Return(Refused("Io")) /\ UNCHANGED <<buf, inode>>
     \/ /\ Rest = <<>> \/ Len(buf) = MaxBytes + 1
        /\ rpc' = "rules" /\ UNCHANGED <<buf, answer, inode>>
     \/ \E k \in 1 .. Len(Rest) :
          /\ Len(buf) + k <= MaxBytes + 1
          /\ buf' = buf \o SubSeq(Rest, 1, k)
          /\ inode' = IF inode[fd].kind = "fifo"
                      THEN [inode EXCEPT ![fd].bytes = SubSeq(@, k + 1, Len(@))] ELSE inode
          /\ UNCHANGED <<rpc, answer>>

(* The cap, and the rule of the caller. *)
Judge(Rule(_)) ==
  /\ rpc = "rules" /\ UNCHANGED <<fd, buf, warned, found, disk>>
  /\ Return(IF Len(buf) > MaxBytes THEN Refused("TooLarge") ELSE Rule(buf))

-----------------------------------------------------------------------------
(* Others.  What they do after the file was read is not seen by anybody.    *)

Editing == rpc # "done" /\ edits < MaxEdits /\ edits' = edits + 1 /\ UNCHANGED reader

(* A new file is renamed over the path, or takes the place of a missing one.*)
Replace ==
  /\ Editing /\ UNCHANGED written
  /\ \E bytes \in Replacements, loose \in BOOLEAN :
       inode' = [inode EXCEPT ![edits + 2] = File("file", loose, bytes)]
  /\ path' = edits + 2

(* The file is truncated and written through its inode. *)
WriteInPlace ==
  /\ Editing /\ inode[path].kind = "file" /\ UNCHANGED path
  /\ written' = written \cup {path}
  /\ \E bytes \in Replacements \cup {<<>>} : inode' = [inode EXCEPT ![path].bytes = bytes]

Edit == Replace \/ WriteInPlace
=============================================================================
