--------------------------- MODULE TtyPromptProofs ---------------------------
(* Theorems about TtyPrompt and SecretFile: what is read from a secret file *)
(* of any length, edited any number of times, and the echo of the terminal  *)
(* for any number of pubkeys.                                               *)
EXTENDS TtyPrompt, SequenceTheorems, TLAPS

Bytes == STRING

-----------------------------------------------------------------------------
(* The rules for bytes. *)

(* What the rule for lines lets through is the bytes, at most one LF at the *)
(* end less, and none of those left ends a line or is not UTF-8.            *)
LEMMA RuleKeepsLine ==
  ASSUME NEW b \in Seq(Bytes), FileSourceRule(b).ok
  PROVE  LET s == FileSourceRule(b).secret
         IN  /\ s \in Seq(Bytes) /\ s # <<>> /\ b \in {s, Append(s, "LF")}
             /\ ToSet(s) \cap (Terminators \cup {NotUtf8}) = {}
<1> DEFINE s == StripOneLF(b)
<1>1. LineRule(b).ok /\ FileSourceRule(b) = LineRule(b)
  BY DEF FileSourceRule, Refused
<1>2. ~Contains(b, NotUtf8) /\ ~Contains(s, "CR") /\ ~Contains(s, "LF")
  BY <1>1 DEF LineRule, Refused
<1>3. LineRule(b) = Accepted(s)
  BY <1>2 DEF LineRule
<1>4. FileSourceRule(b).secret = s /\ s # <<>>
  BY <1>1, <1>3 DEF Accepted, FileSourceRule, Refused
<1>5. CASE b # <<>> /\ Last(b) = "LF"
  <2>1. s = SubSeq(b, 1, Len(b) - 1) /\ Len(b) \in Nat \ {0} /\ b[Len(b)] = "LF"
    BY <1>5 DEF StripOneLF, Front, Last
  <2> HIDE DEF s
  <2>2. \A i \in 1 .. Len(b) - 1 : b[i] \in Bytes
    BY <2>1
  <2>3. /\ s \in Seq(Bytes) /\ Len(s) = Len(b) - 1
        /\ \A i \in 1 .. Len(b) - 1 : s[i] = b[i]
    <3>1. 1 \in Int /\ Len(b) - 1 \in Int /\ (Len(b) - 1) - 1 + 1 = Len(b) - 1
      BY <2>1
    <3>2. /\ SubSeq(b, 1, Len(b) - 1) \in Seq(Bytes)
          /\ Len(SubSeq(b, 1, Len(b) - 1)) = IF 1 <= Len(b) - 1 THEN Len(b) - 1 - 1 + 1 ELSE 0
          /\ \A i \in 1 .. Len(b) - 1 - 1 + 1 : SubSeq(b, 1, Len(b) - 1)[i] = b[1 + i - 1]
      BY <3>1, <2>2, SubSeqProperties
    <3>3. \A i \in 1 .. Len(b) - 1 : 1 + i - 1 = i
      OBVIOUS
    <3> QED
      BY <2>1, <3>1, <3>2, <3>3
  <2>4. b = Append(s, "LF")
    BY <2>1, <2>3 DEF Bytes
  <2>5. NotUtf8 \notin ToSet(s) /\ "CR" \notin ToSet(s) /\ "LF" \notin ToSet(s)
    BY <1>2, <2>3 DEF ToSet, Contains
  <2> QED
    BY <1>4, <2>3, <2>4, <2>5 DEF Terminators
<1>6. CASE ~(b # <<>> /\ Last(b) = "LF")
  <2>1. s = b
    BY <1>6 DEF StripOneLF
  <2>2. NotUtf8 \notin ToSet(b) /\ "CR" \notin ToSet(b) /\ "LF" \notin ToSet(b)
    BY <1>2, <2>1 DEF ToSet, Contains
  <2> QED
    BY <1>4, <2>1, <2>2 DEF Terminators
<1> QED
  BY <1>5, <1>6

-----------------------------------------------------------------------------
(* The file and its reader. *)

FileTyped ==
  /\ inode \in [Inodes -> [kind : Kinds, loose : BOOLEAN, bytes : Seq(Bytes)]]
  /\ \A i \in Inodes : inode[i].loose => inode[i].kind = "file"
  /\ edits \in 0 .. MaxEdits /\ path \in 1 .. edits + 1 /\ fd \in 0 .. edits + 1
  /\ written \subseteq 1 .. edits + 1
  /\ \A i \in written : inode[i].kind = "file"
  /\ rpc \in {"open", "fstat", "read", "rules", "done"}
  /\ buf \in Seq(Bytes) /\ Len(buf) <= MaxBytes + 1 /\ found \in Seq(Bytes)
  /\ warned \in BOOLEAN

(* What is in the buffer is the beginning of what the file held when it was *)
(* opened; a pipe holds the rest.                                           *)
BufferIsPrefix ==
  /\ rpc \in {"open", "fstat"} => buf = <<>>
  /\ rpc \in {"fstat", "read", "rules"} /\ fd \notin written =>
       /\ inode[fd].kind = "fifo" => buf \o inode[fd].bytes = found
       /\ inode[fd].kind = "file" => inode[fd].bytes = found /\ Len(buf) <= Len(found)
                                     /\ buf = SubSeq(found, 1, Len(buf))
  /\ rpc \in {"read", "rules"} => inode[fd].kind \in {"file", "fifo"}
                                  /\ (inode[fd].loose => warned)
  /\ rpc = "rules" /\ fd \notin written /\ Len(buf) <= MaxBytes => buf = found
  /\ answer.ok => rpc = "done"

IRead == FileTyped /\ BufferIsPrefix /\ SecretIsWholeFile

LEMMA FileInitTyped == FileInit => IRead
<1> SUFFICES ASSUME FileInit PROVE IRead
  OBVIOUS
<1> USE SecretFileAssumption, ContentsAssumption
<1>1. PICK f \in [kind : {"file"}, loose : BOOLEAN, bytes : Contents]
             \cup [kind : {"fifo"}, loose : {FALSE}, bytes : Contents]
             \cup {File(k, FALSE, <<>>) : k \in {"dir", "missing", "denied"}} :
        inode = [i \in Inodes |-> IF i = 1 THEN f ELSE NoFile]
  BY DEF FileInit
<1>2. /\ f \in [kind : Kinds, loose : BOOLEAN, bytes : Seq(Bytes)]
      /\ f.loose => f.kind = "file"
  <2>1. Contents \subseteq Seq(Bytes) /\ <<>> \in Seq(Bytes)
    BY DEF Bytes
  <2>2. CASE f \in [kind : {"file"}, loose : BOOLEAN, bytes : Contents]
    BY <2>1, <2>2 DEF Kinds
  <2>3. CASE f \in [kind : {"fifo"}, loose : {FALSE}, bytes : Contents]
    BY <2>1, <2>3 DEF Kinds
  <2>4. CASE f \in {File(k, FALSE, <<>>) : k \in {"dir", "missing", "denied"}}
    <3>1. PICK k \in {"dir", "missing", "denied"} :
            f = [kind |-> k, loose |-> FALSE, bytes |-> <<>>]
      BY <2>4 DEF File
    <3> QED
      BY <2>1, <3>1 DEF Kinds
  <2> QED
    BY <1>1, <2>2, <2>3, <2>4
<1>3. NoFile \in [kind : Kinds, loose : BOOLEAN, bytes : Seq(Bytes)] /\ ~NoFile.loose
  BY DEF NoFile, File, Kinds
<1>4. FileTyped
  <2>1. inode \in [Inodes -> [kind : Kinds, loose : BOOLEAN, bytes : Seq(Bytes)]]
    BY <1>1, <1>2, <1>3
  <2>2. \A i \in Inodes : inode[i].loose => inode[i].kind = "file"
    BY <1>1, <1>2, <1>3
  <2>3. <<>> \in Seq(Bytes) /\ Len(<<>>) = 0 /\ MaxBytes \in Nat /\ MaxEdits \in Nat
    OBVIOUS
  <2>4. /\ path = 1 /\ written = {} /\ edits = 0 /\ rpc = "open" /\ fd = 0 /\ buf = <<>>
        /\ warned = FALSE /\ found = <<>>
    BY DEF FileInit, Absent
  <2>5. edits \in 0 .. MaxEdits /\ path \in 1 .. edits + 1 /\ fd \in 0 .. edits + 1
    BY <2>3, <2>4
  <2>6. buf \in Seq(Bytes) /\ Len(buf) <= MaxBytes + 1
    BY <2>3, <2>4
  <2> QED
    BY <2>1, <2>2, <2>3, <2>4, <2>5, <2>6, Zenon DEF FileTyped
<1>5. ~answer.ok
  BY DEF FileInit, Pending, Refused
<1> QED
  BY <1>4, <1>5 DEF FileInit, IRead, BufferIsPrefix, SecretIsWholeFile

(* Open files and reads. *)
LEMMA OpenStep == IRead /\ Open => IRead'
<1> SUFFICES ASSUME IRead, Open PROVE IRead'
  OBVIOUS
<1> USE SecretFileAssumption DEF IRead, FileTyped
<1>0. UNCHANGED <<inode, path, written, edits, buf, warned>> /\ buf = <<>> /\ path \in Inodes
  BY DEF Open, disk, Inodes, BufferIsPrefix
<1>1. CASE inode[path].kind \in {"missing", "denied"}
  BY <1>0, <1>1 DEF Open, Return, Refused, BufferIsPrefix, SecretIsWholeFile
<1>2. CASE inode[path].kind \notin {"missing", "denied"}
  <2>1. rpc' = "fstat" /\ fd' = path /\ found' = inode[path].bytes /\ answer' = answer
    BY <1>2 DEF Open
  <2>2. ~answer.ok
    BY DEF Open, BufferIsPrefix
  <2>3. found' \in Seq(Bytes) /\ <<>> \o found' = found' /\ SubSeq(found', 1, 0) = <<>>
    BY <1>0, <2>1
  <2> QED
    BY <1>0, <2>1, <2>2, <2>3 DEF BufferIsPrefix, SecretIsWholeFile
<1> QED
  BY <1>1, <1>2

LEMMA FstatStep == IRead /\ Fstat => IRead'
<1> SUFFICES ASSUME IRead, Fstat PROVE IRead'
  OBVIOUS
<1> USE DEF IRead, FileTyped, BufferIsPrefix, Fstat, disk
<1>1. CASE rpc' = "done" /\ warned' = warned /\ ~answer'.ok
  BY <1>1 DEF SecretIsWholeFile
<1>2. CASE /\ inode[fd].kind = "fifo" \/ (inode[fd].kind = "file" /\ Len(inode[fd].bytes) <= MaxBytes)
           /\ rpc' = "read" /\ warned' = (inode[fd].kind = "file" /\ inode[fd].loose) /\ UNCHANGED answer
  BY <1>2, SecretFileAssumption DEF SecretIsWholeFile, Inodes
<1> QED
  BY <1>1, <1>2 DEF Return, Refused

(* What a read adds continues what is in the buffer. *)
LEMMA ChunkContinues ==
  ASSUME NEW s \in Seq(Bytes), NEW n \in 0 .. Len(s), NEW k \in 0 .. Len(s) - n
  PROVE  /\ SubSeq(s, 1, n) \o SubSeq(SubSeq(s, n + 1, Len(s)), 1, k) = SubSeq(s, 1, n + k)
         /\ Len(SubSeq(s, n + 1, Len(s))) = Len(s) - n
         /\ Len(SubSeq(s, 1, n)) = n
<1>0. /\ Len(s) \in Nat /\ n \in Nat /\ k \in Nat /\ \A i \in 1 .. Len(s) : s[i] \in Bytes
      /\ n <= Len(s) /\ n + k <= Len(s)
  OBVIOUS
<1> DEFINE r == SubSeq(s, n + 1, Len(s))
<1>1. r \in Seq(Bytes) /\ Len(r) = Len(s) - n /\ \A i \in 1 .. Len(s) - n : r[i] = s[n + i]
  <2>1. \A i \in n + 1 .. Len(s) : s[i] \in Bytes
    BY <1>0
  <2>2. /\ r \in Seq(Bytes)
        /\ Len(r) = IF n + 1 <= Len(s) THEN Len(s) - (n + 1) + 1 ELSE 0
        /\ \A i \in 1 .. Len(s) - (n + 1) + 1 : r[i] = s[n + 1 + i - 1]
    BY <1>0, <2>1, SubSeqProperties
  <2> HIDE DEF r
  <2> QED
    BY <1>0, <2>2
<1> HIDE DEF r
<1>2. /\ SubSeq(r, 1, k) \in Seq(Bytes) /\ Len(SubSeq(r, 1, k)) = k
      /\ \A i \in 1 .. k : SubSeq(r, 1, k)[i] = s[n + i]
  <2>1. \A i \in 1 .. k : r[i] \in Bytes
    BY <1>0, <1>1
  <2>2. /\ SubSeq(r, 1, k) \in Seq(Bytes)
        /\ Len(SubSeq(r, 1, k)) = IF 1 <= k THEN k - 1 + 1 ELSE 0
        /\ \A i \in 1 .. k - 1 + 1 : SubSeq(r, 1, k)[i] = r[1 + i - 1]
    BY <1>0, <2>1, SubSeqProperties
  <2> QED
    BY <1>0, <1>1, <2>2
<1>3. ASSUME NEW m \in 0 .. Len(s)
      PROVE  /\ SubSeq(s, 1, m) \in Seq(Bytes) /\ Len(SubSeq(s, 1, m)) = m
             /\ \A i \in 1 .. m : SubSeq(s, 1, m)[i] = s[i]
  <2>1. \A i \in 1 .. m : s[i] \in Bytes
    BY <1>0
  <2>2. /\ SubSeq(s, 1, m) \in Seq(Bytes)
        /\ Len(SubSeq(s, 1, m)) = IF 1 <= m THEN m - 1 + 1 ELSE 0
        /\ \A i \in 1 .. m - 1 + 1 : SubSeq(s, 1, m)[i] = s[1 + i - 1]
    BY <1>0, <2>1, SubSeqProperties
  <2> QED
    BY <1>0, <2>2
<1>4. n + k \in 0 .. Len(s)
  BY <1>0
<1> DEFINE a == SubSeq(s, 1, n) \o SubSeq(r, 1, k)
<1>5. a \in Seq(Bytes) /\ Len(a) = n + k
      /\ \A i \in 1 .. n + k : a[i] = IF i <= n THEN SubSeq(s, 1, n)[i] ELSE SubSeq(r, 1, k)[i - n]
  <2>1. SubSeq(s, 1, n) \in Seq(Bytes) /\ Len(SubSeq(s, 1, n)) = n
    BY <1>3
  <2> QED
    BY <1>2, <2>1, ConcatProperties
<1>6. \A i \in 1 .. n + k : a[i] = SubSeq(s, 1, n + k)[i]
  <2>1. ASSUME NEW i \in 1 .. n + k PROVE a[i] = s[i]
    <3>1. CASE i <= n
      BY <1>0, <1>3, <1>5, <3>1
    <3>2. CASE ~(i <= n)
      <4>1. i - n \in 1 .. k /\ n + (i - n) = i
        BY <1>0, <3>2
      <4> HIDE DEF a
      <4>2. a[i] = SubSeq(r, 1, k)[i - n]
        BY <1>5, <3>2
      <4>3. SubSeq(r, 1, k)[i - n] = s[n + (i - n)]
        BY <1>2, <4>1
      <4> QED
        BY <4>1, <4>2, <4>3
    <3> QED
      BY <3>1, <3>2
  <2> HIDE DEF a
  <2> QED
    BY <1>3, <1>4, <2>1
<1>7. a = SubSeq(s, 1, n + k)
  <2>1. SubSeq(s, 1, n + k) \in Seq(Bytes) /\ Len(SubSeq(s, 1, n + k)) = n + k
    BY <1>3, <1>4
  <2> HIDE DEF a
  <2> QED
    BY <1>5, <1>6, <2>1, SeqEqual
<1> QED
  BY <1>1, <1>3, <1>7 DEF r

(* A pipe loses what is read from it. *)
LEMMA PipeContinues ==
  ASSUME NEW b \in Seq(Bytes), NEW s \in Seq(Bytes), NEW k \in 1 .. Len(s)
  PROVE  (b \o SubSeq(s, 1, k)) \o SubSeq(s, k + 1, Len(s)) = b \o s
<1>1. SubSeq(s, 1, k) \o SubSeq(s, k + 1, Len(s)) = s
  <2>1. SubSeq(s, 1, k) \o SubSeq(s, k + 1, Len(s)) = SubSeq(s, 1, Len(s))
    BY ConcatAdjacentSubSeq
  <2> QED
    BY <2>1, SubSeqFull
<1>2. SubSeq(s, 1, k) \in Seq(Bytes) /\ SubSeq(s, k + 1, Len(s)) \in Seq(Bytes)
  <2>1. \A i \in 1 .. Len(s) : s[i] \in Bytes
    OBVIOUS
  <2>2. (\A i \in 1 .. k : s[i] \in Bytes) /\ (\A i \in k + 1 .. Len(s) : s[i] \in Bytes)
    BY <2>1
  <2> QED
    BY <2>2, SubSeqProperties
<1>3. ASSUME NEW x \in Seq(Bytes), NEW y \in Seq(Bytes), s = x \o y
      PROVE  (b \o x) \o y = b \o s
  BY <1>3
<1> QED
  BY <1>1, <1>2, <1>3

LEMMA ReadStep == IRead /\ ReadChunk => IRead'
<1> SUFFICES ASSUME IRead, ReadChunk PROVE IRead'
  OBVIOUS
<1> USE SecretFileAssumption
<1>0. /\ FileTyped /\ fd \in Inodes /\ rpc = "read" /\ ~answer.ok
      /\ inode[fd].kind \in {"file", "fifo"} /\ inode[fd].bytes \in Seq(Bytes)
      /\ Len(buf) \in Nat /\ Len(inode[fd].bytes) \in Nat
      /\ UNCHANGED <<fd, warned, found, path, written, edits>>
  <2>1. rpc = "read" /\ UNCHANGED <<fd, warned, found, path, written, edits>>
    BY DEF ReadChunk
  <2>2. FileTyped /\ ~answer.ok /\ inode[fd].kind \in {"file", "fifo"}
    BY <2>1 DEF IRead, BufferIsPrefix
  <2>3. fd \in Inodes
    BY <2>2 DEF FileTyped, Inodes
  <2>4. inode[fd].bytes \in Seq(Bytes) /\ buf \in Seq(Bytes)
    BY <2>2, <2>3 DEF FileTyped
  <2>5. Len(inode[fd].bytes) \in Nat /\ Len(buf) \in Nat
    BY <2>4, LenProperties
  <2> QED
    BY <2>1, <2>2, <2>3, <2>4, <2>5
<1>1. CASE Return(Refused("Io")) /\ UNCHANGED <<buf, inode>>
  BY <1>0, <1>1 DEF Return, Refused, IRead, FileTyped, BufferIsPrefix, SecretIsWholeFile
<1>2. CASE /\ Rest = <<>> \/ Len(buf) = MaxBytes + 1
           /\ rpc' = "rules" /\ UNCHANGED <<buf, answer, inode>>
  <2>1. ASSUME fd \notin written, Len(buf) <= MaxBytes PROVE buf = found
    <3>1. Rest = <<>>
      BY <1>0, <1>2, <2>1
    <3>2. CASE inode[fd].kind = "fifo"
      <4>1. inode[fd].bytes = <<>> /\ buf \o inode[fd].bytes = found
        BY <1>0, <2>1, <3>1, <3>2 DEF Rest, IRead, BufferIsPrefix
      <4> QED
        BY <1>0, <4>1, ConcatEmptySeq DEF FileTyped
    <3>3. CASE inode[fd].kind = "file"
      <4>1. /\ inode[fd].bytes = found /\ Len(buf) <= Len(found) /\ buf = SubSeq(found, 1, Len(buf))
            /\ SubSeq(found, Len(buf) + 1, Len(found)) = <<>> /\ found \in Seq(Bytes)
        BY <1>0, <2>1, <3>1, <3>3 DEF Rest, IRead, BufferIsPrefix, FileTyped
      <4>2. Len(buf) \in 0 .. Len(found) /\ 0 \in 0 .. Len(found) - Len(buf)
        BY <1>0, <4>1
      <4>3. Len(SubSeq(found, Len(buf) + 1, Len(found))) = Len(found) - Len(buf)
        BY <4>1, <4>2, ChunkContinues
      <4>a. Len(<<>>) = 0 /\ Len(found) \in Nat
        BY <4>1, LenProperties
      <4>b. Len(found) - Len(buf) = 0
        BY <4>1, <4>3, <4>a
      <4>4. Len(buf) = Len(found)
        BY <1>0, <4>a, <4>b
      <4> QED
        BY <4>1, <4>4, SubSeqFull
    <3> QED
      BY <1>0, <3>2, <3>3
  <2> QED
    BY <1>0, <1>2, <2>1 DEF IRead, FileTyped, BufferIsPrefix, SecretIsWholeFile
<1>3. ASSUME NEW k \in 1 .. Len(Rest),
             Len(buf) + k <= MaxBytes + 1, buf' = buf \o SubSeq(Rest, 1, k),
             inode' = IF inode[fd].kind = "fifo"
                      THEN [inode EXCEPT ![fd].bytes = SubSeq(@, k + 1, Len(@))] ELSE inode,
             UNCHANGED <<rpc, answer>>
      PROVE  IRead'
  <2>1. Rest \in Seq(Bytes)
    <3>1. \A i \in 1 .. Len(inode[fd].bytes) : inode[fd].bytes[i] \in Bytes
      BY <1>0
    <3>2. \A i \in Len(buf) + 1 .. Len(inode[fd].bytes) : inode[fd].bytes[i] \in Bytes
      BY <1>0, <3>1
    <3>3. SubSeq(inode[fd].bytes, Len(buf) + 1, Len(inode[fd].bytes)) \in Seq(Bytes)
      BY <1>0, <3>2, SubSeqProperties
    <3> QED
      BY <1>0, <3>3 DEF Rest
  <2>2. SubSeq(Rest, 1, k) \in Seq(Bytes) /\ Len(SubSeq(Rest, 1, k)) = k
    <3>1. k \in 0 .. Len(Rest) /\ 0 \in 0 .. Len(Rest) - k /\ \A i \in 1 .. k : Rest[i] \in Bytes
      BY <2>1
    <3>2. SubSeq(Rest, 1, k) \in Seq(Bytes)
      BY <3>1, SubSeqProperties
    <3>3. Len(SubSeq(Rest, 1, k)) = k
      BY <2>1, <3>1, ChunkContinues
    <3> QED
      BY <3>2, <3>3
  <2>3. buf' \in Seq(Bytes) /\ Len(buf') = Len(buf) + k
    BY <1>0, <1>3, <2>2, ConcatProperties DEF FileTyped
  <2>4. CASE inode[fd].kind = "file"
    <3>1. inode' = inode
      BY <1>3, <2>4
    <3>2. ASSUME fd \notin written
          PROVE  Len(buf') <= Len(found) /\ buf' = SubSeq(found, 1, Len(buf'))
      <4>1. /\ inode[fd].bytes = found /\ Len(buf) <= Len(found) /\ buf = SubSeq(found, 1, Len(buf))
            /\ Rest = SubSeq(found, Len(buf) + 1, Len(found)) /\ found \in Seq(Bytes)
        BY <1>0, <2>4, <3>2 DEF Rest, IRead, BufferIsPrefix, FileTyped
      <4>2. Len(buf) \in 0 .. Len(found) /\ 0 \in 0 .. Len(found) - Len(buf)
        BY <1>0, <4>1
      <4>3. Len(Rest) = Len(found) - Len(buf)
        BY <4>1, <4>2, ChunkContinues
      <4>4. k \in 0 .. Len(found) - Len(buf)
        BY <1>3, <4>2, <4>3
      <4>5. SubSeq(found, 1, Len(buf)) \o SubSeq(Rest, 1, k) = SubSeq(found, 1, Len(buf) + k)
        BY <4>1, <4>2, <4>4, ChunkContinues
      <4>6. buf' = SubSeq(found, 1, Len(buf) + k)
        BY <1>3, <4>1, <4>5, Zenon
      <4>7. Len(buf) + k <= Len(found)
        BY <1>0, <4>1, <4>4
      <4> QED
        BY <2>3, <4>6, <4>7
    <3> QED
      BY <1>0, <1>3, <2>3, <2>4, <3>1, <3>2
      DEF IRead, FileTyped, BufferIsPrefix, SecretIsWholeFile
  <2>5. CASE inode[fd].kind = "fifo"
    <3> DEFINE b == inode[fd].bytes
    <3>1. Rest = b /\ b \in Seq(Bytes) /\ fd \notin written
      BY <1>0, <2>5 DEF Rest, FileTyped
    <3> DEFINE c == SubSeq(b, k + 1, Len(b))
    <3>2. inode' = [inode EXCEPT ![fd].bytes = c]
      BY <1>3, <2>5
    <3>3. c \in Seq(Bytes)
      <4>1. k + 1 \in Int /\ Len(b) \in Int /\ \A i \in k + 1 .. Len(b) : b[i] \in Bytes
        BY <3>1
      <4> QED
        BY <4>1, SubSeqProperties
    <3>4. buf' \o c = found
      <4>1. buf \o b = found
        BY <1>0, <2>5, <3>1 DEF IRead, BufferIsPrefix
      <4>2. (buf \o SubSeq(b, 1, k)) \o SubSeq(b, k + 1, Len(b)) = buf \o b
        BY <1>0, <3>1, PipeContinues DEF FileTyped
      <4> QED
        BY <1>3, <3>1, <4>1, <4>2
    <3> HIDE DEF c, b
    <3>5. /\ inode' \in [Inodes -> [kind : Kinds, loose : BOOLEAN, bytes : Seq(Bytes)]]
          /\ \A i \in Inodes : inode'[i].kind = inode[i].kind /\ inode'[i].loose = inode[i].loose
          /\ inode'[fd].bytes = c
      BY <1>0, <3>2, <3>3 DEF FileTyped
    <3>6. FileTyped'
      <4>1. \A i \in Inodes : inode'[i].loose => inode'[i].kind = "file"
        BY <1>0, <3>5 DEF FileTyped
      <4>2. \A i \in written : inode'[i].kind = "file"
        BY <1>0, <3>5 DEF FileTyped, Inodes
      <4>3. Len(buf') <= MaxBytes + 1 /\ rpc' = rpc
        BY <1>3, <2>3
      <4> QED
        BY <1>0, <2>3, <3>5, <4>1, <4>2, <4>3 DEF FileTyped
    <3>7. BufferIsPrefix'
      BY <1>0, <1>3, <2>5, <3>4, <3>5 DEF IRead, BufferIsPrefix
    <3> QED
      BY <1>0, <1>3, <3>6, <3>7 DEF IRead, SecretIsWholeFile
  <2> QED
    BY <1>0, <2>4, <2>5
<1> QED
  BY <1>1, <1>2, <1>3 DEF ReadChunk

(* The rule is applied to the whole file or not at all. *)
LEMMA JudgeStep == IRead /\ Judge(FileSourceRule) => IRead'
<1> SUFFICES ASSUME IRead, Judge(FileSourceRule) PROVE IRead'
  OBVIOUS
<1>0. /\ rpc = "rules" /\ rpc' = "done" /\ UNCHANGED <<fd, buf, warned, found, disk>>
      /\ answer' = IF Len(buf) > MaxBytes THEN Refused("TooLarge") ELSE FileSourceRule(buf)
      /\ buf \in Seq(Bytes) /\ Len(buf) \in Nat /\ MaxBytes \in Nat
  BY SecretFileAssumption DEF Judge, Return, IRead, FileTyped
<1>1. FileTyped' /\ BufferIsPrefix'
  BY <1>0 DEF IRead, FileTyped, BufferIsPrefix, disk
<1>2. ASSUME answer'.ok, fd \notin written PROVE SecretIsWholeFile'
  <2>1. Len(buf) <= MaxBytes /\ answer' = FileSourceRule(buf) /\ FileSourceRule(buf).ok
    BY <1>0, <1>2 DEF Refused
  <2>2. buf = found /\ (inode[fd].loose => warned)
    BY <1>0, <1>2, <2>1 DEF IRead, BufferIsPrefix
  <2>3. /\ answer'.secret \in Seq(Bytes) /\ answer'.secret # <<>>
        /\ buf \in {answer'.secret, Append(answer'.secret, "LF")}
        /\ ToSet(answer'.secret) \cap (Terminators \cup {NotUtf8}) = {}
    BY <1>0, <2>1, RuleKeepsLine
  <2> QED
    BY <1>0, <2>1, <2>2, <2>3 DEF SecretIsWholeFile, disk
<1>3. ASSUME ~(answer'.ok /\ fd \notin written) PROVE SecretIsWholeFile'
  <2>1. fd' = fd /\ written' = written
    BY <1>0 DEF disk
  <2> QED
    BY <1>3, <2>1, Zenon DEF SecretIsWholeFile
<1> QED
  BY <1>1, <1>2, <1>3 DEF IRead

(* A file put in the place of another is a new one; one that is written is  *)
(* remembered.                                                              *)
LEMMA EditStep == IRead /\ Edit => IRead'
<1> SUFFICES ASSUME IRead, Edit PROVE IRead'
  OBVIOUS
<1>0. /\ rpc # "done" /\ edits < MaxEdits /\ edits' = edits + 1 /\ UNCHANGED reader
      /\ MaxEdits \in Nat /\ edits \in 0 .. MaxEdits /\ edits \in Nat
      /\ fd \in 0 .. edits + 1 /\ path \in 1 .. edits + 1 /\ ~answer.ok
  BY SecretFileAssumption DEF Edit, Replace, WriteInPlace, Editing, IRead, FileTyped, BufferIsPrefix
<1>1. Replacements \cup {<<>>} \subseteq Seq(Bytes)
  <2>1. <<>> \in Seq(Bytes)
    OBVIOUS
  <2> QED
    BY <2>1, ContentsAssumption DEF Bytes
<1>2. CASE Replace
  <2>1. PICK bytes \in Replacements, loose \in BOOLEAN :
          inode' = [inode EXCEPT ![edits + 2] = File("file", loose, bytes)]
    BY <1>2 DEF Replace
  <2>2. path' = edits + 2 /\ written' = written
    BY <1>2 DEF Replace
  <2>3. edits + 2 \in Inodes /\ fd # edits + 2 /\ fd \in Inodes
    BY <1>0 DEF Inodes
  <2>4. File("file", loose, bytes) \in [kind : Kinds, loose : BOOLEAN, bytes : Seq(Bytes)]
    BY <1>1, <2>1 DEF File, Kinds
  <2>5. FileTyped'
    <3> DEFINE new == File("file", loose, bytes)
    <3>a. new.kind = "file"
      BY DEF File
    <3> HIDE DEF new
    <3>1. inode' \in [Inodes -> [kind : Kinds, loose : BOOLEAN, bytes : Seq(Bytes)]]
      BY <2>1, <2>4 DEF IRead, FileTyped, new
    <3>2. \A i \in Inodes : inode'[i] = inode[i] \/ inode'[i].kind = "file"
      BY <2>1, <3>a DEF IRead, FileTyped, new
    <3>3. \A i \in Inodes : inode'[i].loose => inode'[i].kind = "file"
      BY <3>2 DEF IRead, FileTyped
    <3>4. \A i \in written : i \in Inodes /\ inode'[i].kind = "file"
      BY <1>0, <3>2 DEF IRead, FileTyped, Inodes
    <3>5. /\ edits' \in 0 .. MaxEdits /\ path' \in 1 .. edits' + 1 /\ fd' \in 0 .. edits' + 1
          /\ written' \subseteq 1 .. edits' + 1
      BY <1>0, <2>2 DEF IRead, FileTyped, reader
    <3> QED
      BY <1>0, <2>2, <3>1, <3>3, <3>4, <3>5 DEF IRead, FileTyped, reader
  <2>6. inode'[fd] = inode[fd]
    BY <2>1, <2>3 DEF IRead, FileTyped
  <2> QED
    BY <1>0, <2>2, <2>5, <2>6 DEF IRead, BufferIsPrefix, SecretIsWholeFile, reader
<1>3. CASE WriteInPlace
  <2>1. PICK bytes \in Replacements \cup {<<>>} : inode' = [inode EXCEPT ![path].bytes = bytes]
    BY <1>3 DEF WriteInPlace
  <2>2. path' = path /\ written' = written \cup {path} /\ inode[path].kind = "file"
    BY <1>3 DEF WriteInPlace
  <2>3. path \in Inodes /\ fd \in Inodes
    BY <1>0 DEF Inodes
  <2>4. /\ inode' \in [Inodes -> [kind : Kinds, loose : BOOLEAN, bytes : Seq(Bytes)]]
        /\ \A i \in Inodes : inode'[i].kind = inode[i].kind /\ inode'[i].loose = inode[i].loose
        /\ fd # path => inode'[fd] = inode[fd]
    BY <1>1, <2>1, <2>3 DEF IRead, FileTyped
  <2>5. FileTyped'
    <3>1. \A i \in Inodes : inode'[i].loose => inode'[i].kind = "file"
      BY <2>4 DEF IRead, FileTyped
    <3>2. \A i \in written' : inode'[i].kind = "file"
      <4>1. \A i \in written : i \in Inodes /\ inode[i].kind = "file"
        BY <1>0 DEF IRead, FileTyped, Inodes
      <4> QED
        BY <2>2, <2>3, <2>4, <4>1
    <3>3. /\ edits' \in 0 .. MaxEdits /\ path' \in 1 .. edits' + 1 /\ fd' \in 0 .. edits' + 1
          /\ written' \subseteq 1 .. edits' + 1
      BY <1>0, <2>2 DEF IRead, FileTyped, reader
    <3> QED
      BY <1>0, <2>4, <3>1, <3>2, <3>3 DEF IRead, FileTyped, reader
  <2> QED
    BY <1>0, <2>2, <2>3, <2>4, <2>5 DEF IRead, BufferIsPrefix, SecretIsWholeFile, reader
<1> QED
  BY <1>2, <1>3 DEF Edit

LEMMA ReaderStep == IRead /\ [Next]_vars => IRead'
<1> SUFFICES ASSUME IRead, [Next]_vars PROVE IRead'
  OBVIOUS
<1>1. CASE UNCHANGED <<reader, disk>>
  BY <1>1 DEF IRead, FileTyped, BufferIsPrefix, SecretIsWholeFile, reader, disk
<1>2. CASE ReadFile
  BY <1>2, OpenStep, FstatStep, ReadStep, JudgeStep DEF ReadFile
<1>3. CASE EditFile
  BY <1>3, EditStep DEF EditFile
<1> QED
  BY <1>1, <1>2, <1>3
  DEF Next, Step, Claim, OpenKeystore, CopyPassphrase, Prompt, Hide, Type, Restore, Decrypt,
      Interrupt, Finished, vars

(* "exactly one trailing newline is stripped" and nothing is cut off        *)
(* silently (secretfile): for files of any length, any number of exchanges  *)
(* and rewrites of them and any division into reads, what deposit gen takes *)
(* for the passphrase is the whole of one file.                             *)
THEOREM WholeSecret == Spec => []SecretIsWholeFile
<1>1. Init => IRead
  BY FileInitTyped DEF Init
<1>2. Spec => []IRead
  BY <1>1, ReaderStep, PTL DEF Spec
<1> QED
  BY <1>2, PTL DEF IRead

-----------------------------------------------------------------------------
(* The workers. *)

Labels == {"claim", "load", "tty", "hide", "type", "restore", "decrypt", "done"}

WorkersTyped ==
  /\ keystore \in [Idx -> Keystores] /\ sigint \in BOOLEAN /\ flag \in BOOLEAN /\ echo \in BOOLEAN
  /\ next \in 1 .. N + 1 /\ pc \in [Workers -> Labels]
  /\ idx \in [Workers -> Idx \cup {NoIndex}]
  /\ saved \in [Workers -> BOOLEAN] /\ line \in [Workers -> BOOLEAN]
  /\ asked \subseteq Idx /\ keys \subseteq asked
  /\ \A w \in Workers : pc[w] \notin {"claim", "done"} => idx[w] \in Idx
  /\ \A w \in Workers : pc[w] \in {"hide", "type", "restore", "decrypt"} => idx[w] \in asked

LEMMA WorkersInit == Init => WorkersTyped
<1> SUFFICES ASSUME Init PROVE WorkersTyped
  OBVIOUS
<1>1. /\ next \in 1 .. N + 1 /\ asked = {} /\ keys = {}
      /\ sigint \in BOOLEAN /\ flag \in BOOLEAN /\ echo \in BOOLEAN
  <2>1. /\ next = 1 /\ asked = {} /\ keys = {}
        /\ sigint = FALSE /\ flag = FALSE /\ echo = TRUE
    BY DEF Init
  <2>2. 1 \in 1 .. N + 1
    BY NAssumption
  <2> QED
    BY <2>1, <2>2, Zenon
<1>2. /\ pc \in [Workers -> Labels] /\ idx \in [Workers -> Idx \cup {NoIndex}]
      /\ \A w \in Workers : pc[w] = "claim"
  BY DEF Init, Labels
<1>3. /\ saved \in [Workers -> BOOLEAN] /\ line \in [Workers -> BOOLEAN]
      /\ keystore \in [Idx -> Keystores]
  BY DEF Init
<1> QED
  BY <1>1, <1>2, <1>3 DEF WorkersTyped

LEMMA WorkerStep == WorkersTyped /\ [Next]_vars => WorkersTyped'
<1> SUFFICES ASSUME WorkersTyped, [Next]_vars PROVE WorkersTyped'
  OBVIOUS
<1> USE NAssumption DEF WorkersTyped, Labels
<1>1. ASSUME NEW w \in Workers, Step(w) PROVE WorkersTyped'
  <2> USE DEF Goto, Fail, terminal
  <2>1. CASE Claim(w)
    <3>1. next \in Nat /\ (next <= N => next \in Idx /\ next + 1 \in 1 .. N + 1)
      BY DEF Idx
    <3> QED
      BY <2>1, <3>1 DEF Claim
  <2>2. CASE OpenKeystore(w)
    BY <2>2 DEF OpenKeystore
  <2>3. CASE CopyPassphrase(w)
    BY <2>3 DEF CopyPassphrase
  <2>4. CASE Prompt(w)
    BY <2>4 DEF Prompt
  <2>5. CASE Hide(w)
    BY <2>5 DEF Hide
  <2>6. CASE Type(w)
    BY <2>6 DEF Type
  <2>7. CASE Restore(w)
    BY <2>7 DEF Restore
  <2>8. CASE Decrypt(w)
    <3>1. UNCHANGED <<keystore, sigint, next, idx, terminal, asked>> /\ idx[w] \in asked
      BY <2>8 DEF Decrypt
    <3>2. keys' \subseteq asked'
      BY <2>8, <3>1 DEF Decrypt
    <3>3. /\ flag' \in BOOLEAN /\ pc' \in [Workers -> Labels]
          /\ \A v \in Workers : pc'[v] = pc[v] \/ pc'[v] = "claim"
      BY <2>8 DEF Decrypt
    <3> QED
      BY <3>1, <3>2, <3>3
  <2> QED
    BY <1>1, <2>1, <2>2, <2>3, <2>4, <2>5, <2>6, <2>7, <2>8 DEF Step
<1>2. CASE ReadFile \/ EditFile
  BY <1>2 DEF ReadFile, EditFile, control, terminal
<1>3. CASE Interrupt
  BY <1>3 DEF Interrupt, terminal
<1>4. CASE UNCHANGED vars
  BY <1>4 DEF vars, control, terminal
<1> QED
  BY <1>1, <1>2, <1>3, <1>4 DEF Next, Finished

(* A key is decrypted only for a pubkey a passphrase was had for, and the   *)
(* buffer never holds more than one byte past the maximum, for any number   *)
(* of workers, pubkeys and edits of the file.                               *)
THEOREM TypeCorrect == Spec => []TypeOK
<1>1. Init => IRead /\ WorkersTyped
  BY WorkersInit, FileInitTyped DEF Init
<1>2. IRead /\ WorkersTyped => TypeOK
  <2> SUFFICES ASSUME IRead, WorkersTyped PROVE TypeOK
    OBVIOUS
  <2>1. /\ {path, fd} \subseteq Inodes /\ written \subseteq Inodes /\ edits \in 0 .. MaxEdits
        /\ \A i \in Inodes : inode[i].kind \in Kinds
    BY SecretFileAssumption DEF IRead, FileTyped, Inodes
  <2> QED
    BY <2>1 DEF IRead, FileTyped, WorkersTyped, Labels, TypeOK
<1>3. Spec => [](IRead /\ WorkersTyped)
  BY <1>1, ReaderStep, WorkerStep, PTL DEF Spec
<1> QED
  BY <1>2, <1>3, PTL

(* The echo as the one worker leaves it. *)
EchoRestorable(w) ==
  /\ pc[w] = "type" => ~echo
  /\ pc[w] \in {"type", "restore"} => saved[w]
  /\ pc[w] \notin {"type", "restore"} => echo

(* With --parallel 1 ("with terminal echo suppressed", passphrase.rs): for  *)
(* any number of pubkeys the echo is off while a passphrase is awaited and  *)
(* on otherwise, whatever fails and whenever the run is interrupted.  Two   *)
(* workers break it: TtyPromptParallel.                                     *)
THEOREM OneWorkerEcho ==
  ASSUME NEW CONSTANT w, Workers = {w}
  PROVE  Spec => []EchoFollowsReads
<1>1. Init => EchoRestorable(w)
  BY DEF Init, EchoRestorable
<1>2. WorkersTyped /\ EchoRestorable(w) /\ [Next]_vars => EchoRestorable(w)'
  <2> SUFFICES ASSUME WorkersTyped, EchoRestorable(w), [Next]_vars PROVE EchoRestorable(w)'
    OBVIOUS
  <2>1. CASE Step(w)
    BY <2>1
    DEF WorkersTyped, EchoRestorable, Step, Claim, OpenKeystore, CopyPassphrase, Prompt, Hide,
        Type, Restore, Decrypt, Goto, Fail, terminal
  <2>2. CASE UNCHANGED <<pc, echo, saved>>
    BY <2>2 DEF EchoRestorable
  <2> QED
    BY <2>1, <2>2 DEF Next, ReadFile, EditFile, Interrupt, Finished, vars, control, terminal
<1>3. EchoRestorable(w) => EchoFollowsReads
  BY DEF EchoRestorable, EchoFollowsReads, EchoSuppressed
<1> QED
  BY <1>1, <1>2, <1>3, WorkersInit, WorkerStep, PTL DEF Spec
=============================================================================
