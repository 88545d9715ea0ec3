----------------------------- MODULE KeygenProofs -----------------------------
(* Theorems about Keygen, for any number of runs, any jobs, and any number  *)
(* of glitches and edits: types, the ceremony, what a summary lists, and    *)
(* the files a run leaves.                                                  *)
EXTENDS Keygen, FiniteSetTheorems, TLAPS

Labels == {"config", "begin", "read", "pass", "passTyped", "passAgain",
  "ceremony", "confirm", "reentry", "ask", "clear", "unlock", "password", "seed",
  "loop", "derive", "encrypt", "gate", "write", "rewrite", "verify", "report", "done"}
Errors == {"Ok", "Internal", "Usage", "Overflow", "Bip39", "Passphrase", "Display", "Read",
  "Hd", "KeyVerify", "Encrypt", "Write", "Aborted"}

(* The stages of a run, by what it has at each of them. *)
Ceremony == {"passAgain", "ceremony", "confirm", "reentry", "ask", "clear"}
Unlocked == {"unlock", "password"}
Making   == {"derive", "encrypt", "gate", "write", "rewrite"}
Made     == {"verify", "report"}
Keyed    == {"seed", "loop"} \cup Making \cup Made

(* Types of the variables that a step changes for one run only. *)
Typed ==
  /\ job \in Jobs /\ cancel \in [Procs -> BOOLEAN]
  /\ pc \in [Procs -> Labels] /\ err \in [Procs -> Errors]
  /\ mnemonic \in [Procs -> Mnemonics \cup Procs \cup {None}]
  /\ pass \in [Procs -> Passes \cup {None}]
  /\ password \in [Procs -> Passwords \cup {None}]
  /\ screen \in [Procs -> {"plain", "mnemonic", "cleared", "warned"}]
  /\ retyped \in [Procs -> {None, "same", "other"}] /\ refused \in [Procs -> SUBSET Attempts]
  /\ sound \in [Procs -> BOOLEAN]
  /\ name = [p \in Procs |-> name[p]] /\ written = [p \in Procs |-> written[p]]
  /\ dir = [n \in DOMAIN dir |-> dir[n]]
  /\ pwFile \in Passwords /\ edits \in 0 .. MaxEdits /\ glitches \in 0 .. MaxGlitches
  /\ late \in [Procs -> Nat]

(* What a run has at each stage: its mnemonic, its passphrases, and the     *)
(* re-entry of a fresh mnemonic.                                            *)
Secrets(p) ==
  /\ pc[p] \in {"pass", "passTyped"} \cup Ceremony \cup Unlocked \cup Keyed =>
       mnemonic[p] \in Mnemonics \cup Procs
  /\ pc[p] \in Ceremony \cup Unlocked \cup Keyed => pass[p] \in Passes
  /\ pc[p] \in Keyed => password[p] \in Passwords
  /\ pc[p] \notin {"clear", "done"} => err[p] = "Ok"
  /\ pc[p] = "clear" /\ err[p] = "Ok" => retyped[p] = "same"
  /\ pc[p] \in Unlocked \cup Keyed /\ New(p) => retyped[p] = "same"
  /\ FilesOf(p) # {} /\ New(p) => retyped[p] = "same"
  /\ screen[p] = "mnemonic" =>
       pc[p] \in {"confirm", "reentry", "ask", "clear"} \/ refused[p] = Attempts

(* How far a run is in its range of indices. *)
Ranged(p) ==
  /\ pc[p] \notin Keyed \cup {"done"} => written[p] = << >> /\ FilesOf(p) = {}
  /\ pc[p] \notin {"config", "done"} =>
       job[p].count > 0 /\ job[p].start + (job[p].count - 1) <= U32Max
  /\ written[p] \in Seq(DOMAIN dir) /\ Len(written[p]) <= job[p].count
  /\ pc[p] \in Making \cup Made => Len(written[p]) < job[p].count
  /\ pc[p] \in Making => late[p] = 0
  /\ pc[p] \notin Keyed \cup {"done"} => late[p] = 0
  /\ late[p] <= 1 /\ (late[p] = 1 => cancel[p])
  /\ pc[p] = "seed" => written[p] = << >> /\ late[p] = 0
  /\ err[p] # "Overflow"

(* What is in the files a run made, and which of them are in its summary. *)
Checked(p) == job[p].ns = "validator" /\ job[p].verify

Listed(p) ==
  /\ \A n \in FilesOf(p) : dir[n].password = password[p]
  /\ \A i \in DOMAIN written[p] :
       /\ written[p][i] \in FilesOf(p) /\ dir[written[p][i]].key = Key(p, i - 1)
       /\ Checked(p) => dir[written[p][i]].sound
  /\ pc[p] \in Made => name[p] \in FilesOf(p) /\ dir[name[p]].key = Key(p, Len(written[p]))
  /\ pc[p] = "report" /\ Checked(p) => dir[name[p]].sound

(* How many they are: those of the summary and perhaps one more. *)
Counted(p) ==
  LET k == Cardinality(FilesOf(p)) IN
    /\ IsFiniteSet(FilesOf(p))
    /\ {dir[n].key : n \in FilesOf(p)} = {Key(p, i) : i \in 0 .. k - 1}
    /\ pc[p] \in Made => k = Len(written[p]) + 1
    /\ \/ k = Len(written[p])
       \/ k = Len(written[p]) + 1 /\ (pc[p] \in Made \/ err[p] \in {"Write", "KeyVerify"})
    /\ pc[p] = "done" /\ err[p] = "Ok" => k = job[p].count

Stored == \A n \in DOMAIN dir : dir[n] \in Keystores

Named == \A p \in Procs : name[p] \in DOMAIN dir \cup {None}

(* A process without a job does nothing. *)
Idle == \A p \in Procs \ DOMAIN job : screen[p] = "plain" /\ FilesOf(p) = {}

IInv == /\ Typed /\ Stored /\ Named /\ Idle
        /\ \A p \in DOMAIN job : Secrets(p) /\ Ranged(p) /\ Listed(p) /\ Counted(p)

LEMMA JobTyped ==
  ASSUME job \in Jobs, NEW p \in DOMAIN job
  PROVE  /\ p \in Procs /\ job[p] \in Job
         /\ job[p].ns \in {"validator", "account"} /\ job[p].mode \in {"new", "recover"}
         /\ job[p].count \in Nat /\ job[p].start \in Nat /\ job[p].pass \in Passes \cup {None}
BY JobsAssumption DEF Job

LEMMA InitInv == Init => IInv
<1> SUFFICES ASSUME Init PROVE IInv
  OBVIOUS
<1>1. PICK there \in SUBSET {<<"keystore", i, t>> : i \in {0}, t \in Clock} :
        dir = [n \in there |-> [key |-> Old, password |-> Old, by |-> Old, sound |-> TRUE]]
  BY DEF Init
<1>2. Typed
  BY <1>1, NumbersAssumption DEF Init, Typed, Labels, Errors
<1>3. Stored /\ Named
  BY <1>1 DEF Init, Stored, Named, Keystores
<1>4. \A p \in Procs : FilesOf(p) = {}
  BY <1>1, OldAssumption DEF FilesOf
<1>5. Idle
  BY <1>4 DEF Init, Idle
<1>6. ASSUME NEW p \in DOMAIN job PROVE Secrets(p) /\ Ranged(p) /\ Listed(p) /\ Counted(p)
  <2>1. /\ p \in Procs /\ pc[p] = "config" /\ err[p] = "Ok" /\ written[p] = << >> /\ FilesOf(p) = {}
        /\ screen[p] = "plain" /\ late[p] = 0 /\ job[p].count \in Nat
    BY <1>4, JobTyped DEF Init
  <2>2. Secrets(p)
    BY <2>1 DEF Secrets, Ceremony, Unlocked, Keyed, Making, Made
  <2>3. Ranged(p)
    BY <2>1 DEF Ranged, Keyed, Making, Made
  <2>4. Listed(p)
    BY <2>1 DEF Listed, Made
  <2>5. Counted(p)
    BY <2>1, FS_EmptySet DEF Counted, Made
  <2> QED
    BY <2>2, <2>3, <2>4, <2>5
<1> QED
  BY <1>2, <1>3, <1>5, <1>6 DEF IInv

(* What a step of p leaves alone: the other runs, and the files there are.  *)
Others(p) ==
  /\ job' = job /\ cancel' = cancel
  /\ \A q \in Procs \ {p} :
       /\ pc'[q] = pc[q] /\ err'[q] = err[q] /\ mnemonic'[q] = mnemonic[q]
       /\ pass'[q] = pass[q] /\ password'[q] = password[q] /\ screen'[q] = screen[q]
       /\ retyped'[q] = retyped[q] /\ refused'[q] = refused[q]
       /\ name'[q] = name[q] /\ written'[q] = written[q]
       /\ late'[q] = late[q]

Files(p) ==
  /\ DOMAIN dir \subseteq DOMAIN dir'
  /\ \A n \in DOMAIN dir : dir'[n] = dir[n]
  /\ \A n \in DOMAIN dir' \ DOMAIN dir : dir'[n].by = p

LEMMA StepLeaves ==
  ASSUME Typed, NEW p \in DOMAIN job, Step(p)
  PROVE  Others(p) /\ Files(p)
<1> p \in Procs
  BY JobTyped DEF Typed
<1> USE DEF Goto, Fail, CheckThen, Cancelled, ToClear, Seal, Glitch, WriteNew, Put, secretVars, termVars, fileVars, envVars
<1>1. CASE LoadConfig(p)
  <2>1. Others(p)
    BY <1>1 DEF LoadConfig, Typed, Others
  <2>2. Files(p)
    BY <1>1 DEF LoadConfig, Typed, Files
  <2> QED
    BY <2>1, <2>2
<1>2. CASE Begin(p)
  <2>1. Others(p)
    BY <1>2 DEF Begin, Typed, Others
  <2>2. Files(p)
    BY <1>2 DEF Begin, Typed, Files
  <2> QED
    BY <2>1, <2>2
<1>3. CASE ReadMnemonic(p)
  <2>1. Others(p)
    BY <1>3 DEF ReadMnemonic, Typed, Others
  <2>2. Files(p)
    BY <1>3 DEF ReadMnemonic, Typed, Files
  <2> QED
    BY <2>1, <2>2
<1>4. CASE ResolvePass(p)
  <2>1. Others(p)
    BY <1>4 DEF ResolvePass, Typed, Others
  <2>2. Files(p)
    BY <1>4 DEF ResolvePass, Typed, Files
  <2> QED
    BY <2>1, <2>2
<1>5. CASE TypePass(p)
  <2>1. Others(p)
    BY <1>5 DEF TypePass, Typed, Others
  <2>2. Files(p)
    BY <1>5 DEF TypePass, Typed, Files
  <2> QED
    BY <2>1, <2>2
<1>6. CASE RetypePass(p)
  <2>1. Others(p)
    BY <1>6 DEF RetypePass, Typed, Others
  <2>2. Files(p)
    BY <1>6 DEF RetypePass, Typed, Files
  <2> QED
    BY <2>1, <2>2
<1>7. CASE Display(p)
  <2>1. Others(p)
    BY <1>7 DEF Display, Typed, Others
  <2>2. Files(p)
    BY <1>7 DEF Display, Typed, Files
  <2> QED
    BY <2>1, <2>2
<1>8. CASE Confirm(p)
  <2>1. Others(p)
    BY <1>8 DEF Confirm, Typed, Others
  <2>2. Files(p)
    BY <1>8 DEF Confirm, Typed, Files
  <2> QED
    BY <2>1, <2>2
<1>9. CASE Reenter(p)
  <2>1. Others(p)
    BY <1>9 DEF Reenter, Typed, Others
  <2>2. Files(p)
    BY <1>9 DEF Reenter, Typed, Files
  <2> QED
    BY <2>1, <2>2
<1>10. CASE AskRetry(p)
  <2>1. Others(p)
    BY <1>10 DEF AskRetry, Typed, Others
  <2>2. Files(p)
    BY <1>10 DEF AskRetry, Typed, Files
  <2> QED
    BY <2>1, <2>2
<1>11. CASE Clear(p)
  <2>1. Others(p)
    BY <1>11 DEF Clear, Typed, Others
  <2>2. Files(p)
    BY <1>11 DEF Clear, Typed, Files
  <2> QED
    BY <2>1, <2>2
<1>12. CASE Unlock(p)
  <2>1. Others(p)
    BY <1>12 DEF Unlock, Typed, Others
  <2>2. Files(p)
    BY <1>12 DEF Unlock, Typed, Files
  <2> QED
    BY <2>1, <2>2
<1>13. CASE ReadPassword(p)
  <2>1. Others(p)
    BY <1>13 DEF ReadPassword, Typed, Others
  <2>2. Files(p)
    BY <1>13 DEF ReadPassword, Typed, Files
  <2> QED
    BY <2>1, <2>2
<1>14. CASE ToSeed(p)
  <2>1. Others(p)
    BY <1>14 DEF ToSeed, Typed, Others
  <2>2. Files(p)
    BY <1>14 DEF ToSeed, Typed, Files
  <2> QED
    BY <2>1, <2>2
<1>15. CASE Loop(p)
  <2>1. Others(p)
    BY <1>15 DEF Loop, Typed, Others
  <2>2. Files(p)
    BY <1>15 DEF Loop, Typed, Files
  <2> QED
    BY <2>1, <2>2
<1>16. CASE DeriveSigningKey(p)
  <2>1. Others(p)
    BY <1>16 DEF DeriveSigningKey, Typed, Others
  <2>2. Files(p)
    BY <1>16 DEF DeriveSigningKey, Typed, Files
  <2> QED
    BY <2>1, <2>2
<1>17. CASE DeriveAccountKey(p)
  <2>1. Others(p)
    BY <1>17 DEF DeriveAccountKey, Typed, Others
  <2>2. Files(p)
    BY <1>17 DEF DeriveAccountKey, Typed, Files
  <2> QED
    BY <2>1, <2>2
<1>18. CASE EncryptEip2335(p)
  <2>1. Others(p)
    BY <1>18 DEF EncryptEip2335, Typed, Others
  <2>2. Files(p)
    BY <1>18 DEF EncryptEip2335, Typed, Files
  <2> QED
    BY <2>1, <2>2
<1>19. CASE EncryptV3(p)
  <2>1. Others(p)
    BY <1>19 DEF EncryptV3, Typed, Others
  <2>2. Files(p)
    BY <1>19 DEF EncryptV3, Typed, Files
  <2> QED
    BY <2>1, <2>2
<1>20. CASE Gate(p)
  <2>1. Others(p)
    BY <1>20 DEF Gate, Typed, Others
  <2>2. Files(p)
    BY <1>20 DEF Gate, Typed, Files
  <2> QED
    BY <2>1, <2>2
<1>21. CASE Write(p)
  <2>1. Others(p)
    BY <1>21 DEF Write, Typed, Others
  <2>2. Files(p)
    BY <1>21 DEF Write, Typed, Files
  <2> QED
    BY <2>1, <2>2
<1>22. CASE Rewrite(p)
  <2>1. Others(p)
    BY <1>22 DEF Rewrite, Typed, Others
  <2>2. Files(p)
    BY <1>22 DEF Rewrite, Typed, Files
  <2> QED
    BY <2>1, <2>2
<1>23. CASE Verify(p)
  <2>1. Others(p)
    BY <1>23 DEF Verify, Typed, Others
  <2>2. Files(p)
    BY <1>23 DEF Verify, Typed, Files
  <2> QED
    BY <2>1, <2>2
<1>24. CASE Report(p)
  <2>1. Others(p)
    BY <1>24 DEF Report, Typed, Others
  <2>2. Files(p)
    BY <1>24 DEF Report, Typed, Files
  <2> QED
    BY <2>1, <2>2
<1> QED
  BY <1>1, <1>2, <1>3, <1>4, <1>5, <1>6, <1>7, <1>8, <1>9, <1>10, <1>11, <1>12, <1>13, <1>14, <1>15, <1>16, <1>17, <1>18, <1>19, <1>20, <1>21, <1>22, <1>23, <1>24 DEF Step

LEMMA OthersKept ==
  ASSUME IInv, NEW p \in DOMAIN job, Others(p), Files(p), NEW q \in DOMAIN job, q # p
  PROVE  (Secrets(q) /\ Ranged(q) /\ Listed(q) /\ Counted(q))'
<1> q \in Procs
  BY JobTyped DEF IInv, Typed
<1>1. /\ Secrets(q) /\ Ranged(q) /\ Listed(q) /\ Counted(q)
      /\ job' = job /\ cancel' = cancel
      /\ pc'[q] = pc[q] /\ err'[q] = err[q] /\ mnemonic'[q] = mnemonic[q]
      /\ pass'[q] = pass[q] /\ password'[q] = password[q] /\ screen'[q] = screen[q]
      /\ retyped'[q] = retyped[q] /\ refused'[q] = refused[q]
      /\ name'[q] = name[q] /\ written'[q] = written[q]
      /\ late'[q] = late[q]
  BY DEF IInv, Others
<1>2. FilesOf(q)' = FilesOf(q) /\ \A n \in FilesOf(q) : dir'[n] = dir[n]
  BY DEF Files, FilesOf
<1>4. Secrets(q)'
  BY <1>1, <1>2 DEF Secrets, New
<1>5. Ranged(q)'
  <2>1. written[q] \in Seq(DOMAIN dir')
    BY <1>1 DEF Files, Ranged
  <2> QED
    BY <1>1, <1>2, <2>1 DEF Ranged
<1>6. Listed(q)'
  <2>1. \A n \in FilesOf(q)' : dir'[n].password = password'[q]
    BY <1>1, <1>2 DEF Listed
  <2>2. ASSUME NEW i \in DOMAIN written'[q]
        PROVE  /\ written'[q][i] \in FilesOf(q)' /\ dir'[written'[q][i]].key = Key(q, i - 1)'
               /\ Checked(q)' => dir'[written'[q][i]].sound
    <3>1. /\ i \in DOMAIN written[q] /\ written'[q][i] = written[q][i]
          /\ written[q][i] \in FilesOf(q) /\ dir'[written[q][i]] = dir[written[q][i]]
      BY <1>1, <1>2, <2>2 DEF Listed
    <3>2. Key(q, i - 1)' = Key(q, i - 1) /\ Checked(q)' = Checked(q)
      BY <1>1 DEF Key, Checked
    <3> QED
      BY <1>1, <1>2, <3>1, <3>2 DEF Listed
  <2>3. /\ pc'[q] \in Made => name'[q] \in FilesOf(q)' /\ dir'[name'[q]].key = Key(q, Len(written[q]))'
        /\ pc'[q] = "report" /\ Checked(q)' => dir'[name'[q]].sound
    BY <1>1, <1>2 DEF Listed, Checked, Key, Made
  <2> QED
    BY <2>1, <2>2, <2>3 DEF Listed
<1>7. Counted(q)'
  <2>1. {dir'[n].key : n \in FilesOf(q)} = {dir[n].key : n \in FilesOf(q)}
    BY <1>2
  <2>2. Cardinality(FilesOf(q))' = Cardinality(FilesOf(q)) /\ IsFiniteSet(FilesOf(q))' = IsFiniteSet(FilesOf(q))
    BY <1>2
  <2>3. {Key(q, i) : i \in 0 .. Cardinality(FilesOf(q)) - 1}' = {Key(q, i) : i \in 0 .. Cardinality(FilesOf(q)) - 1}
    BY <1>1, <2>2 DEF Key
  <2>4. {dir[n].key : n \in FilesOf(q)}' = {dir[n].key : n \in FilesOf(q)}
    BY <1>2, <2>1
  <2> QED
    BY <1>1, <2>2, <2>3, <2>4 DEF Counted
<1> QED
  BY <1>4, <1>5, <1>6, <1>7

(* A step that writes no file keeps the count, if it goes where its files   *)
(* allow it to.                                                             *)
Quiet(p) ==
  /\ dir' = dir /\ job' = job /\ written'[p] = written[p]
  /\ \/ mnemonic'[p] = mnemonic[p] /\ pass'[p] = pass[p]
     \/ FilesOf(p) = {}
  /\ pc'[p] \in Made => pc[p] \in Made
  /\ pc[p] \in Made /\ pc'[p] \notin Made => err'[p] \in {"Write", "KeyVerify"}
  /\ err[p] \in {"Write", "KeyVerify"} => err'[p] = err[p]
  /\ pc'[p] = "done" /\ err'[p] = "Ok" => Cardinality(FilesOf(p)) = job[p].count

LEMMA QuietCounted ==
  ASSUME NEW p \in Procs, Counted(p), Quiet(p)
  PROVE  Counted(p)'
<1>1. /\ FilesOf(p)' = FilesOf(p)
      /\ Cardinality(FilesOf(p))' = Cardinality(FilesOf(p))
      /\ IsFiniteSet(FilesOf(p))' = IsFiniteSet(FilesOf(p))
      /\ {dir[n].key : n \in FilesOf(p)}' = {dir[n].key : n \in FilesOf(p)}
  BY DEF Quiet, FilesOf
<1>2. {Key(p, i) : i \in 0 .. Cardinality(FilesOf(p)) - 1}' = {Key(p, i) : i \in 0 .. Cardinality(FilesOf(p)) - 1}
  <2>1. CASE mnemonic'[p] = mnemonic[p] /\ pass'[p] = pass[p]
    BY <1>1, <2>1 DEF Quiet, Key
  <2>2. CASE FilesOf(p) = {}
    <3>1. Cardinality(FilesOf(p)) = 0
      BY <2>2, FS_EmptySet
    <3> QED
      BY <1>1, <3>1
  <2> QED
    BY <2>1, <2>2 DEF Quiet
<1> QED
  BY <1>1, <1>2 DEF Counted, Quiet

(* The steps that write no file. *)
LEMMA QuietStep ==
  ASSUME IInv, NEW p \in DOMAIN job, Others(p),
         LoadConfig(p) \/ Begin(p) \/ ReadMnemonic(p) \/ ResolvePass(p) \/ TypePass(p) \/ RetypePass(p) \/ Display(p) \/ Confirm(p)
           \/ Reenter(p) \/ AskRetry(p) \/ Clear(p) \/ Unlock(p) \/ ReadPassword(p) \/ ToSeed(p) \/ Loop(p) \/ DeriveSigningKey(p)
           \/ DeriveAccountKey(p) \/ EncryptEip2335(p) \/ EncryptV3(p) \/ Gate(p) \/ Verify(p)
  PROVE  (Secrets(p) /\ Ranged(p) /\ Listed(p) /\ Counted(p))'
<1>1. /\ Typed /\ Secrets(p) /\ Ranged(p) /\ Listed(p) /\ Counted(p)
      /\ p \in Procs /\ job[p].count \in Nat /\ job[p].start \in Nat
      /\ job[p].pass \in Passes \cup {None} /\ job[p].mode \in {"new", "recover"}
      /\ job[p].ns \in {"validator", "account"} /\ job' = job /\ cancel' = cancel
      /\ U32Max \in Nat
  BY JobTyped, NumbersAssumption DEF IInv, Typed, Others
<1>2. FilesOf(p)' = {n \in DOMAIN dir' : dir'[n].by = p}
  BY DEF FilesOf
<1> USE <1>1 DEF Goto, Fail, CheckThen, Cancelled, ToClear, Seal, Glitch, secretVars, termVars, fileVars, envVars, Typed
<1>3. CASE LoadConfig(p)
  <2>1. FilesOf(p)' = FilesOf(p) /\ dir' = dir /\ written' = written /\ name' = name
    BY <1>2, <1>3 DEF LoadConfig, FilesOf
  <2>2. Secrets(p)'
    BY <1>3, <2>1 DEF LoadConfig, Secrets, Ranged, Ceremony, Unlocked, Keyed, Making, Made, New
  <2>3. Ranged(p)'
    BY <1>3, <2>1 DEF LoadConfig, Secrets, Ranged, Keyed, Making, Made, Index
  <2>4. Listed(p)'
    BY <1>3, <2>1 DEF LoadConfig, Ranged, Listed, Checked, Key, Keyed, Making, Made
  <2>5. Quiet(p)
    BY <1>3, <2>1 DEF LoadConfig, Secrets, Ranged, Counted, Quiet, Keyed, Making, Made
  <2> QED
    BY <2>2, <2>3, <2>4, <2>5, QuietCounted
<1>4. CASE Begin(p)
  <2>1. FilesOf(p)' = FilesOf(p) /\ dir' = dir /\ written' = written /\ name' = name
    BY <1>2, <1>4 DEF Begin, FilesOf
  <2>2. Secrets(p)'
    BY <1>4, <2>1 DEF Begin, Secrets, Ranged, Ceremony, Unlocked, Keyed, Making, Made, New
  <2>3. Ranged(p)'
    BY <1>4, <2>1 DEF Begin, Secrets, Ranged, Keyed, Making, Made, Index
  <2>4. Listed(p)'
    BY <1>4, <2>1 DEF Begin, Ranged, Listed, Checked, Key, Keyed, Making, Made
  <2>5. Quiet(p)
    BY <1>4, <2>1 DEF Begin, Secrets, Ranged, Counted, Quiet, Keyed, Making, Made
  <2> QED
    BY <2>2, <2>3, <2>4, <2>5, QuietCounted
<1>5. CASE ReadMnemonic(p)
  <2>1. FilesOf(p)' = FilesOf(p) /\ dir' = dir /\ written' = written /\ name' = name
    BY <1>2, <1>5 DEF ReadMnemonic, FilesOf
  <2>2. Secrets(p)'
    BY <1>5, <2>1 DEF ReadMnemonic, Secrets, Ranged, Ceremony, Unlocked, Keyed, Making, Made, New
  <2>3. Ranged(p)'
    BY <1>5, <2>1 DEF ReadMnemonic, Secrets, Ranged, Keyed, Making, Made, Index
  <2>4. Listed(p)'
    BY <1>5, <2>1 DEF ReadMnemonic, Ranged, Listed, Checked, Key, Keyed, Making, Made
  <2>5. Quiet(p)
    BY <1>5, <2>1 DEF ReadMnemonic, Secrets, Ranged, Counted, Quiet, Keyed, Making, Made
  <2> QED
    BY <2>2, <2>3, <2>4, <2>5, QuietCounted
<1>6. CASE ResolvePass(p)
  <2>1. FilesOf(p)' = FilesOf(p) /\ dir' = dir /\ written' = written /\ name' = name
    BY <1>2, <1>6 DEF ResolvePass, FilesOf
  <2>2. Secrets(p)'
    BY <1>6, <2>1 DEF ResolvePass, Secrets, Ranged, Ceremony, Unlocked, Keyed, Making, Made, New
  <2>3. Ranged(p)'
    BY <1>6, <2>1 DEF ResolvePass, Secrets, Ranged, Keyed, Making, Made, Index
  <2>4. Listed(p)'
    BY <1>6, <2>1 DEF ResolvePass, Ranged, Listed, Checked, Key, Keyed, Making, Made
  <2>5. Quiet(p)
    BY <1>6, <2>1 DEF ResolvePass, Secrets, Ranged, Counted, Quiet, Keyed, Making, Made
  <2> QED
    BY <2>2, <2>3, <2>4, <2>5, QuietCounted
<1>7. CASE TypePass(p)
  <2>1. FilesOf(p)' = FilesOf(p) /\ dir' = dir /\ written' = written /\ name' = name
    BY <1>2, <1>7 DEF TypePass, FilesOf
  <2>2. Secrets(p)'
    BY <1>7, <2>1 DEF TypePass, Secrets, Ranged, Ceremony, Unlocked, Keyed, Making, Made, New
  <2>3. Ranged(p)'
    BY <1>7, <2>1 DEF TypePass, Secrets, Ranged, Keyed, Making, Made, Index
  <2>4. Listed(p)'
    BY <1>7, <2>1 DEF TypePass, Ranged, Listed, Checked, Key, Keyed, Making, Made
  <2>5. Quiet(p)
    BY <1>7, <2>1 DEF TypePass, Secrets, Ranged, Counted, Quiet, Keyed, Making, Made
  <2> QED
    BY <2>2, <2>3, <2>4, <2>5, QuietCounted
<1>8. CASE RetypePass(p)
  <2>1. FilesOf(p)' = FilesOf(p) /\ dir' = dir /\ written' = written /\ name' = name
    BY <1>2, <1>8 DEF RetypePass, FilesOf
  <2>2. Secrets(p)'
    BY <1>8, <2>1 DEF RetypePass, Secrets, Ranged, Ceremony, Unlocked, Keyed, Making, Made, New
  <2>3. Ranged(p)'
    BY <1>8, <2>1 DEF RetypePass, Secrets, Ranged, Keyed, Making, Made, Index
  <2>4. Listed(p)'
    BY <1>8, <2>1 DEF RetypePass, Ranged, Listed, Checked, Key, Keyed, Making, Made
  <2>5. Quiet(p)
    BY <1>8, <2>1 DEF RetypePass, Secrets, Ranged, Counted, Quiet, Keyed, Making, Made
  <2> QED
    BY <2>2, <2>3, <2>4, <2>5, QuietCounted
<1>9. CASE Display(p)
  <2>1. FilesOf(p)' = FilesOf(p) /\ dir' = dir /\ written' = written /\ name' = name
    BY <1>2, <1>9 DEF Display, FilesOf
  <2>2. Secrets(p)'
    BY <1>9, <2>1 DEF Display, Secrets, Ranged, Ceremony, Unlocked, Keyed, Making, Made, New
  <2>3. Ranged(p)'
    BY <1>9, <2>1 DEF Display, Secrets, Ranged, Keyed, Making, Made, Index
  <2>4. Listed(p)'
    BY <1>9, <2>1 DEF Display, Ranged, Listed, Checked, Key, Keyed, Making, Made
  <2>5. Quiet(p)
    BY <1>9, <2>1 DEF Display, Secrets, Ranged, Counted, Quiet, Keyed, Making, Made
  <2> QED
    BY <2>2, <2>3, <2>4, <2>5, QuietCounted
<1>10. CASE Confirm(p)
  <2>1. FilesOf(p)' = FilesOf(p) /\ dir' = dir /\ written' = written /\ name' = name
    BY <1>2, <1>10 DEF Confirm, FilesOf
  <2>2. Secrets(p)'
    BY <1>10, <2>1 DEF Confirm, Secrets, Ranged, Ceremony, Unlocked, Keyed, Making, Made, New
  <2>3. Ranged(p)'
    BY <1>10, <2>1 DEF Confirm, Secrets, Ranged, Keyed, Making, Made, Index
  <2>4. Listed(p)'
    BY <1>10, <2>1 DEF Confirm, Ranged, Listed, Checked, Key, Keyed, Making, Made
  <2>5. Quiet(p)
    BY <1>10, <2>1 DEF Confirm, Secrets, Ranged, Counted, Quiet, Keyed, Making, Made
  <2> QED
    BY <2>2, <2>3, <2>4, <2>5, QuietCounted
<1>11. CASE Reenter(p)
  <2>1. FilesOf(p)' = FilesOf(p) /\ dir' = dir /\ written' = written /\ name' = name
    BY <1>2, <1>11 DEF Reenter, FilesOf
  <2>2. Secrets(p)'
    BY <1>11, <2>1 DEF Reenter, Secrets, Ranged, Ceremony, Unlocked, Keyed, Making, Made, New
  <2>3. Ranged(p)'
    BY <1>11, <2>1 DEF Reenter, Secrets, Ranged, Keyed, Making, Made, Index
  <2>4. Listed(p)'
    BY <1>11, <2>1 DEF Reenter, Ranged, Listed, Checked, Key, Keyed, Making, Made
  <2>5. Quiet(p)
    BY <1>11, <2>1 DEF Reenter, Secrets, Ranged, Counted, Quiet, Keyed, Making, Made
  <2> QED
    BY <2>2, <2>3, <2>4, <2>5, QuietCounted
<1>12. CASE AskRetry(p)
  <2>1. FilesOf(p)' = FilesOf(p) /\ dir' = dir /\ written' = written /\ name' = name
    BY <1>2, <1>12 DEF AskRetry, FilesOf
  <2>2. Secrets(p)'
    BY <1>12, <2>1 DEF AskRetry, Secrets, Ranged, Ceremony, Unlocked, Keyed, Making, Made, New
  <2>3. Ranged(p)'
    BY <1>12, <2>1 DEF AskRetry, Secrets, Ranged, Keyed, Making, Made, Index
  <2>4. Listed(p)'
    BY <1>12, <2>1 DEF AskRetry, Ranged, Listed, Checked, Key, Keyed, Making, Made
  <2>5. Quiet(p)
    BY <1>12, <2>1 DEF AskRetry, Secrets, Ranged, Counted, Quiet, Keyed, Making, Made
  <2> QED
    BY <2>2, <2>3, <2>4, <2>5, QuietCounted
<1>13. CASE Clear(p)
  <2>1. FilesOf(p)' = FilesOf(p) /\ dir' = dir /\ written' = written /\ name' = name
    BY <1>2, <1>13 DEF Clear, FilesOf
  <2>2. Secrets(p)'
    BY <1>13, <2>1 DEF Clear, Secrets, Ranged, Ceremony, Unlocked, Keyed, Making, Made, New
  <2>3. Ranged(p)'
    BY <1>13, <2>1 DEF Clear, Secrets, Ranged, Keyed, Making, Made, Index
  <2>4. Listed(p)'
    BY <1>13, <2>1 DEF Clear, Ranged, Listed, Checked, Key, Keyed, Making, Made
  <2>5. Quiet(p)
    BY <1>13, <2>1 DEF Clear, Secrets, Ranged, Counted, Quiet, Keyed, Making, Made
  <2> QED
    BY <2>2, <2>3, <2>4, <2>5, QuietCounted
<1>14. CASE Unlock(p)
  <2>1. FilesOf(p)' = FilesOf(p) /\ dir' = dir /\ written' = written /\ name' = name
    BY <1>2, <1>14 DEF Unlock, FilesOf
  <2>2. Secrets(p)'
    BY <1>14, <2>1 DEF Unlock, Secrets, Ranged, Ceremony, Unlocked, Keyed, Making, Made, New
  <2>3. Ranged(p)'
    BY <1>14, <2>1 DEF Unlock, Secrets, Ranged, Keyed, Making, Made, Index
  <2>4. Listed(p)'
    BY <1>14, <2>1 DEF Unlock, Ranged, Listed, Checked, Key, Keyed, Making, Made
  <2>5. Quiet(p)
    BY <1>14, <2>1 DEF Unlock, Secrets, Ranged, Counted, Quiet, Keyed, Making, Made
  <2> QED
    BY <2>2, <2>3, <2>4, <2>5, QuietCounted
<1>15. CASE ReadPassword(p)
  <2>1. FilesOf(p)' = FilesOf(p) /\ dir' = dir /\ written' = written /\ name' = name
    BY <1>2, <1>15 DEF ReadPassword, FilesOf
  <2>2. Secrets(p)'
    BY <1>15, <2>1 DEF ReadPassword, Secrets, Ranged, Ceremony, Unlocked, Keyed, Making, Made, New
  <2>3. Ranged(p)'
    BY <1>15, <2>1 DEF ReadPassword, Secrets, Ranged, Keyed, Making, Made, Index
  <2>4. Listed(p)'
    BY <1>15, <2>1 DEF ReadPassword, Ranged, Listed, Checked, Key, Keyed, Making, Made
  <2>5. Quiet(p)
    BY <1>15, <2>1 DEF ReadPassword, Secrets, Ranged, Counted, Quiet, Keyed, Making, Made
  <2> QED
    BY <2>2, <2>3, <2>4, <2>5, QuietCounted
<1>16. CASE ToSeed(p)
  <2>1. FilesOf(p)' = FilesOf(p) /\ dir' = dir /\ written' = written /\ name' = name
    BY <1>2, <1>16 DEF ToSeed, FilesOf
  <2>2. Secrets(p)'
    BY <1>16, <2>1 DEF ToSeed, Secrets, Ranged, Ceremony, Unlocked, Keyed, Making, Made, New
  <2>3. Ranged(p)'
    BY <1>16, <2>1 DEF ToSeed, Secrets, Ranged, Keyed, Making, Made, Index
  <2>4. Listed(p)'
    BY <1>16, <2>1 DEF ToSeed, Ranged, Listed, Checked, Key, Keyed, Making, Made
  <2>5. Quiet(p)
    BY <1>16, <2>1 DEF ToSeed, Secrets, Ranged, Counted, Quiet, Keyed, Making, Made
  <2> QED
    BY <2>2, <2>3, <2>4, <2>5, QuietCounted
<1>17. CASE Loop(p)
  <2>1. FilesOf(p)' = FilesOf(p) /\ dir' = dir /\ written' = written /\ name' = name
    BY <1>2, <1>17 DEF Loop, FilesOf
  <2>2. Secrets(p)'
    BY <1>17, <2>1 DEF Loop, Secrets, Ranged, Ceremony, Unlocked, Keyed, Making, Made, New
  <2>3. Ranged(p)'
    BY <1>17, <2>1 DEF Loop, Secrets, Ranged, Keyed, Making, Made, Index
  <2>4. Listed(p)'
    BY <1>17, <2>1 DEF Loop, Ranged, Listed, Checked, Key, Keyed, Making, Made
  <2>5. Quiet(p)
    BY <1>17, <2>1 DEF Loop, Secrets, Ranged, Counted, Quiet, Keyed, Making, Made
  <2> QED
    BY <2>2, <2>3, <2>4, <2>5, QuietCounted
<1>18. CASE DeriveSigningKey(p)
  <2>1. FilesOf(p)' = FilesOf(p) /\ dir' = dir /\ written' = written /\ name' = name
    BY <1>2, <1>18 DEF DeriveSigningKey, FilesOf
  <2>2. Secrets(p)'
    BY <1>18, <2>1 DEF DeriveSigningKey, Secrets, Ranged, Ceremony, Unlocked, Keyed, Making, Made, New
  <2>3. Ranged(p)'
    BY <1>18, <2>1 DEF DeriveSigningKey, Secrets, Ranged, Keyed, Making, Made, Index
  <2>4. Listed(p)'
    BY <1>18, <2>1 DEF DeriveSigningKey, Ranged, Listed, Checked, Key, Keyed, Making, Made
  <2>5. Quiet(p)
    BY <1>18, <2>1 DEF DeriveSigningKey, Secrets, Ranged, Counted, Quiet, Keyed, Making, Made
  <2> QED
    BY <2>2, <2>3, <2>4, <2>5, QuietCounted
<1>19. CASE DeriveAccountKey(p)
  <2>1. FilesOf(p)' = FilesOf(p) /\ dir' = dir /\ written' = written /\ name' = name
    BY <1>2, <1>19 DEF DeriveAccountKey, FilesOf
  <2>2. Secrets(p)'
    BY <1>19, <2>1 DEF DeriveAccountKey, Secrets, Ranged, Ceremony, Unlocked, Keyed, Making, Made, New
  <2>3. Ranged(p)'
    BY <1>19, <2>1 DEF DeriveAccountKey, Secrets, Ranged, Keyed, Making, Made, Index
  <2>4. Listed(p)'
    BY <1>19, <2>1 DEF DeriveAccountKey, Ranged, Listed, Checked, Key, Keyed, Making, Made
  <2>5. Quiet(p)
    BY <1>19, <2>1 DEF DeriveAccountKey, Secrets, Ranged, Counted, Quiet, Keyed, Making, Made
  <2> QED
    BY <2>2, <2>3, <2>4, <2>5, QuietCounted
<1>20. CASE EncryptEip2335(p)
  <2>1. FilesOf(p)' = FilesOf(p) /\ dir' = dir /\ written' = written /\ name' = name
    BY <1>2, <1>20 DEF EncryptEip2335, FilesOf
  <2>2. Secrets(p)'
    BY <1>20, <2>1 DEF EncryptEip2335, Secrets, Ranged, Ceremony, Unlocked, Keyed, Making, Made, New
  <2>3. Ranged(p)'
    BY <1>20, <2>1 DEF EncryptEip2335, Secrets, Ranged, Keyed, Making, Made, Index
  <2>4. Listed(p)'
    BY <1>20, <2>1 DEF EncryptEip2335, Ranged, Listed, Checked, Key, Keyed, Making, Made
  <2>5. Quiet(p)
    BY <1>20, <2>1 DEF EncryptEip2335, Secrets, Ranged, Counted, Quiet, Keyed, Making, Made
  <2> QED
    BY <2>2, <2>3, <2>4, <2>5, QuietCounted
<1>21. CASE EncryptV3(p)
  <2>1. FilesOf(p)' = FilesOf(p) /\ dir' = dir /\ written' = written /\ name' = name
    BY <1>2, <1>21 DEF EncryptV3, FilesOf
  <2>2. Secrets(p)'
    BY <1>21, <2>1 DEF EncryptV3, Secrets, Ranged, Ceremony, Unlocked, Keyed, Making, Made, New
  <2>3. Ranged(p)'
    BY <1>21, <2>1 DEF EncryptV3, Secrets, Ranged, Keyed, Making, Made, Index
  <2>4. Listed(p)'
    BY <1>21, <2>1 DEF EncryptV3, Ranged, Listed, Checked, Key, Keyed, Making, Made
  <2>5. Quiet(p)
    BY <1>21, <2>1 DEF EncryptV3, Secrets, Ranged, Counted, Quiet, Keyed, Making, Made
  <2> QED
    BY <2>2, <2>3, <2>4, <2>5, QuietCounted
<1>22. CASE Gate(p)
  <2>1. FilesOf(p)' = FilesOf(p) /\ dir' = dir /\ written' = written /\ name' = name
    BY <1>2, <1>22 DEF Gate, FilesOf
  <2>2. Secrets(p)'
    BY <1>22, <2>1 DEF Gate, Secrets, Ranged, Ceremony, Unlocked, Keyed, Making, Made, New
  <2>3. Ranged(p)'
    BY <1>22, <2>1 DEF Gate, Secrets, Ranged, Keyed, Making, Made, Index
  <2>4. Listed(p)'
    BY <1>22, <2>1 DEF Gate, Ranged, Listed, Checked, Key, Keyed, Making, Made
  <2>5. Quiet(p)
    BY <1>22, <2>1 DEF Gate, Secrets, Ranged, Counted, Quiet, Keyed, Making, Made
  <2> QED
    BY <2>2, <2>3, <2>4, <2>5, QuietCounted
<1>23. CASE Verify(p)
  <2>1. FilesOf(p)' = FilesOf(p) /\ dir' = dir /\ written' = written /\ name' = name
    BY <1>2, <1>23 DEF Verify, FilesOf
  <2>2. Secrets(p)'
    BY <1>23, <2>1 DEF Verify, Secrets, Ranged, Ceremony, Unlocked, Keyed, Making, Made, New
  <2>3. Ranged(p)'
    BY <1>23, <2>1 DEF Verify, Secrets, Ranged, Keyed, Making, Made, Index
  <2>4. Listed(p)'
    BY <1>23, <2>1 DEF Verify, Ranged, Listed, Checked, Key, Keyed, Making, Made
  <2>5. Quiet(p)
    BY <1>23, <2>1 DEF Verify, Secrets, Ranged, Counted, Quiet, Keyed, Making, Made
  <2> QED
    BY <2>2, <2>3, <2>4, <2>5, QuietCounted
<1> QED
  BY <1>3, <1>4, <1>5, <1>6, <1>7, <1>8, <1>9, <1>10, <1>11, <1>12, <1>13, <1>14, <1>15, <1>16, <1>17, <1>18, <1>19, <1>20, <1>21, <1>22, <1>23

(* A step that puts the keystore of the present index under a free name.    *)
Puts(p, n) ==
  /\ pc[p] \in {"write", "rewrite"} /\ n \notin DOMAIN dir /\ Put(p, n)
  /\ UNCHANGED <<secretVars, termVars, sound, written, envVars>>
  /\ \/ Goto(p, AfterWrite(p)) /\ name' = [name EXCEPT ![p] = n]
     \/ Fail(p, "Write") /\ UNCHANGED name

LEMMA PutStep ==
  ASSUME IInv, NEW p \in DOMAIN job, NEW n, Puts(p, n)
  PROVE  (Secrets(p) /\ Ranged(p) /\ Listed(p) /\ Counted(p) /\ Stored)'
<1>1. /\ Typed /\ Secrets(p) /\ Ranged(p) /\ Listed(p) /\ Counted(p) /\ Stored
      /\ p \in Procs /\ job[p].count \in Nat /\ job[p].start \in Nat
      /\ job[p].ns \in {"validator", "account"} /\ U32Max \in Nat
  BY JobTyped, NumbersAssumption DEF IInv, Typed
<1>0. PICK w \in Nat : w = Len(written[p])
  BY <1>1 DEF Ranged
<1>2. /\ pc[p] \in {"write", "rewrite"} /\ err[p] = "Ok" /\ n \notin DOMAIN dir
      /\ w < job[p].count /\ job[p].start + (job[p].count - 1) <= U32Max
      /\ late[p] = 0
  BY <1>0, <1>1 DEF Puts, Secrets, Ranged, Making
<1>3. /\ UNCHANGED <<mnemonic, pass, password, screen, retyped, refused, sound, written, job, cancel>>
      /\ \/ pc'[p] \in {"verify", "report"} /\ err'[p] = "Ok" /\ name'[p] = n
            /\ (pc'[p] = "report" => ~Checked(p))
         \/ pc'[p] = "done" /\ err'[p] = "Write"
  BY <1>1, <1>2 DEF Puts, Goto, Fail, AfterWrite, Checked, Typed, secretVars, termVars, envVars
<1>4. /\ DOMAIN dir' = DOMAIN dir \cup {n}
      /\ \A m \in DOMAIN dir : dir'[m] = dir[m]
      /\ dir'[n] = [key |-> Key(p, w), password |-> password[p], by |-> p, sound |-> sound[p]]
      /\ late'[p] = IF cancel[p] THEN 1 ELSE 0
  BY <1>0, <1>1, <1>2 DEF Puts, Put, Typed
<1>5. FilesOf(p)' = FilesOf(p) \cup {n} /\ n \notin FilesOf(p)
  BY <1>2, <1>4 DEF FilesOf
<1>6. \A i : Key(p, i)' = Key(p, i)
  BY <1>3 DEF Key
<1>7. Secrets(p)'
  BY <1>1, <1>2, <1>3, <1>5 DEF Secrets, New, Ceremony, Unlocked, Keyed, Making, Made
<1>8. Ranged(p)'
  <2>1. written[p] \in Seq(DOMAIN dir')
    BY <1>1, <1>4 DEF Ranged
  <2> QED
    BY <1>0, <1>1, <1>2, <1>3, <1>4, <2>1 DEF Ranged, Keyed, Making, Made
<1>9. Listed(p)'
  <2>1. \A m \in FilesOf(p)' : dir'[m].password = password'[p]
    BY <1>1, <1>3, <1>4, <1>5 DEF Listed, FilesOf
  <2>2. ASSUME NEW i \in DOMAIN written'[p]
        PROVE  /\ written'[p][i] \in FilesOf(p)' /\ dir'[written'[p][i]].key = Key(p, i - 1)'
               /\ Checked(p)' => dir'[written'[p][i]].sound
    <3>1. /\ i \in DOMAIN written[p] /\ written'[p][i] = written[p][i]
          /\ written[p][i] \in FilesOf(p) /\ dir'[written[p][i]] = dir[written[p][i]]
      BY <1>1, <1>3, <1>4, <2>2 DEF Listed, FilesOf
    <3>2. Key(p, i - 1)' = Key(p, i - 1) /\ Checked(p)' = Checked(p)
      BY <1>3 DEF Key, Checked
    <3> QED
      BY <1>1, <1>5, <3>1, <3>2 DEF Listed
  <2>3. /\ pc'[p] \in Made => name'[p] \in FilesOf(p)' /\ dir'[name'[p]].key = Key(p, Len(written[p]))'
        /\ pc'[p] = "report" /\ Checked(p)' => dir'[name'[p]].sound
    BY <1>0, <1>3, <1>4, <1>5 DEF Checked, Key, Made
  <2> QED
    BY <2>1, <2>2, <2>3 DEF Listed
<1>10. Counted(p)'
  <2>1. /\ IsFiniteSet(FilesOf(p)) /\ Cardinality(FilesOf(p)) = w
        /\ {dir[m].key : m \in FilesOf(p)} = {Key(p, i) : i \in 0 .. w - 1}
    BY <1>0, <1>1, <1>2 DEF Counted, Made
  <2>2. IsFiniteSet(FilesOf(p) \cup {n}) /\ Cardinality(FilesOf(p) \cup {n}) = w + 1
    BY <1>5, <2>1, FS_AddElement
  <2>3. {dir'[m].key : m \in FilesOf(p) \cup {n}} = {dir[m].key : m \in FilesOf(p)} \cup {Key(p, w)}
    BY <1>4 DEF FilesOf
  <2>4. {Key(p, i) : i \in 0 .. w + 1 - 1} = {Key(p, i) : i \in 0 .. w - 1} \cup {Key(p, w)}
    <3>1. 0 .. w + 1 - 1 = (0 .. w - 1) \cup {w}
      BY <1>2
    <3> QED
      BY <3>1
  <2>5. {dir[m].key : m \in FilesOf(p)}' = {Key(p, i) : i \in 0 .. w + 1 - 1}
    BY <1>5, <2>1, <2>3, <2>4
  <2>6. {Key(p, i) : i \in 0 .. w + 1 - 1}' = {Key(p, i) : i \in 0 .. w + 1 - 1}
    BY <1>3 DEF Key
  <2>7. Cardinality(FilesOf(p))' = w + 1 /\ IsFiniteSet(FilesOf(p))' /\ Len(written'[p]) = w
    BY <1>0, <1>3, <1>5, <2>2
  <2>8. {Key(p, i) : i \in 0 .. Cardinality(FilesOf(p)) - 1}' = {Key(p, i) : i \in 0 .. w + 1 - 1}'
    BY <2>7
  <2>9. {dir[m].key : m \in FilesOf(p)}' = {Key(p, i) : i \in 0 .. Cardinality(FilesOf(p)) - 1}'
    BY <2>5, <2>6, <2>8
  <2> QED
    BY <1>2, <1>3, <2>7, <2>9 DEF Counted, Made
<1>11. Stored'
  <2>1. Key(p, w) \in (Mnemonics \cup Procs) \X Passes \X {"validator", "account"} \X (0 .. U32Max)
    BY <1>1, <1>2 DEF Secrets, Ranged, Key, Keyed, Making, Made
  <2>2. dir'[n] \in Keystores
    BY <1>1, <1>2, <1>4, <2>1 DEF Keystores, Secrets, Typed, Keyed, Making, Made
  <2> QED
    BY <1>1, <1>4, <2>2 DEF Stored
<1> QED
  BY <1>7, <1>8, <1>9, <1>10, <1>11

LEMMA WriteStep ==
  ASSUME IInv, NEW p \in DOMAIN job, Write(p) \/ Rewrite(p)
  PROVE  (Secrets(p) /\ Ranged(p) /\ Listed(p) /\ Counted(p) /\ Stored)'
<1>1. CASE \E n : Puts(p, n)
  BY <1>1, PutStep
<1>2. CASE /\ pc[p] \in {"write", "rewrite"}
           /\ \/ Goto(p, "rewrite") \/ Fail(p, "Write")
           /\ UNCHANGED <<secretVars, termVars, fileVars, envVars>>
  <2>1. /\ Typed /\ Secrets(p) /\ Ranged(p) /\ Listed(p) /\ Counted(p) /\ Stored /\ p \in Procs
        /\ job[p].count \in Nat
    BY JobTyped DEF IInv, Typed
  <2> USE <1>2, <2>1 DEF Goto, Fail, secretVars, termVars, fileVars, envVars, Typed
  <2>2. FilesOf(p)' = FilesOf(p)
    BY DEF FilesOf
  <2>3. Secrets(p)'
    BY <2>2 DEF Secrets, Ceremony, Unlocked, Keyed, Making, Made, New
  <2>4. Ranged(p)'
    BY <2>2 DEF Ranged, Keyed, Making, Made
  <2>5. Listed(p)'
    BY <2>2 DEF Listed, Checked, Key, Made
  <2>6. Quiet(p)
    BY <2>2 DEF Quiet, Secrets, Making, Made
  <2> QED
    BY <2>3, <2>4, <2>5, <2>6, QuietCounted DEF Stored
<1> QED
  <2>1. CASE Write(p)
    BY <1>1, <1>2, <2>1 DEF Write, WriteNew, Puts, fileVars
  <2>2. CASE Rewrite(p)
    BY <1>1, <1>2, <2>2 DEF Rewrite, WriteNew, Puts, fileVars
  <2> QED
    BY <2>1, <2>2

LEMMA ReportStep ==
  ASSUME IInv, NEW p \in DOMAIN job, Report(p)
  PROVE  (Secrets(p) /\ Ranged(p) /\ Listed(p) /\ Counted(p))'
<1>1. /\ Typed /\ Secrets(p) /\ Ranged(p) /\ Listed(p) /\ Counted(p) /\ p \in Procs
      /\ job[p].count \in Nat /\ pc[p] = "report"
  BY JobTyped DEF IInv, Typed, Report
<1>2. /\ pc'[p] = "loop" /\ UNCHANGED <<err, job, cancel, mnemonic, pass, password, screen, retyped, refused, dir, name, late>>
      /\ FilesOf(p)' = FilesOf(p) /\ written'[p] = Append(written[p], name[p])
  BY <1>1 DEF Report, Goto, secretVars, termVars, envVars, Typed, FilesOf
<1>0. PICK w \in Nat : w = Len(written[p])
  BY <1>1 DEF Ranged
<1>3. /\ written[p] \in Seq(DOMAIN dir) /\ name[p] \in FilesOf(p) /\ name[p] \in DOMAIN dir
      /\ w < job[p].count /\ dir[name[p]].key = Key(p, w) /\ (Checked(p) => dir[name[p]].sound)
      /\ Cardinality(FilesOf(p)) = w + 1
  BY <1>0, <1>1 DEF Ranged, Listed, Counted, Made, FilesOf
<1>4. written'[p] \in Seq(DOMAIN dir) /\ Len(written'[p]) = w + 1
  BY <1>0, <1>2, <1>3
<1>5. Secrets(p)'
  BY <1>1, <1>2 DEF Secrets, Ceremony, Unlocked, Keyed, Making, Made, New
<1>6. Ranged(p)'
  BY <1>0, <1>1, <1>2, <1>3, <1>4 DEF Ranged, Keyed, Making, Made
<1>7. Listed(p)'
  <2>1. ASSUME NEW i \in DOMAIN written'[p]
        PROVE  /\ written'[p][i] \in FilesOf(p)' /\ dir'[written'[p][i]].key = Key(p, i - 1)'
               /\ Checked(p)' => dir'[written'[p][i]].sound
    <3>1. Key(p, i - 1)' = Key(p, i - 1) /\ Checked(p)' = Checked(p)
      BY <1>2 DEF Key, Checked
    <3>2. CASE i \in DOMAIN written[p]
      <4>1. written'[p][i] = written[p][i]
        BY <1>0, <1>2, <1>3, <3>2
      <4> QED
        BY <1>1, <1>2, <3>1, <3>2, <4>1 DEF Listed
    <3>3. CASE i = w + 1
      <4>1. written'[p][i] = name[p] /\ i - 1 = w
        BY <1>0, <1>2, <1>3, <3>3
      <4> QED
        BY <1>2, <1>3, <3>1, <4>1
    <3> QED
      BY <1>0, <1>2, <1>3, <1>4, <2>1, <3>2, <3>3
  <2> QED
    BY <1>1, <1>2, <2>1 DEF Listed, Made
<1>8. Counted(p)'
  <2>0. w + 1 - 1 = w
    OBVIOUS
  <2>1. {dir[n].key : n \in FilesOf(p)}' = {Key(p, i) : i \in 0 .. w}
    <3>1. {dir[n].key : n \in FilesOf(p)} = {Key(p, i) : i \in 0 .. w}
      <4>1. {Key(p, i) : i \in 0 .. Cardinality(FilesOf(p)) - 1} = {Key(p, i) : i \in 0 .. w}
        BY <1>3, <2>0
      <4> QED
        BY <1>1, <4>1 DEF Counted
    <3> QED
      BY <1>2, <3>1
  <2>2. {Key(p, i) : i \in 0 .. w}' = {Key(p, i) : i \in 0 .. w}
    BY <1>2 DEF Key
  <2>3. Cardinality(FilesOf(p))' = w + 1 /\ IsFiniteSet(FilesOf(p))'
    BY <1>1, <1>2, <1>3 DEF Counted
  <2>4. {Key(p, i) : i \in 0 .. Cardinality(FilesOf(p)) - 1}' = {Key(p, i) : i \in 0 .. w}'
    BY <2>0, <2>3
  <2>5. {dir[n].key : n \in FilesOf(p)}' = {Key(p, i) : i \in 0 .. Cardinality(FilesOf(p)) - 1}'
    BY <2>1, <2>2, <2>4
  <2> QED
    BY <1>1, <1>2, <1>4, <2>3, <2>5 DEF Counted, Made
<1> QED
  BY <1>5, <1>6, <1>7, <1>8

LEMMA TypedStep ==
  ASSUME Typed, NEW p \in DOMAIN job, Step(p)
  PROVE  Typed'
<1>1. p \in Procs /\ job[p].pass \in Passes \cup {None}
  BY JobTyped DEF Typed
<1> USE <1>1, NumbersAssumption DEF Goto, Fail, CheckThen, Cancelled, ToClear, Seal, Glitch, WriteNew, Put, AfterWrite, secretVars, termVars, fileVars, envVars, Typed, Labels, Errors
<1>2. CASE LoadConfig(p)
  BY <1>2 DEF LoadConfig
<1>3. CASE Begin(p)
  BY <1>3 DEF Begin
<1>4. CASE ReadMnemonic(p)
  BY <1>4 DEF ReadMnemonic
<1>5. CASE ResolvePass(p)
  BY <1>5 DEF ResolvePass
<1>6. CASE TypePass(p)
  BY <1>6 DEF TypePass
<1>7. CASE RetypePass(p)
  BY <1>7 DEF RetypePass
<1>8. CASE Display(p)
  BY <1>8 DEF Display
<1>9. CASE Confirm(p)
  BY <1>9 DEF Confirm
<1>10. CASE Reenter(p)
  BY <1>10 DEF Reenter
<1>11. CASE AskRetry(p)
  BY <1>11 DEF AskRetry
<1>12. CASE Clear(p)
  <2>1. PICK failed \in SUBSET Attempts :
          /\ refused' = [refused EXCEPT ![p] = failed]
          /\ screen' = [screen EXCEPT ![p] = IF failed = {} THEN "cleared"
                                            ELSE IF failed # Attempts THEN "warned" ELSE @]
    BY <1>12 DEF Clear, Attempts
  <2>2. refused' \in [Procs -> SUBSET Attempts]
    BY <2>1
  <2>3. screen' \in [Procs -> {"plain", "mnemonic", "cleared", "warned"}]
    BY <2>1
  <2> QED
    BY <1>12, <2>2, <2>3 DEF Clear
<1>13. CASE Unlock(p)
  BY <1>13 DEF Unlock
<1>14. CASE ReadPassword(p)
  BY <1>14 DEF ReadPassword
<1>15. CASE ToSeed(p)
  BY <1>15 DEF ToSeed
<1>16. CASE Loop(p)
  BY <1>16 DEF Loop
<1>17. CASE DeriveSigningKey(p)
  BY <1>17 DEF DeriveSigningKey
<1>18. CASE DeriveAccountKey(p)
  BY <1>18 DEF DeriveAccountKey
<1>19. CASE EncryptEip2335(p)
  <2>1. /\ sound' \in [Procs -> BOOLEAN] /\ pc' \in [Procs -> Labels] /\ err' \in [Procs -> Errors]
    <3>1. sound' \in [Procs -> BOOLEAN]
      BY <1>19 DEF EncryptEip2335
    <3>2. pc' \in [Procs -> Labels]
      BY <1>19 DEF EncryptEip2335
    <3>3. err' \in [Procs -> Errors]
      BY <1>19 DEF EncryptEip2335
    <3> QED
      BY <3>1, <3>2, <3>3
  <2>2. glitches' \in 0 .. MaxGlitches /\ UNCHANGED <<job, cancel, pwFile, edits>>
    BY <1>19 DEF EncryptEip2335
  <2> QED
    BY <1>19, <2>1, <2>2 DEF EncryptEip2335
<1>20. CASE EncryptV3(p)
  <2>1. /\ sound' \in [Procs -> BOOLEAN] /\ pc' \in [Procs -> Labels] /\ err' \in [Procs -> Errors]
    <3>1. sound' \in [Procs -> BOOLEAN]
      BY <1>20 DEF EncryptV3
    <3>2. pc' \in [Procs -> Labels]
      BY <1>20 DEF EncryptV3
    <3>3. err' \in [Procs -> Errors]
      BY <1>20 DEF EncryptV3
    <3> QED
      BY <3>1, <3>2, <3>3
  <2>2. glitches' \in 0 .. MaxGlitches /\ UNCHANGED <<job, cancel, pwFile, edits>>
    BY <1>20 DEF EncryptV3
  <2> QED
    BY <1>20, <2>1, <2>2 DEF EncryptV3
<1>21. CASE Gate(p)
  BY <1>21 DEF Gate
<1>22. CASE Write(p)
  <2>1. pc' \in [Procs -> Labels] /\ err' \in [Procs -> Errors]
    BY <1>22 DEF Write
  <2>2. late' \in [Procs -> Nat] /\ name' = [q \in Procs |-> name'[q]]
    <3>1. name' = [q \in Procs |-> name'[q]]
      BY <1>22 DEF Write
    <3>2. late' = late \/ late' = [late EXCEPT ![p] = IF cancel[p] THEN @ + 1 ELSE @]
      BY <1>22 DEF Write
    <3> QED
      BY <3>1, <3>2
  <2>3. dir' = [n \in DOMAIN dir' |-> dir'[n]]
    BY <1>22 DEF Write
  <2> QED
    BY <1>22, <2>1, <2>2, <2>3 DEF Write
<1>23. CASE Rewrite(p)
  <2>1. pc' \in [Procs -> Labels] /\ err' \in [Procs -> Errors]
    BY <1>23 DEF Rewrite
  <2>2. late' \in [Procs -> Nat] /\ name' = [q \in Procs |-> name'[q]]
    <3>1. name' = [q \in Procs |-> name'[q]]
      BY <1>23 DEF Rewrite
    <3>2. late' = late \/ late' = [late EXCEPT ![p] = IF cancel[p] THEN @ + 1 ELSE @]
      BY <1>23 DEF Rewrite
    <3> QED
      BY <3>1, <3>2
  <2>3. dir' = [n \in DOMAIN dir' |-> dir'[n]]
    BY <1>23 DEF Rewrite
  <2> QED
    BY <1>23, <2>1, <2>2, <2>3 DEF Rewrite
<1>24. CASE Verify(p)
  <2>1. Goto(p, "report") \/ Fail(p, "KeyVerify")
    BY <1>24 DEF Verify
  <2>2. UNCHANGED <<secretVars, termVars, fileVars, envVars>>
    BY <1>24 DEF Verify
  <2> QED
    BY <2>1, <2>2
<1>25. CASE Report(p)
  BY <1>25 DEF Report
<1> QED
  BY <1>2, <1>3, <1>4, <1>5, <1>6, <1>7, <1>8, <1>9, <1>10, <1>11, <1>12, <1>13, <1>14, <1>15, <1>16, <1>17, <1>18, <1>19, <1>20, <1>21, <1>22, <1>23, <1>24, <1>25 DEF Step

(* The summary's names, like those of the files, are names there are.       *)
LEMMA NamedStep ==
  ASSUME Typed, Named, NEW p \in DOMAIN job, Step(p)
  PROVE  Named'
<1>1. p \in Procs /\ Others(p) /\ Files(p)
  BY StepLeaves, JobTyped DEF Typed
<1>2. name'[p] = name[p] \/ name'[p] \in DOMAIN dir'
  <2>1. CASE Write(p) \/ Rewrite(p)
    <3>1. CASE dir' = dir /\ name' = name
      BY <3>1
    <3>2. CASE \E n : Put(p, n) /\ (name' = [name EXCEPT ![p] = n] \/ name' = name)
      BY <1>1, <3>2 DEF Put, Typed
    <3> QED
      BY <2>1, <3>1, <3>2 DEF Write, Rewrite, WriteNew
  <2>2. CASE ~(Write(p) \/ Rewrite(p))
    BY <2>2 DEF Step, LoadConfig, Begin, ReadMnemonic, ResolvePass, TypePass, RetypePass, Display, Confirm, Reenter, AskRetry, Clear, Unlock, ReadPassword, ToSeed, Loop, DeriveSigningKey, DeriveAccountKey, EncryptEip2335, EncryptV3, Gate, Verify, Report,
       Seal, secretVars, fileVars
  <2> QED
    BY <2>1, <2>2
<1> QED
  BY <1>1, <1>2 DEF Named, Others, Files

LEMMA StoredKept ==
  ASSUME Stored, dir' = dir
  PROVE  Stored'
BY DEF Stored

LEMMA IInvStep == IInv /\ [Next]_vars => IInv'
<1> SUFFICES ASSUME IInv, [Next]_vars PROVE IInv'
  OBVIOUS
<1>1. ASSUME NEW p \in DOMAIN job, Step(p) PROVE IInv'
  <2>1. Others(p) /\ Files(p) /\ Typed' /\ Named'
    BY <1>1, StepLeaves, TypedStep, NamedStep DEF IInv
  <2>2. (Secrets(p) /\ Ranged(p) /\ Listed(p) /\ Counted(p) /\ Stored)'
    <3>1. CASE Write(p) \/ Rewrite(p)
      BY <3>1, WriteStep
    <3>2. CASE Report(p)
      <4>1. dir' = dir
        BY <3>2 DEF Report
      <4> QED
        BY <3>2, <4>1, ReportStep, StoredKept DEF IInv
    <3>3. CASE ~(Write(p) \/ Rewrite(p) \/ Report(p))
      <4>1. dir' = dir
        BY <1>1, <3>3 DEF Step, LoadConfig, Begin, ReadMnemonic, ResolvePass, TypePass, RetypePass, Display, Confirm, Reenter, AskRetry, Clear, Unlock, ReadPassword, ToSeed, Loop, DeriveSigningKey, DeriveAccountKey, EncryptEip2335, EncryptV3, Gate, Verify, Report,
           Seal, secretVars, fileVars
      <4> QED
        BY <1>1, <2>1, <3>3, <4>1, QuietStep, StoredKept DEF IInv, Step
    <3> QED
      BY <3>1, <3>2, <3>3
  <2>3. \A q \in DOMAIN job \ {p} : (Secrets(q) /\ Ranged(q) /\ Listed(q) /\ Counted(q))'
    BY <2>1, OthersKept
  <2>4. Idle'
    <3>1. p \in Procs /\ job' = job
      BY <2>1, JobTyped DEF IInv, Typed, Others
    <3> QED
      BY <2>1, <3>1 DEF IInv, Idle, Others, Files, FilesOf
  <2>5. job' = job
    BY <2>1 DEF Others
  <2> QED
    BY <2>1, <2>2, <2>3, <2>4, <2>5 DEF IInv
<1>2. ASSUME UNCHANGED <<pc, err, secretVars, termVars, fileVars, job>>,
             \A p \in DOMAIN job : cancel[p] => cancel'[p],
             cancel' \in [Procs -> BOOLEAN], pwFile' \in Passwords,
             edits' \in 0 .. MaxEdits, glitches' = glitches
      PROVE  IInv'
  <2> USE <1>2 DEF secretVars, termVars, fileVars
  <2>1. Typed'
    BY DEF IInv, Typed
  <2>2. Stored' /\ Named' /\ Idle'
    BY DEF IInv, Stored, Named, Idle, FilesOf
  <2>3. ASSUME NEW p \in DOMAIN job PROVE (Secrets(p) /\ Ranged(p) /\ Listed(p) /\ Counted(p))'
    <3>1. Secrets(p) /\ Ranged(p) /\ Listed(p) /\ Counted(p)
      BY DEF IInv
    <3>2. Secrets(p)'
      BY <3>1 DEF Secrets, New, FilesOf
    <3>3. Ranged(p)'
      BY <3>1, <2>3 DEF Ranged, FilesOf
    <3>4. Listed(p)'
      BY <3>1 DEF Listed, Checked, Key, FilesOf
    <3>5. Counted(p)'
      <4>1. p \in Procs /\ Quiet(p)
        BY JobTyped, <3>1 DEF IInv, Typed, Quiet, Counted
      <4> QED
        BY <3>1, <4>1, QuietCounted
    <3> QED
      BY <3>2, <3>3, <3>4, <3>5
  <2> QED
    BY <2>1, <2>2, <2>3 DEF IInv
<1>3. ASSUME NEW p \in DOMAIN job, Interrupt(p) PROVE IInv'
  <2>1. cancel' \in [Procs -> BOOLEAN] /\ \A q \in DOMAIN job : cancel[q] => cancel'[q]
    BY <1>3, JobTyped DEF Interrupt, IInv, Typed
  <2> QED
    BY <1>2, <1>3, <2>1 DEF Interrupt, IInv, Typed
<1>4. CASE EditPwFile
  BY <1>2, <1>4, NumbersAssumption DEF EditPwFile, IInv, Typed
<1>5. CASE UNCHANGED vars
  BY <1>2, <1>5 DEF vars, envVars, IInv, Typed
<1> QED
  BY <1>1, <1>3, <1>4, <1>5 DEF Next, Finished

LEMMA Invariant == Spec => []IInv
BY InitInv, IInvStep, PTL DEF Spec
-----------------------------------------------------------------------------
(* Types: the summary never outgrows the request, what is stored is a       *)
(* keystore of a key in range, and every error has its exit code.           *)
THEOREM TypeCorrect == Spec => []TypeOK
<1>1. IInv => TypeOK
  <2> SUFFICES ASSUME IInv PROVE TypeOK
    OBVIOUS
  <2>1. \A p \in Procs : ExitCode(err[p]) \in 0 .. 4
    BY DEF IInv, Typed, Errors, ExitCode
  <2>2. \A p \in DOMAIN job : written[p] \in Seq(DOMAIN dir) /\ Len(written[p]) <= job[p].count
    BY DEF IInv, Ranged
  <2> QED
    BY <2>1, <2>2 DEF IInv, Typed, Stored, Named, TypeOK, Labels
<1> QED
  BY <1>1, Invariant, PTL

(* No keystore of a fresh mnemonic before a matching re-entry, and after    *)
(* the ceremony no mnemonic on the screen that its operator has not been    *)
(* told of, unless the terminal and stderr refused the erasing and both     *)
(* warnings.                                                                *)
THEOREM CeremonyHolds == Spec => []CeremonyKept
<1>1. IInv => CeremonyKept
  <2> SUFFICES ASSUME IInv PROVE CeremonyKept
    OBVIOUS
  <2>1. KeysNeedReentry
    BY DEF IInv, Secrets, KeysNeedReentry
  <2>2. MnemonicCleared
    BY DEF IInv, Secrets, Idle, MnemonicCleared
  <2> QED
    BY <2>1, <2>2 DEF CeremonyKept
<1> QED
  BY <1>1, Invariant, PTL

(* What a verifying validator run lists opens, and all keystores of a run   *)
(* open with one passphrase, whoever edits the passphrase file.             *)
THEOREM ReportedSo == Spec => []ReportedOpens
<1>1. IInv => ReportedOpens
  <2> SUFFICES ASSUME IInv PROVE ReportedOpens
    OBVIOUS
  <2>1. ASSUME NEW p \in DOMAIN job, Checked(p), NEW i \in DOMAIN written[p]
        PROVE  LET k == dir[written[p][i]]
               IN k.sound /\ k.key = Key(p, i - 1) /\ k.password = password[p]
    BY <2>1 DEF IInv, Listed
  <2>2. ASSUME NEW p \in Procs, NEW m \in FilesOf(p), NEW n \in FilesOf(p)
        PROVE  dir[m].password = dir[n].password
    BY <2>2 DEF IInv, Listed, Idle
  <2> QED
    BY <2>1, <2>2 DEF ReportedOpens, Checked
<1> QED
  BY <1>1, Invariant, PTL

(* A run leaves the keystores of a prefix of its indices, one file each,    *)
(* and after a SIGINT at most the one file it was about to write.           *)
THEOREM PrefixLeft == Spec => []RunLeavesPrefix
<1>1. IInv => RunLeavesPrefix
  BY DEF IInv, Listed, Ranged, Counted, RunLeavesPrefix, Made
<1> QED
  BY <1>1, Invariant, PTL
=============================================================================
