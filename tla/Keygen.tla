------------------------------- MODULE Keygen -------------------------------
(* validator new / recover and account new / recover: the mnemonic ceremony *)
(* of keygen.rs, the pipelines of validator_cmd.rs and account_cmd.rs, and  *)
(* the write-once-retry of keystore_cli.rs, for several runs of the program *)
(* on one output directory.  Each run may get a SIGINT at any time; its     *)
(* operator may type anything; the passphrase file may be edited; a         *)
(* derivation or an encryption may come out wrong (at most MaxGlitches      *)
(* times), which is what the checks C1 to C4 are there for.                 *)
(* write_new_0600 is one step here: OutputFs shows that it is atomic.       *)
EXTENDS Naturals, Sequences, FiniteSets

CONSTANTS
  Procs,        \* the runs of the program
  Jobs,         \* the assignments of a job to one run or several
  Mnemonics,    \* what an operator may enter for `recover`, beside a fresh one
  Passes,       \* mnemonic passphrases an operator may type
  Passwords,    \* keystore passphrases that are long enough
  None, Old,
  U32Max,       \* the largest HD index
  Clock,        \* the seconds in which earlier runs may have written
  MaxGlitches, MaxEdits

Job == [ns : {"validator", "account"}, mode : {"new", "recover"}, count : Nat, start : Nat,
        pass : Passes \cup {None}, pwFile : BOOLEAN, verify : BOOLEAN, now : Nat]

ASSUME NumbersAssumption ==
  U32Max \in Nat /\ Clock \subseteq Nat /\ MaxGlitches \in Nat /\ MaxEdits \in Nat
ASSUME OldAssumption == Old \notin Procs
ASSUME JobsAssumption ==
  \A a \in Jobs : DOMAIN a \subseteq Procs /\ \A p \in DOMAIN a : a[p] \in Job

VARIABLES
  job,          \* what each run was asked to do, and when
  cancel,       \* the token of each run, set by SIGINT
  pc, err,      \* where each run is; the AppError it ends or will end with
  mnemonic, pass,
  screen,       \* what the controlling terminal shows
  retyped,      \* what the operator last re-entered
  refused,      \* history: the writes of clear_after_ceremony that failed
  password,     \* keystore_pass, held in memory for the whole run
  sound,        \* the keystore just encrypted decrypts to the derived key
  name,         \* final_path
  written,      \* the summary's list
  dir,          \* the output directory: file name -> keystore
  pwFile, edits, glitches,
  late          \* files a run created after its SIGINT

secretVars == <<mnemonic, pass, password>>
termVars   == <<screen, retyped, refused>>
fileVars   == <<sound, name, written, dir, late>>
envVars    == <<job, cancel, pwFile, edits, glitches>>
vars       == <<pc, err, secretVars, termVars, fileVars, envVars>>

New(p)    == job[p].mode = "new"
Index(p)  == job[p].start + Len(written[p])
Key(p, i) == <<mnemonic[p], pass[p], job[p].ns, job[p].start + i>>

(* The name of a validator keystore: the path and the second. *)
KeystoreFilename(p, t) == <<"keystore", Index(p), t>>

(* The name of an account keystore: the address and the time. *)
V3Filename(p, t) == <<"UTC", Key(p, Len(written[p])), t>>

FileName(p, t) ==
  IF job[p].ns = "validator" THEN KeystoreFilename(p, t) ELSE V3Filename(p, t)

(* exit_code_for, for the errors of these pipelines. *)
ExitCode(e) == CASE e = "Ok" -> 0
                 [] e = "Internal" -> 1
                 [] e \in {"Usage", "Overflow", "Bip39", "Passphrase", "Display", "Read"} -> 2
                 [] e \in {"Hd", "KeyVerify", "Encrypt", "Write"} -> 3
                 [] e = "Aborted" -> 4

Init ==
  /\ job \in Jobs
  /\ cancel = [p \in Procs |-> FALSE]
  /\ pc = [p \in Procs |-> IF p \in DOMAIN job THEN "config" ELSE "done"]
  /\ err = [p \in Procs |-> "Ok"]
  /\ mnemonic = [p \in Procs |-> None] /\ pass = [p \in Procs |-> None]
  /\ password = [p \in Procs |-> None]
  /\ screen = [p \in Procs |-> "plain"] /\ retyped = [p \in Procs |-> None]
  /\ refused = [p \in Procs |-> {}]
  /\ sound = [p \in Procs |-> TRUE] /\ name = [p \in Procs |-> None]
  /\ written = [p \in Procs |-> << >>]
  /\ \E there \in SUBSET {<<"keystore", i, t>> : i \in {0}, t \in Clock} :
       dir = [n \in there |-> [key |-> Old, password |-> Old, by |-> Old, sound |-> TRUE]]
  /\ late = [p \in Procs |-> 0]
  /\ pwFile \in Passwords /\ edits = 0 /\ glitches = 0

Goto(p, label) == pc' = [pc EXCEPT ![p] = label] /\ UNCHANGED err
Fail(p, e)     == pc' = [pc EXCEPT ![p] = "done"] /\ err' = [err EXCEPT ![p] = e]

(* FAULTY: the token is not looked at. *)
CancelIgnored(p) == FALSE

(* check_cancel *)
Cancelled(p) == cancel[p]

(* A cancel check, and on to the next step when it passes. *)
CheckThen(p, label) == IF Cancelled(p) THEN Fail(p, "Aborted") ELSE Goto(p, label)

-----------------------------------------------------------------------------
(* Before the ceremony. *)

(* load_config, with the terminal the `new` commands insist on.  Other      *)
(* flags may be refused too.                                                *)
LoadConfig(p) ==
  /\ pc[p] = "config"
  /\ \/ /\ job[p].count > 0 /\ job[p].start + (job[p].count - 1) <= U32Max
        /\ Goto(p, "begin")
     \/ Fail(p, "Usage")
  /\ UNCHANGED <<secretVars, termVars, fileVars, envVars>>

(* Entropy for a fresh mnemonic, unlike any other ("new"), or the prompt    *)
(* for an existing one ("recover").                                         *)
Begin(p) ==
  /\ pc[p] = "begin"
  /\ \/ /\ New(p) /\ ~Cancelled(p)
        /\ mnemonic' = [mnemonic EXCEPT ![p] = p]
        /\ Goto(p, "pass")
     \/ /\ New(p) /\ ~Cancelled(p) /\ Fail(p, "Internal") /\ UNCHANGED mnemonic
     \/ /\ ~New(p) /\ ~Cancelled(p) /\ Goto(p, "read") /\ UNCHANGED mnemonic
     \/ /\ Cancelled(p) /\ Fail(p, "Aborted") /\ UNCHANGED mnemonic
  /\ UNCHANGED <<pass, password, termVars, fileVars, envVars>>

(* read_line and validate_mnemonic, with no look at the token between. *)
ReadMnemonic(p) ==
  /\ pc[p] = "read"
  /\ \/ \E m \in Mnemonics : mnemonic' = [mnemonic EXCEPT ![p] = m] /\ Goto(p, "pass")
     \/ \E e \in {"Read", "Bip39"} : Fail(p, e) /\ UNCHANGED mnemonic
  /\ UNCHANGED <<pass, password, termVars, fileVars, envVars>>

(* resolve_mnemonic_passphrase: a flag's or a file's value, read while the  *)
(* configuration was loaded, or else (None) a prompt.                       *)
ResolvePass(p) ==
  /\ pc[p] = "pass"
  /\ CheckThen(p, IF job[p].pass = None THEN "passTyped"
                  ELSE IF New(p) THEN "ceremony" ELSE "unlock")
  /\ pass' = [pass EXCEPT ![p] = job[p].pass]
  /\ UNCHANGED <<mnemonic, password, termVars, fileVars, envVars>>

TypePass(p) ==
  /\ pc[p] = "passTyped"
  /\ \/ \E x \in Passes :
          /\ pass' = [pass EXCEPT ![p] = x]
          /\ IF New(p) THEN CheckThen(p, "passAgain") ELSE Goto(p, "unlock")
     \/ Fail(p, "Read") /\ UNCHANGED pass
  /\ UNCHANGED <<mnemonic, password, termVars, fileVars, envVars>>

RetypePass(p) ==
  /\ pc[p] = "passAgain"
  /\ \/ \E x \in Passes : IF x = pass[p] THEN Goto(p, "ceremony") ELSE Fail(p, "Usage")
     \/ Fail(p, "Read")
  /\ UNCHANGED <<secretVars, termVars, fileVars, envVars>>

-----------------------------------------------------------------------------
(* run_ceremony.  ToClear leaves ceremony_body with its result.             *)

ToClear(p, e) == pc' = [pc EXCEPT ![p] = "clear"] /\ err' = [err EXCEPT ![p] = e]

(* FAULTY: an error on the way out of the display skips the clearing. *)
DisplayEarlyReturn(p) ==
  /\ pc[p] = "ceremony"
  /\ IF Cancelled(p)
     THEN Fail(p, "Aborted") /\ UNCHANGED screen
     ELSE /\ screen' = [screen EXCEPT ![p] = "mnemonic"]
          /\ Goto(p, "confirm") \/ Fail(p, "Display")
  /\ UNCHANGED <<retyped, refused, secretVars, fileVars, envVars>>

(* The mnemonic is shown; a write that fails may have shown it already. *)
Display(p) ==
  /\ pc[p] = "ceremony"
  /\ IF Cancelled(p)
     THEN Fail(p, "Aborted") /\ UNCHANGED screen
     ELSE /\ screen' = [screen EXCEPT ![p] = "mnemonic"]
          /\ Goto(p, "confirm") \/ ToClear(p, "Display")
  /\ UNCHANGED <<retyped, refused, secretVars, fileVars, envVars>>

(* The head of the loop. *)
Confirm(p) ==
  /\ pc[p] = "confirm"
  /\ IF Cancelled(p) THEN ToClear(p, "Aborted") ELSE Goto(p, "reentry")
  /\ UNCHANGED <<secretVars, termVars, fileVars, envVars>>

(* FAULTY: whatever was typed confirms. *)
ReenterAnything(p) ==
  /\ pc[p] = "reentry"
  /\ \E line \in {"same", "other"} :
       retyped' = [retyped EXCEPT ![p] = line] /\ ToClear(p, "Ok")
  /\ UNCHANGED <<screen, refused, secretVars, fileVars, envVars>>

(* The re-entry: the words match, or they do not (an end of input is an     *)
(* empty line), or the read fails.                                          *)
Reenter(p) ==
  /\ pc[p] = "reentry"
  /\ \/ retyped' = [retyped EXCEPT ![p] = "same"] /\ ToClear(p, "Ok")
     \/ /\ retyped' = [retyped EXCEPT ![p] = "other"]
        /\ IF Cancelled(p) THEN ToClear(p, "Aborted") ELSE Goto(p, "ask")
     \/ ToClear(p, "Read") /\ UNCHANGED retyped
  /\ UNCHANGED <<screen, refused, secretVars, fileVars, envVars>>

(* Retry? [y/N] *)
AskRetry(p) ==
  /\ pc[p] = "ask"
  /\ Goto(p, "confirm") \/ ToClear(p, "Aborted") \/ ToClear(p, "Read")
  /\ UNCHANGED <<secretVars, termVars, fileVars, envVars>>

(* What clear_after_ceremony may write, each if the one before has failed:  *)
(* the erase sequence, the warning to the terminal, the warning to stderr.  *)
Attempts == {"erase", "warning", "stderr"}

(* FAULTY: the warning is not repeated on stderr. *)
ClearTerminalOnly(p) ==
  /\ pc[p] = "clear"
  /\ \E failed \in {{}, {"erase"}, {"erase", "warning"}} :
       /\ refused' = [refused EXCEPT ![p] = failed]
       /\ screen' = [screen EXCEPT ![p] = IF failed = {} THEN "cleared"
                                         ELSE IF failed = {"erase"} THEN "warned" ELSE @]
  /\ pc' = [pc EXCEPT ![p] = IF err[p] = "Ok" THEN "unlock" ELSE "done"]
  /\ UNCHANGED <<err, retyped, secretVars, fileVars, envVars>>

(* clear_after_ceremony: fail-open, the result of the ceremony is kept; the *)
(* error of the last write is dropped too, and then nobody is told.         *)
Clear(p) ==
  /\ pc[p] = "clear"
  /\ \E failed \in {{}, {"erase"}, {"erase", "warning"}, Attempts} :
       /\ refused' = [refused EXCEPT ![p] = failed]
       /\ screen' = [screen EXCEPT ![p] = IF failed = {} THEN "cleared"
                                         ELSE IF failed # Attempts THEN "warned" ELSE @]
  /\ pc' = [pc EXCEPT ![p] = IF err[p] = "Ok" THEN "unlock" ELSE "done"]
  /\ UNCHANGED <<err, retyped, secretVars, fileVars, envVars>>

-----------------------------------------------------------------------------
(* finish_from_mnemonic. *)

Unlock(p) ==
  /\ pc[p] = "unlock"
  /\ CheckThen(p, "password")
  /\ UNCHANGED <<secretVars, termVars, fileVars, envVars>>

(* The keystore passphrase: the file's first line as it is now, or two      *)
(* prompts.  Too short, unequal, unreadable: exit 2.                        *)
ReadPassword(p) ==
  /\ pc[p] = "password"
  /\ \/ \E x \in IF job[p].pwFile THEN {pwFile} ELSE Passwords :
          password' = [password EXCEPT ![p] = x] /\ Goto(p, "seed")
     \/ Fail(p, "Passphrase") /\ UNCHANGED password
  /\ UNCHANGED <<mnemonic, pass, termVars, fileVars, envVars>>

ToSeed(p) ==
  /\ pc[p] = "seed"
  /\ CheckThen(p, "loop")
  /\ UNCHANGED <<secretVars, termVars, fileVars, envVars>>

(* The head of the loop; past the last key, the summary and success. *)
Loop(p) ==
  /\ pc[p] = "loop"
  /\ IF Len(written[p]) = job[p].count THEN Goto(p, "done")
     ELSE IF Cancelled(p) THEN Fail(p, "Aborted")
     ELSE IF Index(p) > U32Max THEN Fail(p, "Overflow")
     ELSE Goto(p, "derive")
  /\ UNCHANGED <<secretVars, termVars, fileVars, envVars>>

(* A glitch of the machine or of a library. *)
Glitch == glitches < MaxGlitches /\ glitches' = glitches + 1
            /\ UNCHANGED <<job, cancel, pwFile, edits>>

(* Derivation of a signing key, then C1 to C3: a key pair that came out     *)
(* wrong ends the run before anything is encrypted.                         *)
DeriveSigningKey(p) ==
  /\ pc[p] = "derive" /\ job[p].ns = "validator"
  /\ \/ Goto(p, "encrypt") /\ UNCHANGED envVars
     \/ Fail(p, "Hd") /\ UNCHANGED envVars
     \/ Glitch /\ Fail(p, "KeyVerify")
  /\ UNCHANGED <<secretVars, termVars, fileVars>>

(* Derivation of an account key, and the address from its secret. *)
DeriveAccountKey(p) ==
  /\ pc[p] = "derive" /\ job[p].ns = "account"
  /\ Goto(p, "encrypt") \/ Fail(p, "Hd")
  /\ UNCHANGED <<secretVars, termVars, fileVars, envVars>>

(* The secret encrypted under the passphrase in memory: as it should be,    *)
(* wrong, or not at all for want of entropy or by an error.                 *)
Seal(p) ==
  /\ \/ sound' = [sound EXCEPT ![p] = TRUE] /\ Goto(p, "gate") /\ UNCHANGED envVars
     \/ sound' = [sound EXCEPT ![p] = FALSE] /\ Goto(p, "gate") /\ Glitch
     \/ (\E e \in {"Internal", "Encrypt"} : Fail(p, e)) /\ UNCHANGED <<sound, envVars>>
  /\ UNCHANGED <<secretVars, termVars, name, written, dir, late>>

EncryptEip2335(p) == pc[p] = "encrypt" /\ job[p].ns = "validator" /\ Seal(p)
EncryptV3(p)      == pc[p] = "encrypt" /\ job[p].ns = "account" /\ Seal(p)

(* The last look at the token before the file is written. *)
Gate(p) ==
  /\ pc[p] = "gate"
  /\ CheckThen(p, "write")
  /\ UNCHANGED <<secretVars, termVars, fileVars, envVars>>

(* The keystore appears under a name that was free. *)
Put(p, n) ==
  /\ dir' = [m \in DOMAIN dir \cup {n} |->
               IF m = n THEN [key |-> Key(p, Len(written[p])), password |-> password[p],
                              by |-> p, sound |-> sound[p]]
                        ELSE dir[m]]
  /\ late' = [late EXCEPT ![p] = IF cancel[p] THEN @ + 1 ELSE @]

AfterWrite(p) == IF job[p].ns = "validator" /\ job[p].verify THEN "verify" ELSE "report"

(* write_new_0600 at a free name: done, failed without a trace, or failed   *)
(* at the last step (the directory's sync) with the file in place.          *)
WriteNew(p, n) ==
  \/ Put(p, n) /\ Goto(p, AfterWrite(p)) /\ name' = [name EXCEPT ![p] = n]
  \/ Put(p, n) /\ Fail(p, "Write") /\ UNCHANGED name
  \/ Fail(p, "Write") /\ UNCHANGED <<dir, late, name>>

(* FAULTY: the first name is written without asking whether it is free. *)
WriteOver(p) ==
  /\ pc[p] = "write"
  /\ WriteNew(p, FileName(p, job[p].now))
  /\ UNCHANGED <<secretVars, termVars, sound, written, envVars>>

(* write_with_retry at the first name ... *)
Write(p) ==
  /\ pc[p] = "write"
  /\ LET n == FileName(p, job[p].now) IN
       IF n \in DOMAIN dir THEN Goto(p, "rewrite") /\ UNCHANGED <<name, dir, late>>
                           ELSE WriteNew(p, n)
  /\ UNCHANGED <<secretVars, termVars, sound, written, envVars>>

(* FAULTY: a keystore that went to the second name is reported unread. *)
RewriteUnchecked(p) ==
  /\ pc[p] = "rewrite"
  /\ LET n == FileName(p, job[p].now + 1) IN
       IF n \in DOMAIN dir THEN Fail(p, "Write") /\ UNCHANGED <<name, dir, late>>
                           ELSE Put(p, n) /\ Goto(p, "report") /\ name' = [name EXCEPT ![p] = n]
  /\ UNCHANGED <<secretVars, termVars, sound, written, envVars>>

(* ... and, once, at the second. *)
Rewrite(p) ==
  /\ pc[p] = "rewrite"
  /\ LET n == FileName(p, job[p].now + 1) IN
       IF n \in DOMAIN dir THEN Fail(p, "Write") /\ UNCHANGED <<name, dir, late>>
                           ELSE WriteNew(p, n)
  /\ UNCHANGED <<secretVars, termVars, sound, written, envVars>>

(* C4: the file is read back with the passphrase in memory, and must give   *)
(* the derived key; it stays where it is when it does not.                  *)
Verify(p) ==
  /\ pc[p] = "verify"
  /\ LET k == dir[name[p]] IN
       \/ /\ k.sound /\ k.password = password[p] /\ k.key = Key(p, Len(written[p]))
          /\ Goto(p, "report")
       \/ Fail(p, "KeyVerify")
  /\ UNCHANGED <<secretVars, termVars, fileVars, envVars>>

(* FAULTY: the entry is pushed before and after the progress line. *)
ReportTwice(p) ==
  /\ pc[p] = "report"
  /\ written' = [written EXCEPT ![p] = @ \o <<name[p], name[p]>>]
  /\ Goto(p, "loop")
  /\ UNCHANGED <<secretVars, termVars, sound, name, dir, late, envVars>>

(* The progress line and the summary's entry. *)
Report(p) ==
  /\ pc[p] = "report"
  /\ written' = [written EXCEPT ![p] = Append(@, name[p])]
  /\ Goto(p, "loop")
  /\ UNCHANGED <<secretVars, termVars, sound, name, dir, late, envVars>>

Step(p) ==
  \/ LoadConfig(p) \/ Begin(p) \/ ReadMnemonic(p) \/ ResolvePass(p) \/ TypePass(p)
  \/ RetypePass(p) \/ Display(p) \/ Confirm(p) \/ Reenter(p) \/ AskRetry(p) \/ Clear(p)
  \/ Unlock(p) \/ ReadPassword(p) \/ ToSeed(p) \/ Loop(p) \/ DeriveSigningKey(p)
  \/ DeriveAccountKey(p) \/ EncryptEip2335(p) \/ EncryptV3(p) \/ Gate(p)
  \/ Write(p) \/ Rewrite(p) \/ Verify(p) \/ Report(p)

-----------------------------------------------------------------------------
(* SIGINT: the handler sets the token and returns; reads are restarted. *)
Interrupt(p) ==
  /\ pc[p] # "done" /\ ~cancel[p]
  /\ cancel' = [cancel EXCEPT ![p] = TRUE]
  /\ UNCHANGED <<pc, err, secretVars, termVars, fileVars, job, pwFile, edits, glitches>>

(* Somebody saves another passphrase in the file. *)
EditPwFile ==
  /\ \E p \in DOMAIN job : job[p].pwFile
  /\ edits < MaxEdits /\ edits' = edits + 1
  /\ pwFile' \in Passwords \ {pwFile}
  /\ UNCHANGED <<pc, err, secretVars, termVars, fileVars, job, cancel, glitches>>

Finished == (\A p \in Procs : pc[p] = "done") /\ UNCHANGED vars

Next == (\E p \in DOMAIN job : Step(p) \/ Interrupt(p)) \/ EditPwFile \/ Finished

Spec == Init /\ [][Next]_vars

(* Each run is scheduled, and its operator answers every prompt. *)
FairSpec == Spec /\ \A p \in Procs : WF_vars(Step(p))
-----------------------------------------------------------------------------
(* Properties. *)

Keystores == [key : {Old} \cup ((Mnemonics \cup Procs) \X Passes \X {"validator", "account"}
                                  \X (0 .. U32Max)),
              password : Passwords \cup {Old}, by : Procs \cup {Old}, sound : BOOLEAN]

(* Types; the list of the summary never outgrows the request. *)
TypeOK ==
  /\ job \in Jobs /\ cancel \in [Procs -> BOOLEAN]
  /\ pc \in [Procs -> {"config", "begin", "read", "pass", "passTyped", "passAgain",
        "ceremony", "confirm", "reentry", "ask", "clear", "unlock", "password", "seed",
        "loop", "derive", "encrypt", "gate", "write", "rewrite", "verify", "report", "done"}]
  /\ \A p \in Procs : ExitCode(err[p]) \in 0 .. 4
  /\ mnemonic \in [Procs -> Mnemonics \cup Procs \cup {None}]
  /\ pass \in [Procs -> Passes \cup {None}]
  /\ password \in [Procs -> Passwords \cup {None}]
  /\ screen \in [Procs -> {"plain", "mnemonic", "cleared", "warned"}]
  /\ retyped \in [Procs -> {None, "same", "other"}] /\ refused \in [Procs -> SUBSET Attempts]
  /\ sound \in [Procs -> BOOLEAN]
  /\ \A p \in Procs : name[p] \in DOMAIN dir \cup {None}
  /\ \A p \in DOMAIN job : written[p] \in Seq(DOMAIN dir) /\ Len(written[p]) <= job[p].count
  /\ \A n \in DOMAIN dir : dir[n] \in Keystores
  /\ pwFile \in Passwords /\ edits \in 0 .. MaxEdits /\ glitches \in 0 .. MaxGlitches
  /\ late \in [Procs -> Nat]

FilesOf(p) == {n \in DOMAIN dir : dir[n].by = p}

(* A run leaves the keystores of a prefix of its indices, one file each,    *)
(* whatever interrupts or fails it and whoever else writes in the           *)
(* directory: all of them on success, exactly the reported ones when it is  *)
(* interrupted, at most one more after a failed write or check.  After a    *)
(* SIGINT it creates at most the one file it was about to, and it never     *)
(* stops half way because the indices have come to an end.                  *)
RunLeavesPrefix ==
  \A p \in DOMAIN job :
    LET k == Cardinality(FilesOf(p))  IN
      /\ {dir[n].key : n \in FilesOf(p)} = {Key(p, i) : i \in 0 .. k - 1}
      /\ \A i \in DOMAIN written[p] :
            written[p][i] \in FilesOf(p) /\ dir[written[p][i]].key = Key(p, i - 1)
      /\ \/ k = Len(written[p])
         \/ k = Len(written[p]) + 1 /\ (pc[p] \in {"verify", "report"} \/ err[p] \in {"Write", "KeyVerify"})
      /\ pc[p] = "done" /\ err[p] = "Ok" => k = job[p].count
      /\ late[p] <= 1 /\ err[p] # "Overflow"

(* What the summary of a verifying validator run lists can be opened: the   *)
(* file under that name holds the derived key under the passphrase that the *)
(* run was given, also when the write went to the second name; and the      *)
(* keystores of any run all open with one passphrase, even if the           *)
(* passphrase file is edited while the run is under way.                    *)
ReportedOpens ==
  /\ \A p \in DOMAIN job : job[p].ns = "validator" /\ job[p].verify =>
       \A i \in DOMAIN written[p] :
          LET k == dir[written[p][i]]
          IN k.sound /\ k.key = Key(p, i - 1) /\ k.password = password[p]
  /\ \A p \in Procs : \A m, n \in FilesOf(p) : dir[m].password = dir[n].password

(* No key is persisted for a fresh mnemonic that its operator has not       *)
(* written down: a keystore of `new` exists only after a matching re-entry. *)
KeysNeedReentry ==
  \A p \in DOMAIN job : New(p) /\ FilesOf(p) # {} => retyped[p] = "same"

(* "the clear fires on every post-display exit path": after the ceremony    *)
(* the mnemonic is off the screen, or the operator was told that it may not *)
(* be, unless the terminal and stderr have refused all three writes: then   *)
(* it stays there, nobody is told, and the run goes on (fail-open).         *)
MnemonicCleared ==
  \A p \in Procs : screen[p] = "mnemonic" =>
     pc[p] \in {"confirm", "reentry", "ask", "clear"} \/ refused[p] = Attempts

(* The two promises of the ceremony.                                        *)
CeremonyKept == KeysNeedReentry /\ MnemonicCleared

(* An interrupted run ends, also from the middle of the re-entry loop. *)
InterruptEnds == \A p \in Procs : cancel[p] ~> pc[p] = "done"
=============================================================================
