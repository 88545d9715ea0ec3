----------------------------- MODULE TtyPrompt -----------------------------
(* Where deposit gen has its passphrases from: what Load of GenPool does in *)
(* each worker, down to the terminal or the file.  With --passphrase-file   *)
(* the main thread reads the file once, before the workers start (a pipe    *)
(* could not be read twice), and every worker gets what it read.  Without   *)
(* it every worker that loads a keystore opens /dev/tty, prompts, and reads *)
(* a line with the echo switched off: the settings are saved, changed and   *)
(* put back by rpassword, in three calls, on a terminal that is one for all *)
(* workers.  Claiming an index is one step here; GenPool has the steps it   *)
(* takes.                                                                   *)
EXTENDS SecretFile

CONSTANTS
  Workers,
  N,        \* the number of pubkeys requested
  NoIndex,
  Password  \* what opens the keystores

ASSUME NAssumption == N \in Nat \ {0}
ASSUME NoIndexAssumption == NoIndex \notin 1 .. N

Idx == 1 .. N

(* A keystore that opens with what is typed, or with Password, or does not; *)
(* one that is not there, unreadable, no JSON, of another version or        *)
(* without crypto object; and one whose crypto object is of no use.         *)
Keystores == {"good", "wrong", "unusable", "malformed"}

VARIABLES
  source,           \* "terminal" or "file"
  keystore,         \* what is in the keystore directory for each pubkey
  sigint, flag,     \* the process token and the pool token
  next, pc, idx,
  echo, saved,      \* the terminal, and the setting each worker has to restore
  line,             \* whether the worker has got a line
  asked,            \* pubkeys a passphrase was had for
  keys              \* keys decrypted

control  == <<sigint, flag, next, idx, pc>>
terminal == <<echo, saved, line>>
vars     == <<source, keystore, control, terminal, asked, keys, reader, disk>>

Init ==
  /\ source \in {"terminal", "file"} /\ FileInit
  /\ keystore \in [Idx -> Keystores]
  /\ sigint = FALSE /\ flag = FALSE /\ next = 1
  /\ pc = [w \in Workers |-> "claim"] /\ idx = [w \in Workers |-> NoIndex]
  /\ echo = TRUE /\ saved = [w \in Workers |-> TRUE] /\ line = [w \in Workers |-> FALSE]
  /\ asked = {} /\ keys = {}

(* The main thread has what the workers share before it starts them. *)
Started == source = "file" => rpc = "done" /\ answer.ok

ReadFile ==
  /\ source = "file"
  /\ Open \/ Fstat \/ ReadChunk \/ Judge(FileSourceRule)
  /\ UNCHANGED <<source, keystore, control, terminal, asked, keys>>

Goto(w, label) == pc' = [pc EXCEPT ![w] = label] /\ UNCHANGED <<sigint, flag, next, idx>>

(* An error cancels the pool. *)
Fail(w) == pc' = [pc EXCEPT ![w] = "claim"] /\ flag' = TRUE /\ UNCHANGED <<sigint, next, idx>>

(* FAULTY: the end of the list is off by one. *)
ClaimPastEnd(w) ==
  /\ Started /\ pc[w] = "claim"
  /\ IF sigint \/ flag \/ next > N + 1
     THEN pc' = [pc EXCEPT ![w] = "done"] /\ UNCHANGED <<idx, next>>
     ELSE /\ pc' = [pc EXCEPT ![w] = "load"]
          /\ idx' = [idx EXCEPT ![w] = next] /\ next' = next + 1
  /\ UNCHANGED <<source, reader, disk, keystore, sigint, flag, terminal, asked, keys>>

Claim(w) ==
  /\ Started /\ pc[w] = "claim"
  /\ IF sigint \/ flag \/ next > N
     THEN pc' = [pc EXCEPT ![w] = "done"] /\ UNCHANGED <<idx, next>>
     ELSE /\ pc' = [pc EXCEPT ![w] = "load"]
          /\ idx' = [idx EXCEPT ![w] = next] /\ next' = next + 1
  /\ UNCHANGED <<source, reader, disk, keystore, sigint, flag, terminal, asked, keys>>

(* process_pubkey and Loader::load up to the passphrase: found, read,       *)
(* parsed, of version 4, with a crypto object.                              *)
OpenKeystore(w) ==
  /\ pc[w] = "load"
  /\ IF keystore[idx[w]] = "unusable" THEN Fail(w) ELSE Goto(w, "tty")
  /\ UNCHANGED <<source, reader, disk, keystore, terminal, asked, keys>>

(* InMemoryPassphrase::read: a copy of what the main thread read. *)
CopyPassphrase(w) ==
  /\ source = "file" /\ pc[w] = "tty" /\ Goto(w, "decrypt")
  /\ asked' = asked \cup {idx[w]}
  /\ UNCHANGED <<source, reader, disk, keystore, terminal, keys>>

(* TermPromptSource::read: the terminal is there, and the prompt written.   *)
Prompt(w) ==
  /\ source = "terminal" /\ pc[w] = "tty"
  /\ \/ /\ Goto(w, "hide") /\ asked' = asked \cup {idx[w]}
     \/ Fail(w) /\ UNCHANGED asked
  /\ UNCHANGED <<source, reader, disk, keystore, terminal, keys>>

(* rpassword: tcgetattr and tcsetattr. *)
Hide(w) ==
  /\ pc[w] = "hide"
  /\ \/ /\ Goto(w, "type") /\ echo' = FALSE
        /\ saved' = [saved EXCEPT ![w] = echo] /\ line' = [line EXCEPT ![w] = FALSE]
     \/ Fail(w) /\ UNCHANGED terminal
  /\ UNCHANGED <<source, reader, disk, keystore, asked, keys>>

(* The operator's line reaches one of the workers that read, or the read    *)
(* fails.                                                                   *)
Type(w) ==
  /\ pc[w] = "type" /\ Goto(w, "restore")
  /\ \E got \in BOOLEAN : line' = [line EXCEPT ![w] = got]
  /\ UNCHANGED <<source, reader, disk, keystore, echo, saved, asked, keys>>

(* FAULTY: a read that fails returns before the settings are put back. *)
RestoreOnSuccess(w) ==
  /\ pc[w] = "restore"
  /\ IF line[w] THEN Goto(w, "decrypt") /\ echo' = saved[w] ELSE Fail(w) /\ UNCHANGED echo
  /\ UNCHANGED <<source, reader, disk, keystore, saved, line, asked, keys>>

(* rpassword: the settings found are put back, whatever was read. *)
Restore(w) ==
  /\ pc[w] = "restore" /\ echo' = saved[w]
  /\ IF line[w] THEN Goto(w, "decrypt") ELSE Fail(w)
  /\ UNCHANGED <<source, reader, disk, keystore, saved, line, asked, keys>>

(* decrypt: the crypto object is parsed, and the checksum tells a wrong     *)
(* passphrase.  What process_pubkey does with the key may fail too.         *)
Decrypt(w) ==
  /\ pc[w] = "decrypt"
  /\ IF keystore[idx[w]] = "good" /\ (source = "file" => answer.secret = Password)
     THEN (Goto(w, "claim") \/ Fail(w)) /\ keys' = keys \cup {idx[w]}
     ELSE Fail(w) /\ UNCHANGED keys
  /\ UNCHANGED <<source, reader, disk, keystore, terminal, asked>>

(* Nobody looks at the token before the workers do. *)
Interrupt ==
  /\ Started /\ ~sigint /\ sigint' = TRUE
  /\ UNCHANGED <<source, reader, disk, keystore, flag, next, idx, pc, terminal, asked, keys>>

EditFile ==
  /\ source = "file" /\ Edit
  /\ UNCHANGED <<source, keystore, control, terminal, asked, keys>>

Finished ==
  /\ (\A w \in Workers : pc[w] = "done") \/ (rpc = "done" /\ ~answer.ok)
  /\ UNCHANGED vars

Step(w) ==
  \/ Claim(w) \/ OpenKeystore(w) \/ CopyPassphrase(w)
  \/ Prompt(w) \/ Hide(w) \/ Type(w) \/ Restore(w) \/ Decrypt(w)

Next == (\E w \in Workers : Step(w)) \/ ReadFile \/ EditFile \/ Interrupt \/ Finished

Spec == Init /\ [][Next]_vars

-----------------------------------------------------------------------------
(* Properties. *)

(* Types; a key is decrypted only for a pubkey a passphrase was had for.    *)
TypeOK ==
  /\ keystore \in [Idx -> Keystores] /\ {sigint, flag, echo} \subseteq BOOLEAN
  /\ next \in 1 .. N + 1
  /\ pc \in [Workers -> {"claim", "load", "tty", "hide", "type", "restore", "decrypt", "done"}]
  /\ \A w \in Workers : pc[w] \notin {"claim", "done"} => idx[w] \in Idx
  /\ saved \in [Workers -> BOOLEAN] /\ line \in [Workers -> BOOLEAN]
  /\ asked \subseteq Idx /\ keys \subseteq asked
  /\ rpc \in {"open", "fstat", "read", "rules", "done"} /\ {path, fd} \subseteq Inodes
  /\ \A i \in Inodes : inode[i].kind \in Kinds
  /\ Len(buf) <= MaxBytes + 1 /\ written \subseteq Inodes /\ edits \in 0 .. MaxEdits

(* "reads the passphrase from /dev/tty with terminal echo suppressed":      *)
(* nothing is echoed while a worker waits for a passphrase.                 *)
EchoSuppressed == \A w \in Workers : pc[w] = "type" => ~echo

(* The echo is off while a passphrase is awaited, and the terminal is left  *)
(* as it was found, also when a read fails or the run is interrupted at the *)
(* prompt.                                                                  *)
EchoFollowsReads ==
  /\ EchoSuppressed
  /\ (\A w \in Workers : pc[w] \notin {"type", "restore"}) => echo

(* A passphrase from a file is one whole file, however many reads it took   *)
(* and whoever replaced the file under its path meanwhile: never empty, cut *)
(* off or put together, at most its last LF less, and warned of if others   *)
(* may read the file it came from.  (A file that is written in place while  *)
(* it is read has no such contents.)                                        *)
SecretIsWholeFile ==
  answer.ok /\ fd \notin written =>
    /\ found \in {answer.secret, Append(answer.secret, "LF")} /\ Len(found) <= MaxBytes
    /\ answer.secret # <<>> /\ ToSet(answer.secret) \cap (Terminators \cup {NotUtf8}) = {}
    /\ inode[fd].loose => warned
=============================================================================
