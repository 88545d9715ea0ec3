------------------------------- MODULE TxRun -------------------------------
(* From deposit data to a signed transaction: deposit build (build_cmd.rs), *)
(* tx sign (sign_cmd.rs) and tx run (run_cmd.rs), with the builder's        *)
(* resolution of nonce and gas from a node (builder.rs) and the two         *)
(* signers.  The commands of an operator share the key file, the artifacts  *)
(* and the node, to which a signed artifact may be sent at any time.  The   *)
(* key file may be exchanged, a command interrupted or killed.              *)
(* write_atomic is one step here: OutputFs shows that it is atomic.         *)
EXTENDS Naturals

CONSTANTS
  Procs,        \* the commands
  Jobs,         \* the assignments of a job to one command or several
  Accounts,     \* accounts with a key
  Device,       \* the account of the Ledger
  NoAccount,    \* the zero address
  None, Torn, Old,
  MaxEdits, MaxKills

Fields == {"tip", "fee", "nonce", "gas"}

Job == [cmd : {"build", "sign", "run"}, signer : {"local", "ledger"}, rpc : BOOLEAN,
        given : SUBSET Fields, nonce : Nat, from : Accounts \cup {NoAccount},
        input : {"good", "unreadable", "invalid", "refused"}, toFile : BOOLEAN,
        keep : BOOLEAN]

ASSUME BoundsAssumption == MaxEdits \in Nat /\ MaxKills \in Nat
ASSUME AccountsAssumption == Device \in Accounts /\ NoAccount \notin Accounts
ASSUME JobsAssumption ==
  \A a \in Jobs :
    /\ DOMAIN a \subseteq Procs
    /\ \A p \in DOMAIN a : a[p] \in Job /\ ("nonce" \notin a[p].given => a[p].nonce = 0)

VARIABLES
  job, cancel, pc, err,
  keyFile, edits,    \* --private-key-file, and how often it was exchanged
  held,              \* the account whose key the local signer holds
  asked,             \* the senders the node was asked about
  nonce,             \* the nonce resolved
  unsigned, signed,  \* the transactions in memory
  disk,              \* the artifacts
  pool, accepted,    \* the node: pending nonce of each account, transactions taken
  overlapped,        \* a command was started while another one was running
  kills

progress == <<pc, err>>
memory   == <<held, asked, nonce, unsigned, signed>>
outside  == <<job, cancel, keyFile, edits, pool, accepted, kills>>
world    == <<outside, overlapped>>
vars     == <<progress, memory, disk, world>>

Files == {"unsigned", "signed", "raw"}
BadKeys == {"unreadable", "garbled"}

(* The sender a build works for: --from, or, with a node, the local         *)
(* signer's own account.                                                    *)
From(p) == IF job[p].cmd = "build" THEN job[p].from
           ELSE IF job[p].signer = "local" /\ job[p].rpc THEN held[p] ELSE NoAccount

(* The fields the builder is handed: without a node the defaults fill all.  *)
Given(p) == IF job[p].rpc THEN job[p].given ELSE Fields

(* exit_code_for, for the errors of these commands. *)
ExitCode(e) ==
  CASE e = "Ok" -> 0
    [] e \in {"Internal", "SignMsg"} -> 1
    [] e \in {"Usage", "Input", "KeyFile", "MissingStatic", "MissingFrom", "ChainIdMismatch",
              "Keep", "Output", "RawOutput"} -> 2
    [] e \in {"InvalidKey", "NoDevice", "SignChain"} -> 3
    [] e \in {"Cancelled", "UserRejected"} -> 4
    [] e \in {"RpcDial", "RpcEstimation"} -> 5
    [] e = "Killed" -> 137

Earlier == [by |-> Old, nonce |-> 0]

Init ==
  /\ job \in Jobs
  /\ cancel = [p \in Procs |-> FALSE]
  /\ pc = [p \in Procs |-> IF p \in DOMAIN job THEN "load" ELSE "done"] /\ err = [p \in Procs |-> "Ok"]
  /\ keyFile \in Accounts \cup BadKeys /\ edits = 0
  /\ held = [p \in Procs |-> NoAccount] /\ asked = [p \in Procs |-> {}]
  /\ nonce = [p \in Procs |-> None]
  /\ unsigned = [p \in Procs |-> None] /\ signed = [p \in Procs |-> None]
  /\ \E u \in {None, Torn, Earlier}, s \in {None, [tx |-> Earlier, account |-> Device]} :
       disk = [f \in Files |-> IF f = "unsigned" THEN u ELSE s]
  /\ pool = [a \in Accounts |-> 0] /\ accepted = {}
  /\ overlapped = FALSE /\ kills = 0

Goto(p, label) == pc' = [pc EXCEPT ![p] = label] /\ UNCHANGED err
Fail(p, e)     == pc' = [pc EXCEPT ![p] = "done"] /\ err' = [err EXCEPT ![p] = e]

-----------------------------------------------------------------------------
(* Flags and inputs. *)

(* FAULTY: the gate asks for a sender only when the nonce is to be fetched. *)
MissingSenderNonceOnly(p) ==
  /\ job[p].cmd # "sign" /\ job[p].rpc
  /\ "nonce" \notin job[p].given
  /\ IF job[p].cmd = "build" THEN job[p].from = NoAccount ELSE job[p].signer = "ledger"

(* require_from_for_rpc, require_ledger_flags_for_rpc: the node would have  *)
(* to be asked about a sender that is not known.                            *)
MissingSender(p) ==
  /\ job[p].cmd # "sign" /\ job[p].rpc
  /\ ~({"nonce", "gas"} \subseteq job[p].given)
  /\ IF job[p].cmd = "build" THEN job[p].from = NoAccount ELSE job[p].signer = "ledger"

(* The flags; others than those in Job may be refused too. *)
Load(p) ==
  /\ pc[p] = "load"
  /\ overlapped' = (overlapped \/ \E q \in Procs : pc[q] \notin {"load", "done"})
  /\ \/ ~MissingSender(p) /\ (job[p].keep => job[p].toFile) /\ Goto(p, "input")
     \/ Fail(p, "Usage")
  /\ UNCHANGED <<memory, disk, outside>>

(* The deposit data is read, and parsed only in Build; tx sign reads and    *)
(* parses what is there as an unsigned transaction.                         *)
ReadInput(p) ==
  /\ pc[p] = "input"
  /\ IF job[p].cmd = "sign"
     THEN IF disk["unsigned"] \in {None, Torn} THEN Fail(p, "Input") /\ UNCHANGED unsigned
          ELSE /\ unsigned' = [unsigned EXCEPT ![p] = disk["unsigned"]]
               /\ Goto(p, IF job[p].signer = "local" THEN "key" ELSE "sign")
     ELSE /\ IF job[p].input = "unreadable" THEN Fail(p, "Input")
             ELSE Goto(p, IF job[p].cmd = "run" /\ job[p].signer = "local" THEN "key" ELSE "build")
          /\ UNCHANGED unsigned
  /\ UNCHANGED <<held, asked, nonce, signed, disk, world>>

(* local_signer_from_file: the one time the key file is opened. *)
OpenKey(p) ==
  /\ pc[p] = "key"
  /\ IF keyFile \in BadKeys
     THEN Fail(p, IF keyFile = "unreadable" THEN "KeyFile" ELSE "InvalidKey") /\ UNCHANGED held
     ELSE /\ held' = [held EXCEPT ![p] = keyFile]
          /\ Goto(p, IF job[p].cmd = "run" THEN "build" ELSE "sign")
  /\ UNCHANGED <<asked, nonce, unsigned, signed, disk, world>>

-----------------------------------------------------------------------------
(* build_unsigned_tx and the builder. *)

Build(p) ==
  /\ pc[p] = "build"
  /\ IF job[p].input = "invalid" THEN Fail(p, "Input")
     ELSE \/ job[p].rpc /\ Fail(p, "RpcDial")
          \/ IF cancel[p] THEN Fail(p, "Cancelled")
             ELSE IF job[p].input = "refused" THEN Fail(p, "Input")
             ELSE Goto(p, IF job[p].rpc THEN "chain" ELSE "static")
  /\ UNCHANGED <<memory, disk, world>>

(* FAULTY: the unsigned transaction is to be kept after signing. *)
AfterBuildSign(p) == IF job[p].cmd = "run" THEN "sign" ELSE "truncate"

AfterBuild(p) ==
  IF job[p].cmd = "run" THEN (IF job[p].keep THEN "keep" ELSE "sign")
  ELSE IF job[p].toFile THEN "truncate" ELSE "print"

Built(p, n) ==
  /\ unsigned' = [unsigned EXCEPT ![p] = [by |-> p, nonce |-> n]]
  /\ nonce' = [nonce EXCEPT ![p] = n]
  /\ Goto(p, AfterBuild(p))

(* resolve_static *)
ResolveStatic(p) ==
  /\ pc[p] = "static"
  /\ IF Given(p) # Fields THEN Fail(p, "MissingStatic") /\ UNCHANGED <<nonce, unsigned>>
     ELSE Built(p, IF "nonce" \in job[p].given THEN job[p].nonce ELSE 0)
  /\ UNCHANGED <<held, asked, signed, disk, world>>

(* resolve_rpc: a chain ID that cannot be had is not compared. *)
ResolveChain(p) ==
  /\ pc[p] = "chain"
  /\ IF cancel[p] THEN Fail(p, "Cancelled") ELSE Goto(p, "tip") \/ Fail(p, "ChainIdMismatch")
  /\ UNCHANGED <<memory, disk, world>>

(* A fee that is given wins; otherwise the token is looked at and the node  *)
(* asked.                                                                   *)
ResolveFee(p, field, label) ==
  /\ pc[p] = field
  /\ IF field \in Given(p) THEN Goto(p, label)
     ELSE IF cancel[p] THEN Fail(p, "Cancelled")
     ELSE Goto(p, label) \/ Fail(p, "RpcEstimation")
  /\ UNCHANGED <<memory, disk, world>>

(* FAULTY: with a node at hand the nonce is always the pending one. *)
ResolveNonceFromNode(p) ==
  /\ pc[p] = "nonce"
  /\ IF From(p) = NoAccount THEN Fail(p, "MissingFrom") /\ UNCHANGED <<asked, nonce>>
     ELSE /\ asked' = [asked EXCEPT ![p] = @ \cup {From(p)}]
          /\ nonce' = [nonce EXCEPT ![p] = pool[From(p)]]
          /\ Goto(p, "gas")
  /\ UNCHANGED <<held, unsigned, signed, disk, world>>

(* FAULTY: an explicit nonce is not taken over. *)
ResolveNonceDropped(p) ==
  /\ pc[p] = "nonce"
  /\ IF "nonce" \in Given(p) THEN Goto(p, "gas") /\ UNCHANGED <<asked, nonce>>
     ELSE /\ asked' = [asked EXCEPT ![p] = @ \cup {From(p)}]
          /\ nonce' = [nonce EXCEPT ![p] = pool[From(p)]]
          /\ Goto(p, "gas")
  /\ UNCHANGED <<held, unsigned, signed, disk, world>>

ResolveNonce(p) ==
  /\ pc[p] = "nonce"
  /\ IF "nonce" \in Given(p)
     THEN nonce' = [nonce EXCEPT ![p] = job[p].nonce] /\ Goto(p, "gas") /\ UNCHANGED asked
     ELSE IF From(p) = NoAccount THEN Fail(p, "MissingFrom") /\ UNCHANGED <<asked, nonce>>
     ELSE IF cancel[p] THEN Fail(p, "Cancelled") /\ UNCHANGED <<asked, nonce>>
     ELSE /\ asked' = [asked EXCEPT ![p] = @ \cup {From(p)}]
          /\ \/ nonce' = [nonce EXCEPT ![p] = pool[From(p)]] /\ Goto(p, "gas")
             \/ Fail(p, "RpcEstimation") /\ UNCHANGED nonce
  /\ UNCHANGED <<held, unsigned, signed, disk, world>>

(* eth_estimateGas for a transaction of the sender, unless a limit is       *)
(* given; with it the unsigned transaction is complete.                     *)
ResolveGas(p) ==
  /\ pc[p] = "gas"
  /\ IF "gas" \in Given(p) THEN Built(p, nonce[p]) /\ UNCHANGED asked
     ELSE IF cancel[p] THEN Fail(p, "Cancelled") /\ UNCHANGED <<asked, nonce, unsigned>>
     ELSE /\ asked' = [asked EXCEPT ![p] = @ \cup {From(p)}]
          /\ Built(p, nonce[p]) \/ (Fail(p, "RpcEstimation") /\ UNCHANGED <<nonce, unsigned>>)
  /\ UNCHANGED <<held, signed, disk, world>>

-----------------------------------------------------------------------------
(* Signing. *)

(* FAULTY: the key file is opened again for the signature. *)
SignLocalReopens(p) ==
  /\ pc[p] = "sign" /\ job[p].signer = "local"
  /\ IF cancel[p] \/ keyFile \in BadKeys THEN Fail(p, "Cancelled") /\ UNCHANGED signed
     ELSE /\ signed' = [signed EXCEPT ![p] = [tx |-> unsigned[p], account |-> keyFile]]
          /\ Goto(p, "emit")
  /\ UNCHANGED <<held, asked, nonce, unsigned, disk, world>>

(* LocalSigner::sign_with_cancel with the key held in memory. *)
SignLocal(p) ==
  /\ pc[p] = "sign" /\ job[p].signer = "local"
  /\ IF cancel[p] THEN Fail(p, "Cancelled") /\ UNCHANGED signed
     ELSE \/ /\ signed' = [signed EXCEPT ![p] = [tx |-> unsigned[p], account |-> held[p]]]
             /\ Goto(p, "emit")
          \/ (\E e \in {"SignMsg", "SignChain"} : Fail(p, e)) /\ UNCHANGED signed
  /\ UNCHANGED <<held, asked, nonce, unsigned, disk, world>>

(* LedgerSigner::new (no device, no application, no address), and the part  *)
(* of sign_with_cancel before the device is asked.                          *)
OpenLedger(p) ==
  /\ pc[p] = "sign" /\ job[p].signer = "ledger"
  /\ \/ \E e \in {"NoDevice", "SignMsg"} : Fail(p, e)
     \/ IF cancel[p] THEN Fail(p, "Cancelled") ELSE Goto(p, "device")
  /\ UNCHANGED <<memory, disk, world>>

(* FAULTY: the token is not looked at again when the device has answered. *)
SignLedgerLate(p) ==
  /\ pc[p] = "device"
  /\ signed' = [signed EXCEPT ![p] = [tx |-> unsigned[p], account |-> Device]]
  /\ Goto(p, "emit")
  /\ UNCHANGED <<held, asked, nonce, unsigned, disk, world>>

(* The device's user confirms or rejects, in his own time; a SIGINT that    *)
(* came meanwhile wins over the answer.                                     *)
SignLedger(p) ==
  /\ pc[p] = "device"
  /\ IF cancel[p] THEN Fail(p, "Cancelled") /\ UNCHANGED signed
     ELSE \/ /\ signed' = [signed EXCEPT ![p] = [tx |-> unsigned[p], account |-> Device]]
             /\ Goto(p, "emit")
          \/ (\E e \in {"UserRejected", "SignChain", "SignMsg"} : Fail(p, e)) /\ UNCHANGED signed
  /\ UNCHANGED <<held, asked, nonce, unsigned, disk, world>>

-----------------------------------------------------------------------------
(* Artifacts. *)

(* write_atomic: done, failed without a trace, or failed at the sync of the *)
(* directory with the file in place.                                        *)
WriteAtomic(p, file, content, label, e) ==
  /\ \/ disk' = [disk EXCEPT ![file] = content] /\ Goto(p, label)
     \/ disk' = [disk EXCEPT ![file] = content] /\ Fail(p, e)
     \/ Fail(p, e) /\ UNCHANGED disk
  /\ UNCHANGED <<memory, world>>

KeepUnsigned(p) == pc[p] = "keep" /\ WriteAtomic(p, "unsigned", unsigned[p], "sign", "Keep")

(* Where the result goes: stdout, a file written in place, or the two       *)
(* artifacts of tx run.                                                     *)
Emit(p) ==
  /\ pc[p] = "emit"
  /\ Goto(p, IF ~job[p].toFile THEN "print" ELSE IF job[p].cmd = "run" THEN "json" ELSE "truncate")
  /\ UNCHANGED <<memory, disk, world>>

PrintResult(p) ==
  /\ pc[p] = "print"
  /\ Goto(p, "done") \/ Fail(p, "Internal")
  /\ UNCHANGED <<memory, disk, world>>

WriteJson(p) == pc[p] = "json" /\ WriteAtomic(p, "signed", signed[p], "raw", "Output")

(* FAULTY: a .raw file that is there already is left alone. *)
WriteRawOnce(p) ==
  /\ pc[p] = "raw"
  /\ IF disk["raw"] = None THEN WriteAtomic(p, "raw", signed[p], "done", "RawOutput")
     ELSE Goto(p, "done") /\ UNCHANGED <<memory, disk, world>>

WriteRaw(p) == pc[p] = "raw" /\ WriteAtomic(p, "raw", signed[p], "done", "RawOutput")

(* write_file_mode: the file is emptied when it is opened, and then filled. *)
InPlace(p) == IF job[p].cmd = "build" THEN "unsigned" ELSE "signed"
InPlaceErr(p) == IF job[p].cmd = "build" THEN "Internal" ELSE "Output"

Truncate(p) ==
  /\ pc[p] = "truncate"
  /\ \/ disk' = [disk EXCEPT ![InPlace(p)] = Torn] /\ Goto(p, "fill")
     \/ Fail(p, InPlaceErr(p)) /\ UNCHANGED disk
  /\ UNCHANGED <<memory, world>>

Fill(p) ==
  /\ pc[p] = "fill"
  /\ \/ /\ disk' = [disk EXCEPT ![InPlace(p)] =
                      IF job[p].cmd = "build" THEN unsigned[p] ELSE signed[p]]
        /\ Goto(p, "done")
     \/ Fail(p, InPlaceErr(p)) /\ UNCHANGED disk
  /\ UNCHANGED <<memory, world>>

Step(p) ==
  \/ Load(p) \/ ReadInput(p) \/ OpenKey(p) \/ Build(p) \/ ResolveStatic(p) \/ ResolveChain(p)
  \/ ResolveFee(p, "tip", "fee") \/ ResolveFee(p, "fee", "nonce") \/ ResolveNonce(p)
  \/ ResolveGas(p) \/ KeepUnsigned(p) \/ SignLocal(p) \/ OpenLedger(p) \/ SignLedger(p)
  \/ Emit(p) \/ PrintResult(p) \/ WriteJson(p) \/ WriteRaw(p) \/ Truncate(p) \/ Fill(p)

-----------------------------------------------------------------------------
(* The operator, the operating system and the node. *)

Interrupt(p) ==
  /\ pc[p] \notin {"load", "done"} /\ ~cancel[p]
  /\ cancel' = [cancel EXCEPT ![p] = TRUE]
  /\ UNCHANGED <<progress, memory, disk, job, keyFile, edits, pool, accepted, overlapped, kills>>

Kill(p) ==
  /\ pc[p] \notin {"load", "done"} /\ kills < MaxKills
  /\ kills' = kills + 1 /\ Fail(p, "Killed")
  /\ UNCHANGED <<memory, disk, job, cancel, keyFile, edits, pool, accepted, overlapped>>

ExchangeKey ==
  /\ edits < MaxEdits /\ edits' = edits + 1
  /\ keyFile' \in (Accounts \cup BadKeys) \ {keyFile}
  /\ UNCHANGED <<progress, memory, disk, job, cancel, pool, accepted, overlapped, kills>>

(* A signed artifact is sent.  The node takes one transaction per nonce. *)
Broadcast ==
  /\ \E s \in {disk["signed"], disk["raw"]} \ {None, Torn} :
       /\ s.tx.nonce = pool[s.account]
       /\ pool' = [pool EXCEPT ![s.account] = @ + 1]
       /\ accepted' = accepted \cup {s}
  /\ UNCHANGED <<progress, memory, disk, job, cancel, keyFile, edits, overlapped, kills>>

Finished == (\A p \in Procs : pc[p] = "done") /\ UNCHANGED vars

Next == (\E p \in DOMAIN job : Step(p) \/ Interrupt(p) \/ Kill(p)) \/ ExchangeKey \/ Broadcast \/ Finished

Spec == Init /\ [][Next]_vars

-----------------------------------------------------------------------------
(* Properties. *)

Unsigned == [by : Procs \cup {Old}, nonce : Nat]
Signed   == [tx : Unsigned, account : Accounts]

ASSUME NoneAssumption == None \notin Unsigned /\ None \notin Signed

(* Types; whatever is signed is complete. *)
TypeOK ==
  /\ job \in Jobs /\ cancel \in [Procs -> BOOLEAN]
  /\ pc \in [Procs -> {"load", "input", "key", "build", "static", "chain", "tip", "fee", "nonce",
        "gas", "keep", "sign", "device", "emit", "print", "json", "raw", "truncate", "fill",
        "done"}]
  /\ \A p \in Procs : ExitCode(err[p]) \in 0 .. 5 \cup {137}
  /\ keyFile \in Accounts \cup BadKeys /\ edits \in 0 .. MaxEdits /\ kills \in 0 .. MaxKills
  /\ held \in [Procs -> Accounts \cup {NoAccount}]
  /\ asked \in [Procs -> SUBSET (Accounts \cup {NoAccount})]
  /\ nonce \in [Procs -> Nat \cup {None}]
  /\ unsigned \in [Procs -> Unsigned \cup {None}] /\ signed \in [Procs -> Signed \cup {None}]
  /\ disk["unsigned"] \in Unsigned \cup {None, Torn}
  /\ \A f \in {"signed", "raw"} : disk[f] \in Signed \cup {None, Torn}
  /\ pool \in [Accounts -> Nat] /\ accepted \in SUBSET Signed /\ overlapped \in BOOLEAN

(* "Exactly one LocalSigner construction": the account that tx run asks the *)
(* node about (nonce, gas) is the one that signs, even if the key file is   *)
(* exchanged while the node is being asked.                                 *)
NonceOfSigner ==
  \A p \in DOMAIN job : job[p].cmd = "run" /\ signed[p] # None => asked[p] \subseteq {signed[p].account}

(* "The node can resolve neither the pending nonce nor the gas estimate"    *)
(* for the zero address: it is never asked to, under any flags, and the     *)
(* builder's own checks for missing values never have to fire.              *)
NoUnfundedQuery ==
  \A p \in Procs : NoAccount \notin asked[p] /\ err[p] \notin {"MissingFrom", "MissingStatic"}

(* What the node is asked is asked about the account that signs: never      *)
(* about another, and never about none.                                     *)
AskedForSigner == NonceOfSigner /\ NoUnfundedQuery

(* A command has put its own unsigned transaction in the file, or a build   *)
(* is about to.                                                             *)
Replaces(p) ==
  /\ unsigned[p] # None
  /\ \/ job[p].cmd = "run" /\ job[p].keep /\ disk["unsigned"] = unsigned[p]
     \/ job[p].cmd = "build" /\ disk["unsigned"] \in {unsigned[p], Torn}

(* A tx run has come to the signature, whatever became of it.               *)
Reached(p) ==
  \/ pc[p] \in {"sign", "device", "emit", "json", "raw"}
  \/ err[p] \in {"SignMsg", "SignChain", "NoDevice", "UserRejected", "Output", "RawOutput"}
  \/ signed[p] # None

(* "Optionally write unsigned tx before signing (so it survives a sign      *)
(* failure)": with --keep-unsigned the unsigned transaction that was, or    *)
(* was not, signed is the one on disk, unless another command has replaced  *)
(* it by its own.                                                           *)
UnsignedSurvives ==
  \A p \in DOMAIN job : job[p].cmd = "run" /\ job[p].keep /\ Reached(p) =>
    /\ unsigned[p] # None
    /\ disk["unsigned"] = unsigned[p] \/ \E q \in DOMAIN job \ {p} : Replaces(q)

(* "4  User abort (Ctrl-C or rejection on Ledger device)": a command that   *)
(* is interrupted before there is a signature never comes to one, also when *)
(* the device answers after the interrupt.                                  *)
InterruptedNeverSigns ==
  [][\A p \in Procs : cancel[p] /\ signed[p] = None => signed'[p] = None]_vars

Fixed(p) == ~job[p].rpc \/ "nonce" \in job[p].given

(* A nonce fixed by the operator, or by the air-gapped default, is a guard  *)
(* against paying twice: commands repeated with it, and everything signed   *)
(* by them sent, pay one deposit per account.                               *)
FixedNoncePaysOnce ==
  \A s, t \in accepted :
    (/\ s.account = t.account /\ s.tx.by # Old /\ t.tx.by # Old
     /\ Fixed(s.tx.by) /\ Fixed(t.tx.by)
     /\ job[s.tx.by].nonce = job[t.tx.by].nonce) => s = t

(* "companion file containing only the RLP hex, written alongside": when    *)
(* only tx run writes them, and one run at a time, signed.json and its .raw *)
(* differ only because a run is between the two writes, or failed or was    *)
(* killed there.                                                            *)
PairExplained ==
  ~overlapped /\ (\A p \in DOMAIN job : job[p].cmd = "run") /\ disk["signed"] # disk["raw"] =>
    \E p \in Procs : pc[p] = "raw" \/ err[p] \in {"Output", "RawOutput", "Killed"}

(* The files that are to belong together do, whatever failed between them.  *)
ArtifactsTally == UnsignedSurvives /\ PairExplained
=============================================================================
