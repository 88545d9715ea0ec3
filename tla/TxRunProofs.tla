---------------------------- MODULE TxRunProofs ----------------------------
(* Theorems about TxRun, for any number of commands, accounts, exchanges of *)
(* the key file and kills: types, that the node is asked about the account  *)
(* that signs, that a fixed nonce pays once, that an interrupted command    *)
(* does not sign, and that the artifacts tally.                             *)
EXTENDS TxRun, TLAPS

Errors == {"Ok", "Internal", "SignMsg", "Usage", "Input", "KeyFile", "MissingStatic", "MissingFrom",
           "ChainIdMismatch", "Keep", "Output", "RawOutput", "InvalidKey", "NoDevice", "SignChain",
           "Cancelled", "UserRejected", "RpcDial", "RpcEstimation", "Killed"}

Early == {"load", "input", "key"}

(* Which steps a command comes by. *)
Path(p) ==
  /\ job[p].cmd = "sign" => pc[p] \in Early \cup {"sign", "device", "emit", "print", "truncate",
                                                  "fill", "done"}
  /\ job[p].cmd = "build" => pc[p] \notin {"key", "keep", "sign", "device", "emit", "json", "raw"}
  /\ job[p].cmd = "run" => pc[p] \notin {"truncate", "fill"}
  /\ pc[p] \in {"chain", "tip", "fee", "nonce", "gas"} => job[p].rpc
  /\ pc[p] = "static" => ~job[p].rpc
  /\ pc[p] = "key" => job[p].signer = "local"
  /\ pc[p] = "device" => job[p].signer = "ledger"
  /\ pc[p] \notin {"load", "done"} => ~MissingSender(p)

(* What a command has got by then. *)
Has(p) ==
  /\ pc[p] = "gas" => nonce[p] \in Nat
  /\ pc[p] \in {"keep", "sign", "device"} => unsigned[p] \in Unsigned
  /\ pc[p] = "key" /\ job[p].cmd = "sign" => unsigned[p] \in Unsigned
  /\ pc[p] \in {"truncate", "fill"} /\ job[p].cmd = "build" => unsigned[p] \in Unsigned
  /\ pc[p] \in {"truncate", "fill"} /\ job[p].cmd = "sign" => signed[p] \in Signed
  /\ pc[p] \in {"emit", "json", "raw"} => signed[p] \in Signed
  /\ job[p].signer = "local" /\ job[p].cmd # "build" /\ pc[p] \notin Early \cup {"done"} =>
       held[p] \in Accounts

(* What it has asked the node, and with which account it has signed.        *)
Asks(p) ==
  /\ err[p] \notin {"MissingFrom", "MissingStatic"}
  /\ pc[p] \in Early => asked[p] = {} /\ signed[p] = None
  /\ asked[p] # {} => /\ job[p].cmd # "sign" /\ job[p].rpc
                      /\ asked[p] = {From(p)} /\ From(p) \in Accounts
  /\ signed[p] # None =>
       signed[p].account = IF job[p].signer = "local" THEN held[p] ELSE Device

Bounded ==
  /\ err \in [Procs -> Errors]
  /\ disk \in [Files -> Unsigned \cup Signed \cup {None, Torn}]
  /\ \A p \in DOMAIN job : Path(p) /\ Has(p) /\ Asks(p)
  /\ \A p \in Procs \ DOMAIN job : asked[p] = {} /\ err[p] = "Ok"

LEMMA JobTyped ==
  ASSUME TypeOK
  PROVE  /\ DOMAIN job \subseteq Procs
         /\ \A p \in DOMAIN job : job[p] \in Job
BY JobsAssumption DEF TypeOK

LEMMA ErrorsHaveCodes == \A e \in Errors : ExitCode(e) \in 0 .. 5 \cup {137}
BY DEF Errors, ExitCode

LEMMA InitEstablishes == Init => TypeOK /\ Bounded
<1> SUFFICES ASSUME Init PROVE TypeOK /\ Bounded
  OBVIOUS
<1>1. err \in [Procs -> Errors] /\ \A p \in Procs : pc[p] \in {"load", "done"}
  BY DEF Init, Errors
<1>2. Earlier \in Unsigned /\ [tx |-> Earlier, account |-> Device] \in Signed
  BY AccountsAssumption DEF Earlier, Unsigned, Signed
<1>3. /\ disk \in [Files -> Unsigned \cup Signed \cup {None, Torn}]
      /\ disk["unsigned"] \in Unsigned \cup {None, Torn}
      /\ \A f \in {"signed", "raw"} : disk[f] \in Signed \cup {None, Torn}
  BY <1>2 DEF Init, Files
<1>4. TypeOK
  <2>1. \A p \in Procs : ExitCode(err[p]) \in 0 .. 5 \cup {137}
    <3> TAKE p \in Procs
    <3>1. err[p] \in Errors
      BY <1>1
    <3> QED
      BY <3>1, ErrorsHaveCodes
  <2>2. edits \in 0 .. MaxEdits /\ kills \in 0 .. MaxKills
    BY BoundsAssumption DEF Init
  <2>3. asked \in [Procs -> SUBSET (Accounts \cup {NoAccount})]
    BY DEF Init
  <2>4. held \in [Procs -> Accounts \cup {NoAccount}] /\ pool \in [Accounts -> Nat]
    BY DEF Init
  <2>5. cancel \in [Procs -> BOOLEAN] /\ overlapped \in BOOLEAN
    BY DEF Init
  <2> QED
    BY <1>1, <1>3, <2>1, <2>2, <2>3, <2>4, <2>5 DEF Init, TypeOK
<1>5. Bounded
  BY <1>1, <1>3, <1>4, JobTyped DEF Init, Bounded, Path, Has, Asks, Early
<1> QED
  BY <1>4, <1>5

(* A command's step leaves the others as they are. *)
LEMMA OthersKept ==
  ASSUME TypeOK, Bounded, NEW p \in DOMAIN job, Step(p)
  PROVE  /\ UNCHANGED job
         /\ \A q \in Procs \ {p} :
              UNCHANGED <<pc[q], err[q], held[q], asked[q], nonce[q], unsigned[q], signed[q]>>
<1> USE JobTyped DEF TypeOK, Bounded, Goto, Fail, world, outside, memory, WriteAtomic, Built
<1> HIDE DEF ExitCode
<1>1. CASE Load(p)
  BY <1>1 DEF Load
<1>2. CASE ReadInput(p)
  BY <1>2 DEF ReadInput
<1>3. CASE OpenKey(p)
  BY <1>3 DEF OpenKey
<1>4. CASE Build(p)
  BY <1>4 DEF Build
<1>5. CASE ResolveStatic(p)
  BY <1>5 DEF ResolveStatic
<1>6. CASE ResolveChain(p)
  BY <1>6 DEF ResolveChain
<1>7. CASE ResolveFee(p, "tip", "fee")
  BY <1>7 DEF ResolveFee
<1>8. CASE ResolveFee(p, "fee", "nonce")
  BY <1>8 DEF ResolveFee
<1>9. CASE ResolveNonce(p)
  BY <1>9 DEF ResolveNonce
<1>10. CASE ResolveGas(p)
  BY <1>10 DEF ResolveGas
<1>11. CASE KeepUnsigned(p)
  BY <1>11 DEF KeepUnsigned
<1>12. CASE SignLocal(p)
  BY <1>12 DEF SignLocal
<1>13. CASE OpenLedger(p)
  BY <1>13 DEF OpenLedger
<1>14. CASE SignLedger(p)
  BY <1>14 DEF SignLedger
<1>15. CASE Emit(p)
  BY <1>15 DEF Emit
<1>16. CASE PrintResult(p)
  BY <1>16 DEF PrintResult
<1>17. CASE WriteJson(p)
  BY <1>17 DEF WriteJson
<1>18. CASE WriteRaw(p)
  BY <1>18 DEF WriteRaw
<1>19. CASE Truncate(p)
  BY <1>19 DEF Truncate
<1>20. CASE Fill(p)
  BY <1>20 DEF Fill
<1> QED
  BY <1>1, <1>2, <1>3, <1>4, <1>5, <1>6, <1>7, <1>8, <1>9, <1>10, <1>11, <1>12, <1>13, <1>14, <1>15, <1>16, <1>17, <1>18, <1>19, <1>20 DEF Step

LEMMA TypeStep == TypeOK /\ Bounded /\ [Next]_vars => TypeOK'
<1> SUFFICES ASSUME TypeOK, Bounded, [Next]_vars PROVE TypeOK'
  OBVIOUS
<1>0. err' \in [Procs -> Errors] => \A p \in Procs : ExitCode(err'[p]) \in 0 .. 5 \cup {137}
  <2> SUFFICES ASSUME err' \in [Procs -> Errors], NEW p \in Procs
               PROVE  ExitCode(err'[p]) \in 0 .. 5 \cup {137}
    OBVIOUS
  <2>1. err'[p] \in Errors
    OBVIOUS
  <2> QED
    BY <2>1, ErrorsHaveCodes
<1>1. ASSUME NEW p \in DOMAIN job, Step(p) PROVE TypeOK'
  <2> USE JobTyped DEF Goto, Fail, world, outside, memory
  <2> HIDE DEF ExitCode
  <2>1. CASE Load(p)
    BY <1>0, <2>1, AccountsAssumption DEF Load, TypeOK, Bounded, Path, Has, Early, Errors, Files
  <2>2. CASE ReadInput(p)
    BY <1>0, <2>2, AccountsAssumption DEF ReadInput, TypeOK, Bounded, Path, Has, Early, Errors, Files
  <2>3. CASE OpenKey(p)
    BY <1>0, <2>3, AccountsAssumption DEF OpenKey, TypeOK, Bounded, Path, Has, Early, Errors, Files
  <2>4. CASE Build(p)
    BY <1>0, <2>4, AccountsAssumption DEF Build, TypeOK, Bounded, Path, Has, Early, Errors, Files
  <2>5. CASE ResolveStatic(p)
    <3>1. /\ err' \in [Procs -> Errors] /\ UNCHANGED <<held, asked, signed, disk, world>>
          /\ pc' \in [Procs -> {"keep", "sign", "truncate", "print", "done"} \cup {pc[q] : q \in Procs}]
      BY <2>5 DEF ResolveStatic, Built, AfterBuild, TypeOK, Bounded, Errors
    <3>2. nonce' \in [Procs -> Nat \cup {None}] /\ unsigned' \in [Procs -> Unsigned \cup {None}]
      BY <2>5 DEF ResolveStatic, Built, Job, Unsigned, TypeOK
    <3> QED
      BY <1>0, <3>1, <3>2 DEF TypeOK
  <2>6. CASE ResolveChain(p)
    BY <1>0, <2>6, AccountsAssumption DEF ResolveChain, TypeOK, Bounded, Path, Has, Early, Errors, Files
  <2>7. CASE ResolveFee(p, "tip", "fee")
    BY <1>0, <2>7, AccountsAssumption DEF ResolveFee, TypeOK, Bounded, Path, Has, Early, Errors, Files
  <2>8. CASE ResolveFee(p, "fee", "nonce")
    BY <1>0, <2>8, AccountsAssumption DEF ResolveFee, TypeOK, Bounded, Path, Has, Early, Errors, Files
  <2>9. CASE ResolveNonce(p)
    BY <1>0, <2>9, AccountsAssumption DEF ResolveNonce, From, Job, TypeOK, Bounded, Path, Has, Early, Errors, Files
  <2>10. CASE ResolveGas(p)
    <3>1. nonce[p] \in Nat
      BY <2>10 DEF ResolveGas, Bounded, Has
    <3>2. nonce' \in [Procs -> Nat \cup {None}] /\ unsigned' \in [Procs -> Unsigned \cup {None}]
      BY <2>10, <3>1 DEF ResolveGas, Built, Unsigned, TypeOK
    <3>3. From(p) \in Accounts \cup {NoAccount}
      BY DEF From, Job, TypeOK
    <3>4. asked' \in [Procs -> SUBSET (Accounts \cup {NoAccount})]
      BY <2>10, <3>3 DEF ResolveGas, TypeOK
    <3>5. /\ err' \in [Procs -> Errors] /\ UNCHANGED <<held, signed, disk, world>>
          /\ pc' \in [Procs -> {"keep", "sign", "truncate", "print", "done"} \cup {pc[q] : q \in Procs}]
      BY <2>10 DEF ResolveGas, Built, AfterBuild, TypeOK, Bounded, Errors
    <3> QED
      BY <1>0, <3>2, <3>4, <3>5 DEF TypeOK
  <2>11. CASE KeepUnsigned(p)
    BY <1>0, <2>11, AccountsAssumption DEF KeepUnsigned, WriteAtomic, TypeOK, Bounded, Path, Has, Early, Errors, Files
  <2>12. CASE SignLocal(p)
    BY <1>0, <2>12, AccountsAssumption DEF SignLocal, Signed, TypeOK, Bounded, Path, Has, Early, Errors, Files
  <2>13. CASE OpenLedger(p)
    BY <1>0, <2>13, AccountsAssumption DEF OpenLedger, TypeOK, Bounded, Path, Has, Early, Errors, Files
  <2>14. CASE SignLedger(p)
    <3>1. unsigned[p] \in Unsigned
      BY <2>14 DEF SignLedger, Bounded, Has
    <3>2. signed' \in [Procs -> Signed \cup {None}] /\ err' \in [Procs -> Errors]
      BY <2>14, <3>1, AccountsAssumption DEF SignLedger, Signed, Errors, Bounded, TypeOK
    <3> QED
      BY <1>0, <2>14, <3>2 DEF SignLedger, TypeOK
  <2>15. CASE Emit(p)
    BY <1>0, <2>15, AccountsAssumption DEF Emit, TypeOK, Bounded, Path, Has, Early, Errors, Files
  <2>16. CASE PrintResult(p)
    BY <1>0, <2>16, AccountsAssumption DEF PrintResult, TypeOK, Bounded, Path, Has, Early, Errors, Files
  <2>17. CASE WriteJson(p)
    BY <1>0, <2>17, AccountsAssumption DEF WriteJson, WriteAtomic, TypeOK, Bounded, Path, Has, Early, Errors, Files
  <2>18. CASE WriteRaw(p)
    BY <1>0, <2>18, AccountsAssumption DEF WriteRaw, WriteAtomic, TypeOK, Bounded, Path, Has, Early, Errors, Files
  <2>19. CASE Truncate(p)
    BY <1>0, <2>19, AccountsAssumption DEF Truncate, InPlace, InPlaceErr, TypeOK, Bounded, Path, Has, Early, Errors, Files
  <2>20. CASE Fill(p)
    BY <1>0, <2>20, AccountsAssumption DEF Fill, InPlace, InPlaceErr, TypeOK, Bounded, Path, Has, Early, Errors, Files
  <2> QED
    BY <1>1, <2>1, <2>2, <2>3, <2>4, <2>5, <2>6, <2>7, <2>8, <2>9, <2>10, <2>11, <2>12, <2>13, <2>14, <2>15, <2>16, <2>17, <2>18, <2>19, <2>20 DEF Step
<1>2. ASSUME NEW p \in DOMAIN job, Interrupt(p) PROVE TypeOK'
  BY <1>2 DEF Interrupt, progress, memory, TypeOK
<1>3. ASSUME NEW p \in DOMAIN job, Kill(p) PROVE TypeOK'
  <2>1. err' \in [Procs -> Errors] /\ kills' \in 0 .. MaxKills
    <3>1. err' \in [Procs -> Errors]
      BY <1>3 DEF Kill, Fail, Bounded, Errors
    <3>2. kills' \in 0 .. MaxKills
      BY <1>3, BoundsAssumption DEF Kill, TypeOK
    <3> QED
      BY <3>1, <3>2
  <2> QED
    BY <1>0, <1>3, <2>1 DEF Kill, Fail, memory, TypeOK
<1>4. CASE ExchangeKey
  BY <1>4, BoundsAssumption DEF ExchangeKey, progress, memory, TypeOK
<1>5. CASE Broadcast
  <2>1. PICK s \in {disk["signed"], disk["raw"]} \ {None, Torn} :
          pool' = [pool EXCEPT ![s.account] = @ + 1] /\ accepted' = accepted \cup {s}
    BY <1>5 DEF Broadcast
  <2>2. s \in Signed
    BY <2>1 DEF TypeOK
  <2> QED
    BY <1>5, <2>1, <2>2 DEF Broadcast, progress, memory, TypeOK, Signed
<1>6. CASE UNCHANGED vars
  BY <1>6 DEF vars, progress, memory, world, outside, TypeOK
<1> QED
  BY <1>1, <1>2, <1>3, <1>4, <1>5, <1>6 DEF Next, Finished

(* The steps of a command, one by one. *)
LEMMA OwnStep ==
  ASSUME TypeOK, Bounded, NEW p \in DOMAIN job, Step(p)
  PROVE  /\ err' \in [Procs -> Errors]
         /\ disk' \in [Files -> Unsigned \cup Signed \cup {None, Torn}]
         /\ (Path(p) /\ Has(p) /\ Asks(p))'
<1> USE JobTyped, AccountsAssumption
    DEF TypeOK, Bounded, Path, Has, Asks, Early, Goto, Fail, world, outside, memory
<1> HIDE DEF ExitCode
<1>1. CASE Load(p)
  BY <1>1 DEF Load, MissingSender, From, Errors, Job
<1>2. CASE ReadInput(p)
  BY <1>2 DEF ReadInput, MissingSender, From, Errors, Job
<1>3. CASE OpenKey(p)
  <2>1. pc[p] = "key" /\ asked[p] = {} /\ signed[p] = None
    BY <1>3 DEF OpenKey
  <2>2. UNCHANGED <<job, asked, nonce, unsigned, signed, disk>>
    BY <1>3 DEF OpenKey
  <2>3. CASE keyFile \in BadKeys
    BY <1>3, <2>1, <2>2, <2>3 DEF OpenKey, Errors, MissingSender
  <2>4. CASE keyFile \notin BadKeys
    <3>1. held'[p] \in Accounts /\ err' = err
      BY <1>3, <2>4 DEF OpenKey
    <3>2. pc'[p] = IF job[p].cmd = "run" THEN "build" ELSE "sign"
      BY <1>3, <2>4 DEF OpenKey
    <3> QED
      BY <2>1, <2>2, <3>1, <3>2 DEF MissingSender, Job
  <2> QED
    BY <2>3, <2>4
<1>4. CASE Build(p)
  BY <1>4 DEF Build, MissingSender, From, Errors, Job
<1>5. CASE ResolveStatic(p)
  <2>1. Given(p) = Fields /\ UNCHANGED <<job, held, asked, signed, disk>>
    BY <1>5 DEF ResolveStatic, Given
  <2>2. PICK n \in Nat : Built(p, n)
    BY <1>5, <2>1 DEF ResolveStatic, Job
  <2>3. unsigned'[p] \in Unsigned /\ pc'[p] = AfterBuild(p) /\ err' = err
    BY <2>2 DEF Built, Unsigned
  <2> QED
    BY <1>5, <2>1, <2>3 DEF ResolveStatic, AfterBuild, MissingSender, From, Job
<1>6. CASE ResolveChain(p)
  BY <1>6 DEF ResolveChain, MissingSender, From, Errors, Job
<1>7. CASE ResolveFee(p, "tip", "fee")
  BY <1>7 DEF ResolveFee, MissingSender, From, Errors, Job
<1>8. CASE ResolveFee(p, "fee", "nonce")
  BY <1>8 DEF ResolveFee, MissingSender, From, Errors, Job
<1>9. CASE ResolveNonce(p)
  <2>1. /\ pc[p] = "nonce" /\ job[p].rpc /\ job[p] \in Job /\ Given(p) = job[p].given
        /\ UNCHANGED <<job, held, unsigned, signed, disk>>
    BY <1>9 DEF ResolveNonce, Given
  <2>2. CASE "nonce" \in Given(p)
    <3>1. nonce'[p] \in Nat /\ pc'[p] = "gas" /\ err' = err /\ asked' = asked
      BY <1>9, <2>1, <2>2 DEF ResolveNonce, Job
    <3> QED
      BY <2>1, <3>1 DEF MissingSender, From
  <2>3. CASE "nonce" \notin Given(p)
    <3>1. From(p) \in Accounts
      BY <2>1, <2>3 DEF MissingSender, From, Job
    <3>2. From(p) # NoAccount
      BY <3>1
    <3>3. CASE cancel[p]
      BY <1>9, <2>1, <2>3, <3>2, <3>3 DEF ResolveNonce, Errors, From
    <3>4. CASE ~cancel[p]
      <4>1. asked'[p] = {From(p)} /\ job[p].cmd # "sign"
        BY <1>9, <2>1, <2>3, <3>2, <3>4 DEF ResolveNonce
      <4>2. \/ nonce'[p] \in Nat /\ pc'[p] = "gas" /\ err' = err
            \/ pc'[p] = "done" /\ err' = [err EXCEPT ![p] = "RpcEstimation"]
        BY <1>9, <2>1, <2>3, <3>1, <3>2, <3>4 DEF ResolveNonce
      <4> QED
        BY <2>1, <3>1, <4>1, <4>2 DEF MissingSender, From, Errors
    <3> QED
      BY <3>3, <3>4
  <2> QED
    BY <2>2, <2>3
<1>10. CASE ResolveGas(p)
  <2>1. /\ pc[p] = "gas" /\ job[p].rpc /\ job[p] \in Job /\ Given(p) = job[p].given
        /\ nonce[p] \in Nat /\ UNCHANGED <<job, held, signed, disk>>
    BY <1>10 DEF ResolveGas, Given
  <2>a. ASSUME Built(p, nonce[p])
        PROVE  unsigned'[p] \in Unsigned /\ pc'[p] = AfterBuild(p) /\ err' = err
    BY <2>1, <2>a DEF Built, Unsigned
  <2>2. CASE "gas" \in Given(p)
    <3>1. Built(p, nonce[p]) /\ asked' = asked
      BY <1>10, <2>2 DEF ResolveGas
    <3> QED
      BY <2>1, <2>a, <3>1 DEF AfterBuild, MissingSender, From, Job
  <2>3. CASE "gas" \notin Given(p)
    <3>1. From(p) \in Accounts
      BY <2>1, <2>3 DEF MissingSender, From, Job
    <3>2. CASE cancel[p]
      BY <1>10, <2>1, <2>3, <3>2 DEF ResolveGas, Errors, From
    <3>3. CASE ~cancel[p]
      <4>1. asked'[p] = {From(p)} /\ job[p].cmd # "sign"
        BY <1>10, <2>1, <2>3, <3>3 DEF ResolveGas
      <4>2. \/ Built(p, nonce[p])
            \/ pc'[p] = "done" /\ err' = [err EXCEPT ![p] = "RpcEstimation"]
        BY <1>10, <2>3, <3>3 DEF ResolveGas
      <4>3. CASE Built(p, nonce[p])
        BY <2>1, <2>a, <3>1, <4>1, <4>3 DEF AfterBuild, MissingSender, From, Job
      <4>4. CASE pc'[p] = "done" /\ err' = [err EXCEPT ![p] = "RpcEstimation"]
        BY <2>1, <3>1, <4>1, <4>4 DEF From, Errors
      <4> QED
        BY <4>2, <4>3, <4>4
    <3> QED
      BY <3>2, <3>3
  <2> QED
    BY <2>2, <2>3
<1>11. CASE KeepUnsigned(p)
  BY <1>11 DEF KeepUnsigned, WriteAtomic, Files, MissingSender, From, Errors, Job
<1>12. CASE SignLocal(p)
  <2>1. /\ pc[p] = "sign" /\ job[p].signer = "local" /\ job[p].cmd # "build"
        /\ held[p] \in Accounts /\ unsigned[p] \in Unsigned
        /\ UNCHANGED <<job, held, asked, nonce, unsigned, disk>>
    BY <1>12 DEF SignLocal
  <2>2. CASE pc'[p] = "done" /\ err'[p] \in {"Cancelled", "SignMsg", "SignChain"} /\ UNCHANGED signed
    BY <1>12, <2>1, <2>2 DEF SignLocal, Errors, From
  <2>3. CASE /\ signed' = [signed EXCEPT ![p] = [tx |-> unsigned[p], account |-> held[p]]]
             /\ pc'[p] = "emit" /\ err' = err
    <3>1. signed'[p] \in Signed /\ signed'[p].account = held[p]
      BY <2>1, <2>3 DEF Signed
    <3> QED
      BY <2>1, <2>3, <3>1 DEF MissingSender, From
  <2> QED
    BY <1>12, <2>2, <2>3 DEF SignLocal
<1>13. CASE OpenLedger(p)
  BY <1>13 DEF OpenLedger, MissingSender, From, Errors, Job
<1>14. CASE SignLedger(p)
  BY <1>14 DEF SignLedger, Signed, MissingSender, From, Errors, Job
<1>15. CASE Emit(p)
  BY <1>15 DEF Emit, MissingSender, From, Errors, Job
<1>16. CASE PrintResult(p)
  BY <1>16 DEF PrintResult, MissingSender, From, Errors, Job
<1>17. CASE WriteJson(p)
  BY <1>17 DEF WriteJson, WriteAtomic, Files, MissingSender, From, Errors, Job
<1>18. CASE WriteRaw(p)
  BY <1>18 DEF WriteRaw, WriteAtomic, Files, MissingSender, From, Errors, Job
<1>19. CASE Truncate(p)
  BY <1>19 DEF Truncate, InPlace, InPlaceErr, Files, MissingSender, From, Errors, Job
<1>20. CASE Fill(p)
  BY <1>20 DEF Fill, InPlace, InPlaceErr, Files, MissingSender, From, Errors, Job
<1> QED
  BY <1>1, <1>2, <1>3, <1>4, <1>5, <1>6, <1>7, <1>8, <1>9, <1>10, <1>11, <1>12, <1>13, <1>14, <1>15, <1>16, <1>17, <1>18, <1>19, <1>20 DEF Step

LEMMA Inductive == Spec => [](TypeOK /\ Bounded)
<1>1. TypeOK /\ Bounded /\ [Next]_vars => Bounded'
  <2> SUFFICES ASSUME TypeOK, Bounded, [Next]_vars PROVE Bounded'
    OBVIOUS
  <2> USE JobTyped
  <2>1. ASSUME NEW p \in DOMAIN job, Step(p) PROVE Bounded'
    <3>1. /\ UNCHANGED job /\ DOMAIN job \subseteq Procs
          /\ \A q \in Procs \ {p} :
               UNCHANGED <<pc[q], err[q], held[q], asked[q], nonce[q], unsigned[q], signed[q]>>
      BY <2>1, OthersKept
    <3>2. /\ err' \in [Procs -> Errors]
          /\ disk' \in [Files -> Unsigned \cup Signed \cup {None, Torn}]
          /\ (Path(p) /\ Has(p) /\ Asks(p))'
      BY <2>1, OwnStep
    <3>3. \A q \in DOMAIN job \ {p} : (Path(q) /\ Has(q) /\ Asks(q))'
      BY <3>1 DEF Bounded, Path, Has, Asks, MissingSender, From
    <3>4. (\A q \in Procs \ DOMAIN job : asked[q] = {} /\ err[q] = "Ok")'
      BY <3>1 DEF Bounded
    <3>5. (\A q \in DOMAIN job : Path(q) /\ Has(q) /\ Asks(q))'
      BY <3>1, <3>2, <3>3
    <3> QED
      BY <3>2, <3>4, <3>5 DEF Bounded
  <2>2. ASSUME NEW p \in DOMAIN job, Kill(p) PROVE Bounded'
    <3>1. /\ UNCHANGED <<job, held, asked, nonce, unsigned, signed, disk>>
          /\ err' \in [Procs -> Errors] /\ err'[p] = "Killed" /\ pc'[p] = "done"
          /\ \A q \in Procs \ {p} : pc'[q] = pc[q] /\ err'[q] = err[q]
      BY <2>2 DEF Kill, Fail, memory, TypeOK, Bounded, Errors
    <3>2. \A q \in DOMAIN job : (Path(q) /\ Has(q) /\ Asks(q))'
      BY <3>1 DEF Bounded, Path, Has, Asks, MissingSender, From, Early
    <3> QED
      BY <3>1, <3>2 DEF Bounded
  <2>3. CASE UNCHANGED <<job, pc, err, held, asked, nonce, unsigned, signed, disk>>
    <3>1. \A q \in DOMAIN job : (Path(q) /\ Has(q) /\ Asks(q))'
      BY <2>3 DEF Bounded, Path, Has, Asks, MissingSender, From
    <3> QED
      BY <2>3, <3>1 DEF Bounded
  <2> QED
    BY <2>1, <2>2, <2>3
    DEF Next, Interrupt, ExchangeKey, Broadcast, Finished, vars, progress, memory, world, outside
<1> QED
  BY <1>1, InitEstablishes, TypeStep, PTL DEF Spec

(* Types, for any number of commands: in particular what is signed, kept or *)
(* written is always a complete transaction, and what is broadcast too.     *)
THEOREM TypeCorrect == Spec => []TypeOK
BY Inductive, PTL

(* "Exactly one LocalSigner construction" (run_cmd.rs): the node is never   *)
(* asked about another account than the one that signs, nor about none,     *)
(* whatever the flags are and however often the key file is exchanged.      *)
THEOREM NodeAskedForSigner == Spec => []AskedForSigner
<1>1. TypeOK /\ Bounded => AskedForSigner
  <2> SUFFICES ASSUME TypeOK, Bounded PROVE AskedForSigner
    OBVIOUS
  <2>1. ASSUME NEW p \in DOMAIN job, job[p].cmd = "run", signed[p] # None
        PROVE  asked[p] \subseteq {signed[p].account}
    BY <2>1, AccountsAssumption, JobTyped DEF Bounded, Asks, From
  <2>2. ASSUME NEW p \in Procs
        PROVE  NoAccount \notin asked[p] /\ err[p] \notin {"MissingFrom", "MissingStatic"}
    <3>1. CASE p \in DOMAIN job
      BY <3>1, AccountsAssumption DEF Bounded, Asks
    <3>2. CASE p \notin DOMAIN job
      BY <2>2, <3>2 DEF Bounded
    <3> QED
      BY <3>1, <3>2
  <2> QED
    BY <2>1, <2>2 DEF AskedForSigner, NonceOfSigner, NoUnfundedQuery
<1> QED
  BY <1>1, Inductive, PTL
-----------------------------------------------------------------------------
(* One nonce, one payment. *)

(* A transaction of a command with a fixed nonce has that nonce. *)
Right(u) == u.by # Old /\ Fixed(u.by) => u.nonce = job[u.by].nonce

(* It has it wherever it is: in memory, in a file or at the node.           *)
InHand ==
  /\ \A p \in DOMAIN job : pc[p] = "gas" /\ Fixed(p) => nonce[p] = job[p].nonce
  /\ \A p \in Procs : unsigned[p] # None => Right(unsigned[p])
  /\ \A p \in Procs : signed[p] # None => Right(signed[p].tx)

OnDisk ==
  /\ disk["unsigned"] \notin {None, Torn} => Right(disk["unsigned"])
  /\ \A f \in {"signed", "raw"} : disk[f] \notin {None, Torn} => Right(disk[f].tx)

AtNode ==
  /\ \A s \in accepted : Right(s.tx) /\ s.tx.nonce < pool[s.account]
  /\ \A s, t \in accepted : s.account = t.account /\ s.tx.nonce = t.tx.nonce => s = t

LEMMA FixedStep ==
  ASSUME TypeOK, Bounded, InHand, OnDisk, NEW p \in DOMAIN job, Step(p)
  PROVE  InHand' /\ OnDisk' /\ UNCHANGED <<job, pool, accepted>>
<1> USE JobTyped, NoneAssumption DEF world, outside, memory, Goto, Fail
<1>1. UNCHANGED <<job, pool, accepted>>
  BY DEF Step, Load, ReadInput, OpenKey, Build, ResolveStatic, ResolveChain, ResolveFee,
         ResolveNonce, ResolveGas, KeepUnsigned, SignLocal, OpenLedger, SignLedger, Emit,
         PrintResult, WriteJson, WriteRaw, Truncate, Fill, WriteAtomic
<1>2. \A q \in Procs \ {p} : UNCHANGED <<pc[q], nonce[q], unsigned[q], signed[q]>>
  BY OthersKept
<1>3. CASE UNCHANGED <<nonce, unsigned, signed, disk>> /\ (pc'[p] = "gas" => pc[p] = "gas")
  BY <1>1, <1>2, <1>3 DEF InHand, OnDisk, Right, Fixed
<1>a. ASSUME NEW n, Fixed(p) => n = job[p].nonce, UNCHANGED <<signed, disk>>,
             unsigned' = [unsigned EXCEPT ![p] = [by |-> p, nonce |-> n]], pc'[p] # "gas"
      PROVE  InHand' /\ OnDisk'
  BY <1>1, <1>2, <1>a DEF InHand, OnDisk, Right, Fixed, TypeOK
<1>4. CASE ReadInput(p)
  <2>1. CASE unsigned' = unsigned
    BY <1>3, <1>4, <2>1 DEF ReadInput, TypeOK
  <2>2. CASE unsigned' = [unsigned EXCEPT ![p] = disk["unsigned"]] /\ disk["unsigned"] \notin {None, Torn}
    <3>1. UNCHANGED <<nonce, signed, disk>> /\ pc'[p] # "gas"
      BY <1>4, <2>2 DEF ReadInput, TypeOK
    <3>2. unsigned'[p] = disk["unsigned"] /\ Right(disk["unsigned"])
      BY <2>2 DEF OnDisk, TypeOK
    <3> QED
      BY <1>1, <1>2, <2>2, <3>1, <3>2 DEF InHand, OnDisk, Right, Fixed
  <2> QED
    BY <1>4, <2>1, <2>2 DEF ReadInput
<1>5. CASE ResolveStatic(p)
  <2>1. CASE UNCHANGED <<nonce, unsigned>>
    BY <1>3, <1>5, <2>1 DEF ResolveStatic, Built, AfterBuild, TypeOK
  <2>2. CASE Built(p, IF "nonce" \in job[p].given THEN job[p].nonce ELSE 0)
    <3>1. Built(p, job[p].nonce)
      BY <2>2, JobsAssumption DEF TypeOK
    <3>2. pc'[p] # "gas"
      BY <3>1 DEF Built, AfterBuild, TypeOK
    <3> QED
      BY <1>5, <1>a, <3>1, <3>2 DEF ResolveStatic, Built
  <2> QED
    BY <1>5, <2>1, <2>2 DEF ResolveStatic
<1>6. CASE ResolveNonce(p)
  <2>1. UNCHANGED <<unsigned, signed, disk>>
    BY <1>6 DEF ResolveNonce
  <2>2. pc'[p] = "gas" /\ Fixed(p) => nonce'[p] = job[p].nonce
    BY <1>6 DEF ResolveNonce, Fixed, Given, Bounded, Path, TypeOK
  <2> QED
    BY <1>1, <1>2, <2>1, <2>2 DEF InHand, OnDisk, Right, Fixed
<1>7. CASE ResolveGas(p)
  <2>1. CASE UNCHANGED <<nonce, unsigned>>
    BY <1>3, <1>7, <2>1 DEF ResolveGas, Built, AfterBuild, TypeOK
  <2>2. CASE Built(p, nonce[p])
    <3>1. Fixed(p) => nonce[p] = job[p].nonce
      BY <1>7 DEF ResolveGas, InHand
    <3>2. pc'[p] # "gas" /\ UNCHANGED <<signed, disk>>
      BY <1>7, <2>2 DEF ResolveGas, Built, AfterBuild, TypeOK
    <3>3. unsigned' = [unsigned EXCEPT ![p] = [by |-> p, nonce |-> nonce[p]]]
      BY <2>2 DEF Built
    <3>4. unsigned'[p].by = p /\ unsigned'[p].nonce = nonce[p]
      BY <3>3 DEF TypeOK
    <3>5. (Right(unsigned[p]))'
      BY <1>1, <3>1, <3>4 DEF Right, Fixed
    <3> QED
      BY <1>1, <1>2, <3>2, <3>5 DEF InHand, OnDisk, Right, Fixed
  <2> QED
    BY <1>7, <2>1, <2>2 DEF ResolveGas
<1>8. CASE SignLocal(p) \/ SignLedger(p)
  <2>1. CASE UNCHANGED signed
    BY <1>3, <1>8, <2>1 DEF SignLocal, SignLedger, TypeOK
  <2>2. CASE signed # signed'
    <3>1. \E a : signed' = [signed EXCEPT ![p] = [tx |-> unsigned[p], account |-> a]]
      BY <1>8, <2>2 DEF SignLocal, SignLedger
    <3>2. signed'[p].tx = unsigned[p]
      BY <3>1 DEF TypeOK
    <3>3. UNCHANGED <<nonce, unsigned, disk>> /\ pc'[p] # "gas"
      BY <1>8, <2>2 DEF SignLocal, SignLedger, TypeOK
    <3>4. unsigned[p] # None
      BY <1>8 DEF SignLocal, SignLedger, Bounded, Has
    <3> QED
      BY <1>1, <1>2, <3>2, <3>3, <3>4 DEF InHand, OnDisk, Right, Fixed
  <2> QED
    BY <2>1, <2>2
<1>9. CASE KeepUnsigned(p)
  <2>1. unsigned[p] # None /\ UNCHANGED <<nonce, unsigned, signed>> /\ pc'[p] # "gas"
    BY <1>9 DEF KeepUnsigned, WriteAtomic, Bounded, Has, TypeOK
  <2>2. disk' = disk \/ disk' = [disk EXCEPT !["unsigned"] = unsigned[p]]
    BY <1>9 DEF KeepUnsigned, WriteAtomic
  <2> QED
    BY <1>1, <1>2, <2>1, <2>2 DEF InHand, OnDisk, Right, Fixed, Bounded, Files
<1>10. CASE WriteJson(p) \/ WriteRaw(p)
  <2>1. signed[p] # None /\ UNCHANGED <<nonce, unsigned, signed>> /\ pc'[p] # "gas"
    BY <1>10 DEF WriteJson, WriteRaw, WriteAtomic, Bounded, Has, TypeOK
  <2>2. disk' = disk \/ \E f \in {"signed", "raw"} : disk' = [disk EXCEPT ![f] = signed[p]]
    BY <1>10 DEF WriteJson, WriteRaw, WriteAtomic
  <2> QED
    BY <1>1, <1>2, <2>1, <2>2 DEF InHand, OnDisk, Right, Fixed, Bounded, Files
<1>11. CASE Truncate(p)
  <2>1. UNCHANGED <<nonce, unsigned, signed>> /\ pc'[p] # "gas"
    BY <1>11 DEF Truncate, TypeOK
  <2>2. disk' = disk \/ disk' = [disk EXCEPT ![InPlace(p)] = Torn]
    BY <1>11 DEF Truncate
  <2> QED
    BY <1>1, <1>2, <2>1, <2>2 DEF InHand, OnDisk, Right, Fixed, Bounded, Files
<1>12. CASE Fill(p)
  <2>1. UNCHANGED <<nonce, unsigned, signed>> /\ pc'[p] # "gas" /\ pc[p] = "fill"
    BY <1>12 DEF Fill, TypeOK
  <2>2. CASE disk' = disk
    BY <1>3, <2>1, <2>2
  <2>3. CASE job[p].cmd = "build" /\ disk' = [disk EXCEPT !["unsigned"] = unsigned[p]]
    <3>1. unsigned[p] # None
      BY <2>1, <2>3 DEF Bounded, Has
    <3> QED
      BY <1>1, <1>2, <2>1, <2>3, <3>1 DEF InHand, OnDisk, Right, Fixed, Bounded, Files
  <2>4. CASE job[p].cmd # "build" /\ disk' = [disk EXCEPT !["signed"] = signed[p]]
    <3>1. signed[p] # None
      BY <2>1, <2>4 DEF Bounded, Has, Path, Job
    <3> QED
      BY <1>1, <1>2, <2>1, <2>4, <3>1 DEF InHand, OnDisk, Right, Fixed, Bounded, Files
  <2> QED
    BY <1>12, <2>2, <2>3, <2>4 DEF Fill, InPlace
<1>13. CASE \/ Load(p) \/ OpenKey(p) \/ Build(p) \/ ResolveChain(p) \/ ResolveFee(p, "tip", "fee")
            \/ ResolveFee(p, "fee", "nonce") \/ OpenLedger(p) \/ Emit(p) \/ PrintResult(p)
  BY <1>3, <1>13
  DEF Load, OpenKey, Build, ResolveChain, ResolveFee, OpenLedger, Emit, PrintResult, TypeOK
<1> QED
  BY <1>1, <1>4, <1>5, <1>6, <1>7, <1>8, <1>9, <1>10, <1>11, <1>12, <1>13 DEF Step

LEMMA NodeStep ==
  ASSUME TypeOK, OnDisk, AtNode, Broadcast PROVE AtNode'
<1>1. PICK s \in {disk["signed"], disk["raw"]} \ {None, Torn} :
        /\ s.tx.nonce = pool[s.account]
        /\ pool' = [pool EXCEPT ![s.account] = @ + 1] /\ accepted' = accepted \cup {s}
  BY DEF Broadcast
<1>2. s \in Signed /\ s.account \in Accounts /\ s.tx.nonce \in Nat /\ Right(s.tx)
  BY <1>1 DEF TypeOK, OnDisk, Signed, Unsigned
<1>3. \A t \in accepted : t.account \in Accounts /\ t.tx.nonce \in Nat
  BY DEF TypeOK, Signed, Unsigned
<1>4. /\ pool'[s.account] = pool[s.account] + 1
      /\ \A a \in Accounts : a # s.account => pool'[a] = pool[a]
      /\ \A a \in Accounts : pool[a] \in Nat
  BY <1>1, <1>2 DEF TypeOK
<1>5. UNCHANGED job
  BY DEF Broadcast
<1>6. \A t \in accepted' : t.tx.nonce < pool'[t.account]
  BY <1>1, <1>2, <1>3, <1>4 DEF AtNode
<1>7. \A t \in accepted' : Right(t.tx)'
  BY <1>1, <1>2, <1>5 DEF AtNode, Right, Fixed
<1>8. \A t \in accepted : t.account = s.account => t.tx.nonce # s.tx.nonce
  BY <1>1, <1>3, <1>4 DEF AtNode
<1>9. \A t, u \in accepted' : t.account = u.account /\ t.tx.nonce = u.tx.nonce => t = u
  BY <1>1, <1>8 DEF AtNode
<1> QED
  BY <1>6, <1>7, <1>9 DEF AtNode

(* However often a command with a fixed nonce is repeated, exchanged,       *)
(* killed or interrupted, and whatever else is signed and sent meanwhile,   *)
(* the node takes one transaction of that nonce per account.                *)
THEOREM OnePaymentPerNonce == Spec => []FixedNoncePaysOnce
<1>1. Init => InHand /\ OnDisk /\ AtNode
  <2> SUFFICES ASSUME Init PROVE InHand /\ OnDisk /\ AtNode
    OBVIOUS
  <2>1. Right(Earlier)
    BY DEF Right, Earlier
  <2>2. disk["unsigned"] \in {None, Torn, Earlier}
    BY DEF Init, Files
  <2>3. \A f \in {"signed", "raw"} : disk[f] = None \/ disk[f].tx = Earlier
    BY DEF Init, Files
  <2>4. \A p \in Procs : pc[p] # "gas" /\ unsigned[p] = None /\ signed[p] = None
    BY DEF Init
  <2>5. accepted = {} /\ DOMAIN job \subseteq Procs
    BY InitEstablishes, JobTyped DEF Init
  <2> QED
    BY <2>1, <2>2, <2>3, <2>4, <2>5 DEF InHand, OnDisk, AtNode
<1>2. TypeOK /\ Bounded /\ InHand /\ OnDisk /\ AtNode /\ [Next]_vars => InHand' /\ OnDisk' /\ AtNode'
  <2> SUFFICES ASSUME TypeOK, Bounded, InHand, OnDisk, AtNode, [Next]_vars
               PROVE  InHand' /\ OnDisk' /\ AtNode'
    OBVIOUS
  <2>1. ASSUME NEW p \in DOMAIN job, Step(p) PROVE InHand' /\ OnDisk' /\ AtNode'
    BY <2>1, FixedStep DEF AtNode, Right, Fixed
  <2>2. ASSUME NEW p \in DOMAIN job, Kill(p) PROVE InHand' /\ OnDisk' /\ AtNode'
    BY <2>2, JobTyped DEF Kill, Fail, memory, InHand, OnDisk, AtNode, Right, Fixed, TypeOK
  <2>3. CASE UNCHANGED <<job, pc, memory, disk, pool, accepted>>
    BY <2>3 DEF memory, InHand, OnDisk, AtNode, Right, Fixed
  <2>4. CASE Broadcast
    <3>1. UNCHANGED <<job, pc, nonce, unsigned, signed, disk>>
      BY <2>4 DEF Broadcast, progress, memory
    <3> QED
      BY <2>4, <3>1, NodeStep DEF InHand, OnDisk, Right, Fixed
  <2> QED
    BY <2>1, <2>2, <2>3, <2>4
    DEF Next, Interrupt, ExchangeKey, Finished, vars, progress, world, outside
<1>3. AtNode => FixedNoncePaysOnce
  BY DEF AtNode, Right, FixedNoncePaysOnce
<1> QED
  BY <1>1, <1>2, <1>3, Inductive, PTL DEF Spec
-----------------------------------------------------------------------------
(* An interrupted command. *)

LEMMA CancelledStep ==
  ASSUME TypeOK, NEW p \in DOMAIN job, Step(p), NEW q \in Procs, cancel[q], signed[q] = None
  PROVE  signed'[q] = None
<1> USE DEF memory, Goto, Fail
<1>1. CASE Load(p)
  BY <1>1 DEF Load, TypeOK
<1>2. CASE ReadInput(p)
  BY <1>2 DEF ReadInput, TypeOK
<1>3. CASE OpenKey(p)
  BY <1>3 DEF OpenKey, TypeOK
<1>4. CASE Build(p)
  BY <1>4 DEF Build, TypeOK
<1>5. CASE ResolveStatic(p)
  BY <1>5 DEF ResolveStatic, TypeOK
<1>6. CASE ResolveChain(p)
  BY <1>6 DEF ResolveChain, TypeOK
<1>7. CASE ResolveFee(p, "tip", "fee")
  BY <1>7 DEF ResolveFee, TypeOK
<1>8. CASE ResolveFee(p, "fee", "nonce")
  BY <1>8 DEF ResolveFee, TypeOK
<1>9. CASE ResolveNonce(p)
  BY <1>9 DEF ResolveNonce, TypeOK
<1>10. CASE ResolveGas(p)
  BY <1>10 DEF ResolveGas, TypeOK
<1>11. CASE KeepUnsigned(p)
  BY <1>11 DEF KeepUnsigned, WriteAtomic, TypeOK
<1>12. CASE SignLocal(p)
  BY <1>12 DEF SignLocal, TypeOK
<1>13. CASE OpenLedger(p)
  BY <1>13 DEF OpenLedger, TypeOK
<1>14. CASE SignLedger(p)
  BY <1>14 DEF SignLedger, TypeOK
<1>15. CASE Emit(p)
  BY <1>15 DEF Emit, TypeOK
<1>16. CASE PrintResult(p)
  BY <1>16 DEF PrintResult, TypeOK
<1>17. CASE WriteJson(p)
  BY <1>17 DEF WriteJson, WriteAtomic, TypeOK
<1>18. CASE WriteRaw(p)
  BY <1>18 DEF WriteRaw, WriteAtomic, TypeOK
<1>19. CASE Truncate(p)
  BY <1>19 DEF Truncate, TypeOK
<1>20. CASE Fill(p)
  BY <1>20 DEF Fill, TypeOK
<1> QED
  BY <1>1, <1>2, <1>3, <1>4, <1>5, <1>6, <1>7, <1>8, <1>9, <1>10, <1>11, <1>12, <1>13, <1>14, <1>15, <1>16, <1>17, <1>18, <1>19, <1>20 DEF Step

(* "4  User abort": whatever the device or the key file does after it, an   *)
(* interrupted command that had no signature gets none.                     *)
THEOREM AbortedUnsigned == Spec => InterruptedNeverSigns
<1> DEFINE Never == \A p \in Procs : cancel[p] /\ signed[p] = None => signed'[p] = None
<1>1. TypeOK /\ [Next]_vars => [Never]_vars
  <2> SUFFICES ASSUME TypeOK, Next PROVE Never
    OBVIOUS
  <2>1. CASE \E p \in DOMAIN job : Step(p)
    BY <2>1, CancelledStep
  <2>2. CASE ~\E p \in DOMAIN job : Step(p)
    BY <2>2 DEF Next, Interrupt, Kill, ExchangeKey, Broadcast, Finished, memory, vars
  <2> QED
    BY <2>1, <2>2
<1> QED
  BY <1>1, TypeCorrect, PTL DEF Spec, InterruptedNeverSigns
-----------------------------------------------------------------------------
(* The artifacts. *)

Idle(p) == pc[p] \in {"load", "done"}

PreBuilt == {"load", "input", "key", "build", "static", "chain", "tip", "fee", "nonce", "gas"}

(* When an error, a signature and an unsigned transaction may be there.     *)
Stage(p) ==
  /\ err[p] # "Ok" => pc[p] = "done"
  /\ signed[p] # None => pc[p] \in {"emit", "json", "raw", "print", "truncate", "fill", "done"}
  /\ job[p].cmd # "sign" /\ pc[p] \in PreBuilt => unsigned[p] = None
  /\ pc[p] = "keep" => job[p].cmd = "run" /\ job[p].keep

Stages == \A p \in DOMAIN job : Stage(p)

(* Commands that did not overlap ran one after the other. *)
Serial == ~overlapped => \A p, q \in DOMAIN job : p # q => Idle(p) \/ Idle(q)

OnlyRuns == \A p \in DOMAIN job : job[p].cmd = "run"

HalfWritten(p) == pc[p] = "raw" \/ err[p] \in {"Output", "RawOutput", "Killed"}

Pairs ==
  ~overlapped /\ OnlyRuns =>
    /\ \A p \in DOMAIN job : pc[p] = "raw" => disk["signed"] = signed[p]
    /\ disk["signed"] # disk["raw"] => \E p \in DOMAIN job : HalfWritten(p)

LEMMA StageStep ==
  ASSUME TypeOK, Bounded, Stages, NEW p \in DOMAIN job, Step(p)
  PROVE  Stages' /\ pc[p] # "done"
<1> SUFFICES Stage(p)' /\ pc[p] # "done"
  BY OthersKept, JobTyped DEF Stages, Stage
<1> USE JobTyped
    DEF TypeOK, Bounded, Path, Asks, Early, Stages, Stage, PreBuilt, Goto, Fail, world, outside, memory
<1>1. CASE Load(p)
  BY <1>1 DEF Load
<1>2. CASE ReadInput(p)
  BY <1>2 DEF ReadInput
<1>3. CASE OpenKey(p)
  BY <1>3 DEF OpenKey
<1>4. CASE Build(p)
  BY <1>4 DEF Build
<1>5. CASE ResolveStatic(p)
  BY <1>5 DEF ResolveStatic, Built, AfterBuild
<1>6. CASE ResolveChain(p)
  BY <1>6 DEF ResolveChain
<1>7. CASE ResolveFee(p, "tip", "fee")
  BY <1>7 DEF ResolveFee
<1>8. CASE ResolveFee(p, "fee", "nonce")
  BY <1>8 DEF ResolveFee
<1>9. CASE ResolveNonce(p)
  BY <1>9 DEF ResolveNonce
<1>10. CASE ResolveGas(p)
  BY <1>10 DEF ResolveGas, Built, AfterBuild
<1>11. CASE KeepUnsigned(p)
  BY <1>11 DEF KeepUnsigned, WriteAtomic
<1>12. CASE SignLocal(p)
  BY <1>12 DEF SignLocal
<1>13. CASE OpenLedger(p)
  BY <1>13 DEF OpenLedger
<1>14. CASE SignLedger(p)
  BY <1>14 DEF SignLedger
<1>15. CASE Emit(p)
  BY <1>15 DEF Emit
<1>16. CASE PrintResult(p)
  BY <1>16 DEF PrintResult
<1>17. CASE WriteJson(p)
  BY <1>17 DEF WriteJson, WriteAtomic
<1>18. CASE WriteRaw(p)
  BY <1>18 DEF WriteRaw, WriteAtomic
<1>19. CASE Truncate(p)
  BY <1>19 DEF Truncate, InPlace, InPlaceErr
<1>20. CASE Fill(p)
  BY <1>20 DEF Fill, InPlace, InPlaceErr
<1> QED
  BY <1>1, <1>2, <1>3, <1>4, <1>5, <1>6, <1>7, <1>8, <1>9, <1>10, <1>11,
     <1>12, <1>13, <1>14, <1>15, <1>16, <1>17, <1>18, <1>19, <1>20 DEF Step

(* What a step does to the unsigned transaction, in memory and on disk.     *)
LEMMA UnsignedStep ==
  ASSUME TypeOK, Bounded, Stages, NEW p \in DOMAIN job, Step(p)
  PROVE  /\ disk'["unsigned"] # disk["unsigned"] => Replaces(p)'
         /\ unsigned[p] # None /\ job[p].cmd # "sign" => unsigned'[p] = unsigned[p]
         /\ job[p].cmd = "run" /\ job[p].keep /\ Reached(p)' =>
              \/ Reached(p)
              \/ unsigned'[p] # None /\ disk'["unsigned"] = unsigned'[p]
<1> USE JobTyped, NoneAssumption
    DEF TypeOK, Bounded, Path, Has, Early, Stages, Stage, PreBuilt, Reached, Replaces, Files,
        Goto, Fail, world, outside, memory
<1>1. CASE Load(p)
  BY <1>1 DEF Load
<1>2. CASE ReadInput(p)
  BY <1>2 DEF ReadInput
<1>3. CASE OpenKey(p)
  BY <1>3 DEF OpenKey
<1>4. CASE Build(p)
  BY <1>4 DEF Build
<1>5. CASE ResolveStatic(p)
  BY <1>5 DEF ResolveStatic, Built, AfterBuild
<1>6. CASE ResolveChain(p)
  BY <1>6 DEF ResolveChain
<1>7. CASE ResolveFee(p, "tip", "fee")
  BY <1>7 DEF ResolveFee
<1>8. CASE ResolveFee(p, "fee", "nonce")
  BY <1>8 DEF ResolveFee
<1>9. CASE ResolveNonce(p)
  BY <1>9 DEF ResolveNonce
<1>10. CASE ResolveGas(p)
  BY <1>10 DEF ResolveGas, Built, AfterBuild
<1>11. CASE KeepUnsigned(p)
  BY <1>11 DEF KeepUnsigned, WriteAtomic
<1>12. CASE SignLocal(p)
  BY <1>12 DEF SignLocal
<1>13. CASE OpenLedger(p)
  BY <1>13 DEF OpenLedger
<1>14. CASE SignLedger(p)
  BY <1>14 DEF SignLedger
<1>15. CASE Emit(p)
  BY <1>15 DEF Emit
<1>16. CASE PrintResult(p)
  BY <1>16 DEF PrintResult
<1>17. CASE WriteJson(p)
  BY <1>17 DEF WriteJson, WriteAtomic
<1>18. CASE WriteRaw(p)
  BY <1>18 DEF WriteRaw, WriteAtomic
<1>19. CASE Truncate(p)
  BY <1>19 DEF Truncate, InPlace, InPlaceErr
<1>20. CASE Fill(p)
  BY <1>20 DEF Fill, InPlace, InPlaceErr
<1> QED
  BY <1>1, <1>2, <1>3, <1>4, <1>5, <1>6, <1>7, <1>8, <1>9, <1>10, <1>11,
     <1>12, <1>13, <1>14, <1>15, <1>16, <1>17, <1>18, <1>19, <1>20 DEF Step

LEMMA SurvivesStep ==
  ASSUME TypeOK, Bounded, Stages, UnsignedSurvives, NEW p \in DOMAIN job, Step(p)
  PROVE  UnsignedSurvives'
<1> SUFFICES ASSUME NEW q \in DOMAIN job, job[q].cmd = "run", job[q].keep, Reached(q)'
             PROVE  /\ unsigned'[q] # None
                    /\ \/ disk'["unsigned"] = unsigned'[q]
                       \/ \E r \in DOMAIN job \ {q} : Replaces(r)'
  BY OthersKept DEF UnsignedSurvives
<1>1. CASE q = p /\ ~Reached(p)
  BY <1>1, UnsignedStep
<1>2. CASE q # p \/ Reached(p)
  <2>1. Reached(q) /\ unsigned[q] # None /\ unsigned'[q] = unsigned[q]
    BY <1>2, OthersKept, UnsignedStep, JobTyped DEF UnsignedSurvives, Reached
  <2>2. CASE disk'["unsigned"] # disk["unsigned"]
    BY <2>1, <2>2, UnsignedStep, OthersKept DEF Replaces
  <2>3. CASE disk'["unsigned"] = disk["unsigned"]
    <3>1. ASSUME NEW r \in DOMAIN job \ {q}, Replaces(r) PROVE Replaces(r)'
      <4>1. job' = job /\ unsigned'[r] = unsigned[r]
        BY <3>1, OthersKept, UnsignedStep, JobTyped DEF Replaces
      <4> QED
        BY <2>3, <3>1, <4>1 DEF Replaces
    <3> QED
      BY <2>1, <2>3, <3>1 DEF UnsignedSurvives
  <2> QED
    BY <2>2, <2>3
<1> QED
  BY <1>1, <1>2

(* What the steps of a tx run do to the two artifacts. *)
LEMMA ArtifactStep ==
  ASSUME TypeOK, Bounded, Stages, NEW p \in DOMAIN job, job[p].cmd = "run", Step(p)
  PROVE  \/ /\ disk'["signed"] = disk["signed"] /\ disk'["raw"] = disk["raw"]
            /\ pc[p] # "raw" /\ pc'[p] # "raw"
         \/ pc[p] = "json" /\ (pc'[p] = "raw" => disk'["signed"] = signed'[p]) /\ HalfWritten(p)'
         \/ /\ pc[p] = "raw" /\ pc'[p] = "done"
            /\ \/ disk'["signed"] = disk["signed"] /\ disk'["raw"] = signed[p]
               \/ HalfWritten(p)'
<1> USE JobTyped
    DEF TypeOK, Bounded, Path, HalfWritten, Files, Goto, Fail, world, outside, memory
<1>1. CASE Load(p)
  BY <1>1 DEF Load
<1>2. CASE ReadInput(p)
  BY <1>2 DEF ReadInput
<1>3. CASE OpenKey(p)
  BY <1>3 DEF OpenKey
<1>4. CASE Build(p)
  BY <1>4 DEF Build
<1>5. CASE ResolveStatic(p)
  BY <1>5 DEF ResolveStatic, Built, AfterBuild
<1>6. CASE ResolveChain(p)
  BY <1>6 DEF ResolveChain
<1>7. CASE ResolveFee(p, "tip", "fee")
  BY <1>7 DEF ResolveFee
<1>8. CASE ResolveFee(p, "fee", "nonce")
  BY <1>8 DEF ResolveFee
<1>9. CASE ResolveNonce(p)
  BY <1>9 DEF ResolveNonce
<1>10. CASE ResolveGas(p)
  BY <1>10 DEF ResolveGas, Built, AfterBuild
<1>11. CASE KeepUnsigned(p)
  BY <1>11 DEF KeepUnsigned, WriteAtomic
<1>12. CASE SignLocal(p)
  BY <1>12 DEF SignLocal
<1>13. CASE OpenLedger(p)
  BY <1>13 DEF OpenLedger
<1>14. CASE SignLedger(p)
  BY <1>14 DEF SignLedger
<1>15. CASE Emit(p)
  BY <1>15 DEF Emit
<1>16. CASE PrintResult(p)
  BY <1>16 DEF PrintResult
<1>17. CASE WriteJson(p)
  BY <1>17 DEF WriteJson, WriteAtomic
<1>18. CASE WriteRaw(p)
  BY <1>18 DEF WriteRaw, WriteAtomic
<1>19. CASE Truncate(p)
  BY <1>19 DEF Truncate, InPlace, InPlaceErr
<1>20. CASE Fill(p)
  BY <1>20 DEF Fill, InPlace, InPlaceErr
<1> QED
  BY <1>1, <1>2, <1>3, <1>4, <1>5, <1>6, <1>7, <1>8, <1>9, <1>10, <1>11,
     <1>12, <1>13, <1>14, <1>15, <1>16, <1>17, <1>18, <1>19, <1>20 DEF Step

(* With no overlap, a command steps while the others are idle. *)
LEMMA SoleStep ==
  ASSUME TypeOK, Bounded, Stages, Serial, NEW p \in DOMAIN job, Step(p), ~overlapped'
  PROVE  ~overlapped /\ \A q \in DOMAIN job \ {p} : Idle(q)
<1>1. CASE Load(p)
  BY <1>1, JobTyped DEF Load, Idle, TypeOK
<1>2. CASE ~Load(p)
  <2>1. pc[p] # "load" /\ overlapped' = overlapped
    BY <1>2
    DEF Step, Load, ReadInput, OpenKey, Build, ResolveStatic, ResolveChain, ResolveFee,
        ResolveNonce, ResolveGas, KeepUnsigned, SignLocal, OpenLedger, SignLedger, Emit,
        PrintResult, WriteJson, WriteRaw, Truncate, Fill, WriteAtomic, world
  <2> QED
    BY <2>1, StageStep DEF Serial, Idle
<1> QED
  BY <1>1, <1>2

LEMMA PairStep ==
  ASSUME TypeOK, Bounded, Stages, Serial, Pairs, NEW p \in DOMAIN job, Step(p)
  PROVE  Serial' /\ Pairs'
<1> SUFFICES ASSUME ~overlapped'
             PROVE  /\ (\A q, r \in DOMAIN job : q # r => Idle(q) \/ Idle(r))'
                    /\ (OnlyRuns => /\ \A q \in DOMAIN job : pc[q] = "raw" => disk["signed"] = signed[q]
                                    /\ disk["signed"] # disk["raw"] =>
                                         \E q \in DOMAIN job : HalfWritten(q))'
  BY DEF Serial, Pairs
<1>1. /\ ~overlapped /\ job' = job
      /\ \A q \in DOMAIN job \ {p} : Idle(q) /\ Idle(q)' /\ (HalfWritten(q)' <=> HalfWritten(q))
  BY SoleStep, OthersKept, JobTyped DEF Idle, HalfWritten
<1>2. pc[p] # "done" /\ err[p] = "Ok"
  BY StageStep DEF Stages, Stage
<1>3. ASSUME OnlyRuns
      PROVE  /\ \A q \in DOMAIN job : pc'[q] = "raw" => disk'["signed"] = signed'[q]
             /\ disk'["signed"] # disk'["raw"] => \E q \in DOMAIN job : HalfWritten(q)'
  <2>1. /\ \A q \in DOMAIN job : pc[q] = "raw" => disk["signed"] = signed[q]
        /\ disk["signed"] # disk["raw"] => \E q \in DOMAIN job : HalfWritten(q)
    BY <1>1, <1>3 DEF Pairs
  <2>2. \A q \in DOMAIN job : pc'[q] = "raw" => q = p
    BY <1>1 DEF Idle
  <2>3. CASE /\ disk'["signed"] = disk["signed"] /\ disk'["raw"] = disk["raw"]
             /\ pc[p] # "raw" /\ pc'[p] # "raw"
    BY <1>1, <1>2, <2>1, <2>2, <2>3 DEF HalfWritten
  <2>4. CASE (pc'[p] = "raw" => disk'["signed"] = signed'[p]) /\ HalfWritten(p)'
    BY <2>2, <2>4
  <2>5. CASE /\ pc[p] = "raw" /\ pc'[p] = "done"
             /\ \/ disk'["signed"] = disk["signed"] /\ disk'["raw"] = signed[p]
                \/ HalfWritten(p)'
    BY <2>1, <2>2, <2>5
  <2> QED
    BY <1>3, <2>3, <2>4, <2>5, ArtifactStep DEF OnlyRuns
<1> QED
  BY <1>1, <1>3 DEF OnlyRuns

(* "so it survives a sign failure"; "a companion file written alongside":   *)
(* with any number of commands the unsigned transaction that was signed, or *)
(* was to be, stays on disk until another command writes its own, and the   *)
(* two signed artifacts of runs one after the other differ only where one   *)
(* failed or was killed between them.                                       *)
THEOREM FilesTally == Spec => []ArtifactsTally
<1> DEFINE Tally == Stages /\ Serial /\ Pairs /\ UnsignedSurvives
<1>1. Init => Tally
  <2> SUFFICES ASSUME Init PROVE Tally
    OBVIOUS
  <2>1. /\ DOMAIN job \subseteq Procs /\ disk["signed"] = disk["raw"]
        /\ \A p \in DOMAIN job : /\ pc[p] = "load" /\ err[p] = "Ok"
                                 /\ signed[p] = None /\ unsigned[p] = None
    BY InitEstablishes, JobTyped DEF Init, Files
  <2> QED
    BY <2>1 DEF Stages, Stage, Serial, Idle, Pairs, UnsignedSurvives, Reached
<1>2. TypeOK /\ Bounded /\ Tally /\ [Next]_vars => Tally'
  <2> SUFFICES ASSUME TypeOK, Bounded, Tally, [Next]_vars PROVE Tally'
    OBVIOUS
  <2>1. ASSUME NEW p \in DOMAIN job, Step(p) PROVE Tally'
    BY <2>1, StageStep, SurvivesStep, PairStep
  <2>2. ASSUME NEW p \in DOMAIN job, Kill(p) PROVE Tally'
    <3>1. /\ UNCHANGED <<job, unsigned, signed, disk, overlapped>>
          /\ pc' = [pc EXCEPT ![p] = "done"] /\ err' = [err EXCEPT ![p] = "Killed"]
      BY <2>2 DEF Kill, Fail, memory
    <3>2. /\ pc'[p] = "done" /\ err'[p] = "Killed"
          /\ \A q \in DOMAIN job \ {p} : pc'[q] = pc[q] /\ err'[q] = err[q]
      BY <3>1, JobTyped DEF TypeOK, Bounded
    <3>3. Stages' /\ Serial'
      BY <3>1, <3>2 DEF Stages, Stage, Serial, Idle, PreBuilt
    <3>4. Pairs'
      BY <3>1, <3>2 DEF Pairs, OnlyRuns, HalfWritten
    <3>5. UnsignedSurvives'
      BY <3>1, <3>2 DEF UnsignedSurvives, Reached, Replaces
    <3> QED
      BY <3>3, <3>4, <3>5
  <2>3. CASE UNCHANGED <<job, pc, err, unsigned, signed, disk, overlapped>>
    BY <2>3 DEF Stages, Stage, Serial, Idle, Pairs, OnlyRuns, HalfWritten,
                UnsignedSurvives, Reached, Replaces
  <2> QED
    BY <2>1, <2>2, <2>3
    DEF Next, Interrupt, ExchangeKey, Broadcast, Finished, vars, progress, memory, world, outside
<1>3. TypeOK /\ Tally => ArtifactsTally
  BY JobTyped DEF Pairs, PairExplained, OnlyRuns, HalfWritten, ArtifactsTally
<1> QED
  BY <1>1, <1>2, <1>3, Inductive, PTL DEF Spec
=============================================================================
