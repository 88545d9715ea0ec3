------------------------------- MODULE TxSend -------------------------------
(* tx send (bins/ethernal/src/send_cmd.rs): several runs of the command     *)
(* with the same signed transaction, one after the other or at once, as a   *)
(* retrying operator or script starts them, against one node.  A request or *)
(* an answer may be lost, and a request may reach the node after the client *)
(* has given it up.  SIGINT may arrive at any time.                         *)
EXTENDS Naturals

CONSTANTS
  Runs,       \* the runs of the command
  Jobs,       \* the assignments of a job to one run or several
  Deadline    \* --receipt-timeout, in poll intervals

Job == [input : {"good", "unreadable", "badJson", "badRlp"}, stdin : BOOLEAN, yes : BOOLEAN,
        chain : BOOLEAN, wait : BOOLEAN, out : BOOLEAN]

ASSUME DeadlineAssumption == Deadline \in Nat
ASSUME JobsAssumption ==
  \A a \in Jobs : DOMAIN a \subseteq Runs /\ \A r \in DOMAIN a : a[r] \in Job /\ (a[r].out => a[r].wait)

VARIABLES
  job, cancel, pc, err,
  typed,      \* what was answered to the confirmation
  wire,       \* the run's eth_sendRawTransaction, on its way or answered
  printed,    \* the hash has been printed
  age,        \* the time since the receipt was first asked for
  receipt,    \* what the poll brought
  file,       \* the receipt file of each run
  node        \* the transaction as the node has it

progress == <<pc, err>>
sendVars == <<job, cancel, progress, typed, wire, printed, age, receipt, file, node>>

SendInit ==
  /\ job \in Jobs
  /\ cancel = [r \in Runs |-> FALSE]
  /\ pc = [r \in Runs |-> IF r \in DOMAIN job THEN "read" ELSE "done"]
  /\ err = [r \in Runs |-> "Ok"]
  /\ typed = [r \in Runs |-> "nothing"]
  /\ wire = [r \in Runs |-> "idle"]
  /\ printed = [r \in Runs |-> FALSE]
  /\ age = [r \in Runs |-> 0]
  /\ receipt = [r \in Runs |-> "none"]
  /\ file = [r \in Runs |-> "none"]
  /\ node = "unknown"

Goto(r, label) == pc' = [pc EXCEPT ![r] = label] /\ UNCHANGED err
Fail(r, e)     == pc' = [pc EXCEPT ![r] = "done"] /\ err' = [err EXCEPT ![r] = e]

(* exit_code_for, for the errors of this command. *)
ExitCode(e) == CASE e = "Ok" -> 0
                 [] e \in {"Receipt", "Timeout"} -> 1
                 [] e \in {"Usage", "ReceiptFile"} -> 2
                 [] e \in {"Aborted", "Cancelled"} -> 4
                 [] e \in {"RpcDial", "ChainIdMismatch", "BroadcastFailed"} -> 5

(* The signed transaction is read and parsed, and the URL's scheme checked. *)
Read(r) ==
  /\ pc[r] = "read"
  /\ IF job[r].input \in {"unreadable", "badJson"} THEN Fail(r, "Usage")
     ELSE Goto(r, "chain") \/ Fail(r, "RpcDial")
  /\ UNCHANGED <<job, cancel, typed, wire, printed, age, receipt, file, node>>

(* FAULTY: --yes also skips the comparison of the chain IDs. *)
CheckChainUnlessYes(r) ==
  /\ pc[r] = "chain"
  /\ \/ Fail(r, "BroadcastFailed")
     \/ IF job[r].yes THEN Goto(r, "send")
        ELSE IF ~job[r].chain THEN Fail(r, "ChainIdMismatch")
        ELSE Goto(r, "confirm")
  /\ UNCHANGED <<job, cancel, typed, wire, printed, age, receipt, file, node>>

(* eth_chainId, compared with the signed one. *)
CheckChain(r) ==
  /\ pc[r] = "chain"
  /\ \/ Fail(r, "BroadcastFailed")
     \/ IF ~job[r].chain THEN Fail(r, "ChainIdMismatch")
        ELSE Goto(r, IF job[r].yes THEN "send" ELSE "confirm")
  /\ UNCHANGED <<job, cancel, typed, wire, printed, age, receipt, file, node>>

(* The network's name confirms; anything else, and an end of input, aborts. *)
(* A transaction that came from stdin has left only the end of input.       *)
Confirm(r) ==
  /\ pc[r] = "confirm"
  /\ \E line \in IF job[r].stdin THEN {"eof"} ELSE {"network", "other", "eof"} :
       /\ typed' = [typed EXCEPT ![r] = line]
       /\ IF line = "network" THEN Goto(r, "send") ELSE Fail(r, "Aborted")
  /\ UNCHANGED <<job, cancel, wire, printed, age, receipt, file, node>>

(* send_raw_transaction decodes the envelope before it posts it. *)
Send(r) ==
  /\ pc[r] = "send"
  /\ IF job[r].input = "badRlp" THEN Fail(r, "BroadcastFailed") /\ UNCHANGED wire
     ELSE wire' = [wire EXCEPT ![r] = "request"] /\ Goto(r, "answer")
  /\ UNCHANGED <<job, cancel, typed, printed, age, receipt, file, node>>

(* The node's answer: the hash, or an error.  Without one, whether the      *)
(* request, the answer or the connection was lost, the call ends in the     *)
(* same error.                                                              *)
Answer(r) ==
  /\ pc[r] = "answer"
  /\ \/ /\ wire[r] = "accepted"
        /\ printed' = [printed EXCEPT ![r] = TRUE]
        /\ Goto(r, IF job[r].wait THEN "poll" ELSE "done")
     \/ Fail(r, "BroadcastFailed") /\ UNCHANGED printed
  /\ UNCHANGED <<job, cancel, typed, wire, age, receipt, file, node>>

(* FAULTY: the deadline is computed anew for every poll. *)
PollRestartsDeadline(r) ==
  /\ pc[r] = "poll"
  /\ \/ Fail(r, "Receipt") /\ UNCHANGED receipt
     \/ /\ node \in {"success", "reverted"}
        /\ receipt' = [receipt EXCEPT ![r] = node]
        /\ Goto(r, "receipt")
     \/ /\ node \notin {"success", "reverted"}
        /\ IF cancel[r] THEN Fail(r, "Cancelled") ELSE Goto(r, "sleep")
        /\ UNCHANGED receipt
  /\ age' = [age EXCEPT ![r] = 0]
  /\ UNCHANGED <<job, cancel, typed, wire, printed, file, node>>

(* FAULTY: one poll interval is granted on top. *)
PollOnceMore(r) ==
  /\ pc[r] = "poll"
  /\ \/ /\ node \in {"success", "reverted"}
        /\ receipt' = [receipt EXCEPT ![r] = node]
        /\ Goto(r, "receipt")
     \/ /\ node \notin {"success", "reverted"}
        /\ IF age[r] > Deadline + 1 THEN Fail(r, "Timeout") ELSE Goto(r, "sleep")
        /\ UNCHANGED receipt
  /\ UNCHANGED <<job, cancel, typed, wire, printed, age, file, node>>

(* One turn of poll_receipt up to its sleep: the receipt is asked for       *)
(* first, then the deadline and the token are looked at.                    *)
Poll(r) ==
  /\ pc[r] = "poll"
  /\ \/ Fail(r, "Receipt") /\ UNCHANGED receipt
     \/ /\ node \in {"success", "reverted"}
        /\ receipt' = [receipt EXCEPT ![r] = node]
        /\ Goto(r, "receipt")
     \/ /\ node \notin {"success", "reverted"}
        /\ IF age[r] > Deadline THEN Fail(r, "Timeout")
           ELSE IF cancel[r] THEN Fail(r, "Cancelled")
           ELSE Goto(r, "sleep")
        /\ UNCHANGED receipt
  /\ UNCHANGED <<job, cancel, typed, wire, printed, age, file, node>>

(* The sleep, and the second look at the token. *)
Sleep(r) ==
  /\ pc[r] = "sleep"
  /\ age' = [age EXCEPT ![r] = @ + 1]
  /\ IF cancel[r] THEN Fail(r, "Cancelled") ELSE Goto(r, "poll")
  /\ UNCHANGED <<job, cancel, typed, wire, printed, receipt, file, node>>

(* FAULTY: a receipt file that cannot be written is only logged. *)
SaveReceiptQuietly(r) ==
  /\ pc[r] = "receipt"
  /\ Goto(r, "done")
  /\ \/ job[r].out /\ file' = [file EXCEPT ![r] = receipt[r]]
     \/ UNCHANGED file
  /\ UNCHANGED <<job, cancel, typed, wire, printed, age, receipt, node>>

(* The receipt is printed and, with --receipt-output, written atomically;   *)
(* a failed write may have left the file in place.  A reverted transaction  *)
(* is a success.                                                            *)
SaveReceipt(r) ==
  /\ pc[r] = "receipt"
  /\ IF ~job[r].out THEN Goto(r, "done") /\ UNCHANGED file
     ELSE \/ file' = [file EXCEPT ![r] = receipt[r]] /\ Goto(r, "done")
          \/ Fail(r, "ReceiptFile")
             /\ \E f \in {file[r], receipt[r]} : file' = [file EXCEPT ![r] = f]
  /\ UNCHANGED <<job, cancel, typed, wire, printed, age, receipt, node>>

Step(r) == \/ Read(r) \/ CheckChain(r) \/ Confirm(r) \/ Send(r) \/ Answer(r)
           \/ Poll(r) \/ Sleep(r) \/ SaveReceipt(r)

-----------------------------------------------------------------------------
(* The node, the network and the operator. *)

(* A request arrives.  The node takes the transaction once; it refuses one  *)
(* it has, and may refuse one it does not like.                             *)
Receive(r) ==
  /\ wire[r] = "request"
  /\ \/ /\ node = "unknown" /\ node' = "pending"
        /\ wire' = [wire EXCEPT ![r] = "accepted"]
     \/ wire' = [wire EXCEPT ![r] = "refused"] /\ UNCHANGED node
  /\ UNCHANGED <<job, cancel, progress, typed, printed, age, receipt, file>>

MineBlock ==
  /\ node = "pending"
  /\ node' \in {"success", "reverted"}
  /\ UNCHANGED <<job, cancel, progress, typed, wire, printed, age, receipt, file>>

Interrupt(r) ==
  /\ pc[r] # "done" /\ ~cancel[r]
  /\ cancel' = [cancel EXCEPT ![r] = TRUE]
  /\ UNCHANGED <<job, progress, typed, wire, printed, age, receipt, file, node>>

Finished == (\A r \in Runs : pc[r] = "done") /\ UNCHANGED sendVars

SendNext == (\E r \in DOMAIN job : Step(r) \/ Receive(r) \/ Interrupt(r)) \/ MineBlock \/ Finished

SendSpec == SendInit /\ [][SendNext]_sendVars

(* Each run is scheduled and its operator answers.  Nothing is assumed of   *)
(* the node: the HTTP client gives a request up after 30 s.                 *)
SendFairSpec == SendSpec /\ \A r \in Runs : WF_sendVars(Step(r))

-----------------------------------------------------------------------------
(* Properties. *)

(* Types; the wait for a receipt never outlasts the deadline by a turn.     *)
SendTypeOK ==
  /\ job \in Jobs /\ cancel \in [Runs -> BOOLEAN]
  /\ pc \in [Runs -> {"read", "chain", "confirm", "send", "answer", "poll", "sleep",
                      "receipt", "done"}]
  /\ \A r \in Runs : ExitCode(err[r]) \in {0, 1, 2, 4, 5}
  /\ typed \in [Runs -> {"nothing", "network", "other", "eof"}]
  /\ wire \in [Runs -> {"idle", "request", "accepted", "refused"}]
  /\ printed \in [Runs -> BOOLEAN] /\ age \in [Runs -> 0 .. Deadline + 1]
  /\ receipt \in [Runs -> {"none", "success", "reverted"}]
  /\ file \in [Runs -> {"none", "success", "reverted"}]
  /\ node \in {"unknown", "pending", "success", "reverted"}

(* "Broadcast is gated by chain-ID match and operator confirmation": what   *)
(* is on the wire was confirmed by name or with --yes, for this chain; a    *)
(* transaction piped in needs --yes.                                        *)
BroadcastIsGated ==
  \A r \in DOMAIN job : wire[r] # "idle" =>
     job[r].chain /\ (job[r].yes \/ (typed[r] = "network" /\ ~job[r].stdin))

(* What a script may conclude from the way a run ends.  Success: the node   *)
(* has the transaction, the hash is out and what was asked for is there. An *)
(* abort or a refused input: this run has sent nothing.  An error after the *)
(* broadcast comes with the hash.                                           *)
ExitIsHonest ==
  \A r \in DOMAIN job : pc[r] = "done" =>
    /\ err[r] = "Ok" => /\ printed[r] /\ node # "unknown"
                        /\ job[r].wait => node = receipt[r]
                        /\ job[r].out => file[r] = receipt[r]
    /\ err[r] \in {"Usage", "Aborted", "RpcDial", "ChainIdMismatch"} => wire[r] = "idle"
    /\ err[r] \in {"Receipt", "Timeout", "Cancelled", "ReceiptFile"} =>
          printed[r] /\ node # "unknown"

(* Every run ends, however slow the chain: a transaction that is not mined  *)
(* ends in the timeout, a silent node in an error.                          *)
Ends == \A r \in Runs : <>(pc[r] = "done")

(* "4  User abort (Ctrl-C or declined confirmation)" (the help text of tx   *)
(* send): a run interrupted before or at the confirmation would end without *)
(* sending anything.                                                        *)
InterruptAborts ==
  \A r \in Runs : (cancel[r] /\ pc[r] \in {"read", "chain", "confirm"})
                    ~> (pc[r] = "done" /\ wire[r] = "idle")
=============================================================================
