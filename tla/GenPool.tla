------------------------------ MODULE GenPool ------------------------------
(* run_gen_with_deps of bins/ethernal/src/gen_cmd.rs: the preflight checks, *)
(* the bounded worker pool that processes one pubkey per claimed index, the *)
(* channel its results travel on, the collector, and what the main thread   *)
(* does with what it collected.  SIGINT may arrive at any time.             *)
(* The channel is kept as the log of everything sent, with the number of    *)
(* messages the collector has taken from its front.                         *)
EXTENDS GenDefs, Sequences, FiniteSets

CONSTANT Workers   \* the threads of the pool, cfg.parallel.max(1) of them

ASSUME WorkersAssumption == Workers # {}

VARIABLES
  cfg, fate,     \* the call's configuration; what each pubkey will come to
  cancel,        \* the process-wide token that the SIGINT handler sets
  workerCancel,  \* worker_cancel, the pool's own token
  next,          \* the shared index counter
  pc, held, outcome,  \* per worker: where it is, the index i, its result
  sent, taken,   \* the channel
  entries,       \* entries[i]: the pubkey whose entry is there, or Hole
  selected,      \* selected_err
  main,          \* where the main thread is
  published, exit

poolVars == <<workerCancel, next, pc, held, outcome, sent>>
mainVars == <<taken, entries, selected, main, published, exit>>
vars == <<cfg, fate, cancel, poolVars, mainVars>>

Hole  == -1
NoErr == [idx |-> Hole, err |-> "Ok"]

Messages == [idx : Idx, res : Outcomes]

Init ==
  /\ cfg \in Configs
  /\ fate \in [Idx -> PossibleFates]
  /\ cancel = FALSE
  /\ workerCancel = FALSE
  /\ next = 0
  /\ pc = [w \in Workers |-> "unborn"]
  /\ held = [w \in Workers |-> Hole]
  /\ outcome = [w \in Workers |-> "Ok"]
  /\ sent = << >> /\ taken = 0
  /\ entries = [i \in Idx |-> Hole]
  /\ selected = NoErr
  /\ main = "preflight"
  /\ published = "nowhere"
  /\ exit = Running

(* on_sigint: one atomic store. *)
Interrupt ==
  /\ main # "done" /\ ~cancel
  /\ cancel' = TRUE
  /\ UNCHANGED <<cfg, fate, poolVars, mainVars>>

-----------------------------------------------------------------------------
(* The worker loop.  Every access to shared state is a step of its own.     *)

Goto(w, label) == pc' = [pc EXCEPT ![w] = label]

(* FAULTY: the outer token is never looked at. *)
PollForgets(w) ==
  /\ pc[w] = "poll"
  /\ Goto(w, "claim")
  /\ UNCHANGED <<cfg, fate, cancel, workerCancel, next, held, outcome, sent, mainVars>>

(* "Propagate outer (SIGINT) cancellation into the pool."  The read of      *)
(* cancel and the store are one step: cancel never goes back to false.      *)
Poll(w) ==
  /\ pc[w] = "poll"
  /\ workerCancel' = (workerCancel \/ cancel)
  /\ Goto(w, "claim")
  /\ UNCHANGED <<cfg, fate, cancel, next, held, outcome, sent, mainVars>>

(* FAULTY: the bound is off by one. *)
ClaimPastEnd(w) ==
  /\ pc[w] = "claim"
  /\ next' = next + 1
  /\ IF next <= N THEN Goto(w, "gate") /\ held' = [held EXCEPT ![w] = next]
                  ELSE Goto(w, "gone") /\ UNCHANGED held
  /\ UNCHANGED <<cfg, fate, cancel, workerCancel, outcome, sent, mainVars>>

(* FAULTY: the thread does not leave its loop when the indices run out. *)
ClaimNeverBreaks(w) ==
  /\ pc[w] = "claim"
  /\ IF next < N THEN Goto(w, "gate") /\ held' = [held EXCEPT ![w] = next] /\ next' = next + 1
                 ELSE Goto(w, "poll") /\ UNCHANGED <<held, next>>
  /\ UNCHANGED <<cfg, fate, cancel, workerCancel, outcome, sent, mainVars>>

(* fetch_add on the shared counter; past the end the thread returns, which  *)
(* drops its sender.                                                        *)
Claim(w) ==
  /\ pc[w] = "claim"
  /\ next' = next + 1
  /\ IF next < N THEN Goto(w, "gate") /\ held' = [held EXCEPT ![w] = next]
                 ELSE Goto(w, "gone") /\ UNCHANGED held
  /\ UNCHANGED <<cfg, fate, cancel, workerCancel, outcome, sent, mainVars>>

(* FAULTY: the `continue` is missing, so a cancelled index is answered and  *)
(* then processed and answered again.                                       *)
GateFallsThrough(w) ==
  /\ pc[w] = "gate"
  /\ sent' = IF workerCancel THEN Append(sent, [idx |-> held[w], res |-> "Cancelled"])
                             ELSE sent
  /\ Goto(w, "load")
  /\ UNCHANGED <<cfg, fate, cancel, workerCancel, next, held, outcome, mainVars>>

(* A claimed index is answered with Cancelled once the pool is cancelled.   *)
Gate(w) ==
  /\ pc[w] = "gate"
  /\ IF workerCancel
     THEN Goto(w, "send") /\ outcome' = [outcome EXCEPT ![w] = "Cancelled"]
     ELSE Goto(w, "load") /\ UNCHANGED outcome
  /\ UNCHANGED <<cfg, fate, cancel, workerCancel, next, held, sent, mainVars>>

(* process_pubkey up to the generator: lookup, load, signer. *)
Load(w) ==
  /\ pc[w] = "load"
  /\ IF fate[held[w]] \in EarlyErrors
     THEN Goto(w, "flag") /\ outcome' = [outcome EXCEPT ![w] = fate[held[w]]]
     ELSE Goto(w, "generate") /\ UNCHANGED outcome
  /\ UNCHANGED <<cfg, fate, cancel, workerCancel, next, held, sent, mainVars>>

(* FAULTY: an entry that fails self-verification is returned all the same. *)
GenerateUnverified(w) ==
  /\ pc[w] = "generate"
  /\ outcome' = [outcome EXCEPT ![w] =
                   IF workerCancel THEN "Cancelled"
                   ELSE IF fate[held[w]] = "SelfVerifyFailed" THEN "Ok"
                   ELSE fate[held[w]]]
  /\ Goto(w, "flag")
  /\ UNCHANGED <<cfg, fate, cancel, workerCancel, next, held, sent, mainVars>>

(* Generator::generate: the cancel check, then the pubkey comparison and    *)
(* the self-verification of the signature.                                  *)
Generate(w) ==
  /\ pc[w] = "generate"
  /\ outcome' = [outcome EXCEPT ![w] =
                   IF workerCancel THEN "Cancelled" ELSE fate[held[w]]]
  /\ Goto(w, "flag")
  /\ UNCHANGED <<cfg, fate, cancel, workerCancel, next, held, sent, mainVars>>

(* An error cancels the pool before it is sent. *)
Flag(w) ==
  /\ pc[w] = "flag"
  /\ workerCancel' = (workerCancel \/ outcome[w] # "Ok")
  /\ Goto(w, "send")
  /\ UNCHANGED <<cfg, fate, cancel, next, held, outcome, sent, mainVars>>

Send(w) ==
  /\ pc[w] = "send"
  /\ sent' = Append(sent, [idx |-> held[w], res |-> outcome[w]])
  /\ Goto(w, "poll")
  /\ outcome' = [outcome EXCEPT ![w] = "Ok"]
  /\ held' = [held EXCEPT ![w] = Hole]
  /\ UNCHANGED <<cfg, fate, cancel, workerCancel, next, mainVars>>

Worker(w) == \/ Poll(w) \/ Claim(w) \/ Gate(w) \/ Load(w)
             \/ Generate(w) \/ Flag(w) \/ Send(w)

-----------------------------------------------------------------------------
(* The main thread. *)

(* The checks before the pool; when they pass, the threads are spawned. *)
Preflight ==
  /\ main = "preflight"
  /\ IF PreflightCode(cfg) # 0
     THEN main' = "done" /\ exit' = PreflightCode(cfg) /\ UNCHANGED pc
     ELSE main' = "collect" /\ UNCHANGED exit
          /\ pc' = [w \in Workers |-> "poll"]
  /\ UNCHANGED <<cfg, fate, cancel, workerCancel, next, held, outcome, sent,
                 taken, entries, selected, published>>

(* FAULTY: the first error received is kept. *)
FirstReceived(cur, new) == cur.err = "Ok"

(* Whether the error new takes the place of the selected error cur: a real  *)
(* failure before a cancellation, then the lowest index.                    *)
Replaces(cur, new) ==
  \/ cur.err = "Ok"
  \/ cur.err = "Cancelled" /\ new.err # "Cancelled"
  \/ (cur.err = "Cancelled" <=> new.err = "Cancelled") /\ new.idx < cur.idx

(* FAULTY: entries are stored in the order they arrive. *)
ReceiveInArrivalOrder ==
  /\ main = "collect" /\ taken < Len(sent)
  /\ LET m == sent[taken + 1] IN
       IF m.res = "Ok"
       THEN /\ entries' = [entries EXCEPT ![taken] = m.idx]
            /\ UNCHANGED <<selected, workerCancel>>
       ELSE /\ selected' = IF Replaces(selected, [idx |-> m.idx, err |-> m.res])
                           THEN [idx |-> m.idx, err |-> m.res] ELSE selected
            /\ workerCancel' = TRUE
            /\ UNCHANGED entries
  /\ taken' = taken + 1
  /\ UNCHANGED <<cfg, fate, cancel, next, pc, held, outcome, sent, main, published, exit>>

(* One turn of `for (idx, res) in res_rx`. *)
Receive ==
  /\ main = "collect" /\ taken < Len(sent)
  /\ LET m == sent[taken + 1] IN
       IF m.res = "Ok"
       THEN /\ entries' = [entries EXCEPT ![m.idx] = m.idx]
            /\ UNCHANGED <<selected, workerCancel>>
       ELSE /\ selected' = IF Replaces(selected, [idx |-> m.idx, err |-> m.res])
                           THEN [idx |-> m.idx, err |-> m.res] ELSE selected
            /\ workerCancel' = TRUE
            /\ UNCHANGED entries
  /\ taken' = taken + 1
  /\ UNCHANGED <<cfg, fate, cancel, next, pc, held, outcome, sent, main, published, exit>>

(* The channel is empty and every sender is gone: the scope ends.  The      *)
(* selected error is returned, or every entry is unwrapped.                 *)
Join ==
  /\ main = "collect"
  /\ taken = Len(sent) /\ \A w \in Workers : pc[w] = "gone"
  /\ IF selected.err # "Ok"
     THEN main' = "done" /\ exit' = ExitCode(selected.err)
     ELSE IF \E i \in Idx : entries[i] = Hole
     THEN main' = "done" /\ exit' = Panic
     ELSE main' = "write" /\ UNCHANGED exit
  /\ UNCHANGED <<cfg, fate, cancel, poolVars, taken, entries, selected, published>>

(* writer.write.  A file is all or nothing, the writer's own steps being    *)
(* OutputFs's subject.  An error is AppError::Output: the fallback code;    *)
(* when it comes from the last step, the sync of the directory, the file is *)
(* in place.  Of a dry run that fails, a part may be on stdout; after one   *)
(* that succeeds too, as write_all leaves the end of a short output in the  *)
(* buffer of std's stdout, whose errors at exit nobody sees.                *)
Write ==
  /\ main = "write"
  /\ \/ published' \in (IF cfg.dryRun THEN {"stdout", "part"} ELSE {"file"})
        /\ main' = "verify" /\ UNCHANGED exit
     \/ main' = "done" /\ exit' = 1
        /\ published' \in (IF cfg.dryRun THEN {"nowhere", "part"} ELSE {"nowhere", "file"})
  /\ UNCHANGED <<cfg, fate, cancel, poolVars, taken, entries, selected>>

(* The optional cross-check (binary not found: 2, it failed: 3), then the   *)
(* summary line and success.                                                *)
Verify ==
  /\ main = "verify"
  /\ exit' \in IF cfg.verifyCli /\ ~cfg.dryRun THEN {0, 2, 3} ELSE {0}
  /\ main' = "done"
  /\ UNCHANGED <<cfg, fate, cancel, poolVars, taken, entries, selected, published>>

Main == Preflight \/ Receive \/ Join \/ Write \/ Verify

Terminated == main = "done" /\ UNCHANGED vars

Next == Interrupt \/ Main \/ (\E w \in Workers : Worker(w)) \/ Terminated

(* The operating system schedules every thread; nobody has to interrupt.    *)
Fairness == WF_vars(Main) /\ \A w \in Workers : WF_vars(Worker(w))

Spec     == Init /\ [][Next]_vars
FairSpec == Spec /\ Fairness
-----------------------------------------------------------------------------
(* Properties.                                                              *)

(* Types; in particular no worker ever holds an index past the request.     *)
TypeOK ==
  /\ cfg \in Configs
  /\ fate \in [Idx -> Fates]
  /\ cancel \in BOOLEAN /\ workerCancel \in BOOLEAN
  /\ next \in Nat
  /\ pc \in [Workers -> {"unborn", "poll", "claim", "gate", "load", "generate",
                         "flag", "send", "gone"}]
  /\ held \in [Workers -> Idx \cup {Hole}]
  /\ outcome \in [Workers -> Outcomes]
  /\ sent \in Seq(Messages)
  /\ taken \in 0 .. Len(sent)
  /\ entries \in [Idx -> Idx \cup {Hole}]
  /\ selected \in [idx : Idx \cup {Hole}, err : Outcomes]
  /\ main \in {"preflight", "collect", "write", "verify", "done"}
  /\ published \in {"nowhere", "file", "stdout", "part"}
  /\ exit \in ExitCodes \cup {Running, Panic}

(* What holds between the steps, beyond the types: the strengthening that   *)
(* makes OutputInRequestOrder inductive.                                    *)
HandsMatchPc ==
  /\ \A w \in Workers :
       /\ held[w] # Hole <=> pc[w] \in {"gate", "load", "generate", "flag", "send"}
       /\ held[w] < next
       /\ pc[w] = "gone" => next >= N
       /\ pc[w] # "unborn" => main # "preflight"
  /\ \A k \in DOMAIN sent : sent[k].idx < next

ResultsMatchFate ==
  /\ \A w \in Workers : pc[w] \in {"flag", "send"} /\ outcome[w] = "Ok" => fate[held[w]] = "Ok"
  /\ \A k \in DOMAIN sent : sent[k].res = "Ok" => fate[sent[k].idx] = "Ok"

CollectedMatchesSent ==
  /\ \A i \in Idx : entries[i] # Hole => entries[i] = i /\ fate[i] = "Ok"
  /\ \A k \in 1 .. taken : sent[k].res = "Ok" => entries[sent[k].idx] = sent[k].idx
  /\ selected.err = "Ok" => \A k \in 1 .. taken : sent[k].res = "Ok"

WrittenOnlyWhenFull ==
  /\ main \in {"write", "verify"} => \A i \in Idx : entries[i] = i
  /\ published # "nowhere" => main \in {"verify", "done"} /\ \A i \in Idx : entries[i] = i

(* Every claimed index is in exactly one place, a worker's hands or the     *)
(* channel: no result is lost when the pool is cancelled and none is sent   *)
(* twice, however the workers interleave.                                   *)
AnsweredOnce ==
  /\ \A i \in Idx : i < next =>
       \/ \E w \in Workers : held[w] = i
       \/ \E k \in DOMAIN sent : sent[k].idx = i
  /\ \A v, w \in Workers : held[v] = held[w] /\ held[v] # Hole => v = w
  /\ \A j, k \in DOMAIN sent : sent[j].idx = sent[k].idx => j = k
  /\ \A w \in Workers : \A k \in DOMAIN sent : held[w] # sent[k].idx

(* "Collect results, preserving input order via the index": what is         *)
(* published has the entry of every requested pubkey, in request order (and *)
(* what is only part of it on stdout is the beginning of that), whatever    *)
(* order the workers finished in.                                           *)
OutputInRequestOrder ==
  published # "nowhere" => \A i \in Idx : entries[i] = i /\ fate[i] = "Ok"

(* selected_err is, at every moment, the lowest-index real failure among    *)
(* the results received, and a cancellation only when there is no other.    *)
SelectedIsBest ==
  LET errs  == {k \in 1 .. taken : sent[k].res # "Ok"}
      real  == {k \in errs : sent[k].res # "Cancelled"}
      class == IF real # {} THEN real ELSE errs
  IN IF errs = {} THEN selected = NoErr
     ELSE \E k \in class : /\ selected = [idx |-> sent[k].idx, err |-> sent[k].res]
                           /\ \A j \in class : sent[k].idx <= sent[j].idx

IInv == /\ TypeOK /\ HandsMatchPc /\ AnsweredOnce /\ ResultsMatchFate
        /\ CollectedMatchesSent /\ WrittenOnlyWhenFull

(* The pipeline keeps GenPromise: a file is published whole or not at all,  *)
(* an exit code has a cause (4 only after a SIGINT, although the pool       *)
(* cancels itself on any error), and there is no panic on a missing entry.  *)
Promise       == INSTANCE GenPromise
KeepsPromise  == Promise!Spec

(* The program ends: the channel closes because every worker leaves its     *)
(* loop, whatever failed or was cancelled.                                  *)
Terminates == <>(main = "done")

(* A SIGINT while more indices are unclaimed than there are workers past    *)
(* their poll means that nothing will be published.                         *)
InterruptStopsPool ==
  (cancel /\ next + Cardinality({w \in Workers : pc[w] = "claim"}) < N)
    ~> (main = "done" /\ published = "nowhere")

(* "keep the lowest-index non-cancellation error so the reported exit code  *)
(* is stable under worker scheduling" (gen_cmd.rs): without a SIGINT the    *)
(* exit code would be the one of the first pubkey, in request order, that   *)
(* cannot be processed.                                                     *)
StableExitCode ==
  (main = "done" /\ ~cancel /\ PreflightCode(cfg) = 0) =>
     \A i \in Idx : (fate[i] # "Ok" /\ \A j \in Idx : j < i => fate[j] = "Ok")
                      => exit = ExitCode(fate[i])
=============================================================================
