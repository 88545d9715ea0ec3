---------------------------- MODULE PublishOnce ----------------------------
(* What write_new_0600 promises the commands that persist keystores: a name *)
(* gets the whole content of at most one caller, the one that is told Ok,   *)
(* and keeps it.  A name may be claimed for a while before it has content   *)
(* (the reservation of file systems without hard links).                    *)
CONSTANTS Procs, Targets, None, Old

VARIABLES
  target,   \* the name each caller writes
  file,     \* the content of each name: a caller, Old, or None
  claim,    \* who has claimed a name without content
  answer    \* what each caller has been told

vars == <<target, file, claim, answer>>

Init ==
  /\ target \in [Procs -> Targets]
  /\ file \in [Targets -> {None, Old}]
  /\ claim = [t \in Targets |-> None]
  /\ answer = [p \in Procs |-> "pending"]

Claim(p) ==
  LET t == target[p] IN
  /\ answer[p] = "pending" /\ file[t] = None /\ claim[t] = None
  /\ claim' = [claim EXCEPT ![t] = p]
  /\ UNCHANGED <<target, file, answer>>

GiveBack(p) ==
  LET t == target[p] IN
  /\ answer[p] = "pending" \/ answer[p] = "failed"
  /\ claim[t] = p
  /\ claim' = [claim EXCEPT ![t] = None]
  /\ UNCHANGED <<target, file, answer>>

Publish(p) ==
  LET t == target[p] IN
  /\ answer[p] = "pending" /\ file[t] = None /\ claim[t] \in {None, p}
  /\ file' = [file EXCEPT ![t] = p]
  /\ claim' = [claim EXCEPT ![t] = None]
  /\ UNCHANGED <<target, answer>>

Tell(p, a) ==
  LET t == target[p] IN
  /\ answer[p] = "pending"
  /\ a = "Ok"     => file[t] = p
  /\ a = "exists" => file[t] \notin {None, p} \/ claim[t] \notin {None, p}
  /\ answer' = [answer EXCEPT ![p] = a]
  /\ UNCHANGED <<target, file, claim>>

(* A power loss may take back what nobody was told is there. *)
Lose ==
  /\ file' \in [Targets -> Procs \cup {None, Old}]
  /\ \A t \in Targets : \/ file'[t] = file[t]
                        \/ file[t] \in Procs /\ answer[file[t]] # "Ok" /\ file'[t] = None
  /\ claim' \in [Targets -> Procs \cup {None}]
  /\ \A t \in Targets : file'[t] # None => claim'[t] = None
  /\ UNCHANGED <<target, answer>>

Next == \/ \E p \in Procs : Claim(p) \/ GiveBack(p) \/ Publish(p)
                            \/ \E a \in {"Ok", "exists", "failed"} : Tell(p, a)
        \/ Lose

Spec == Init /\ [][Next]_vars
=============================================================================
