----------------------------- MODULE GenPromise -----------------------------
(* What one `deposit gen` promises its caller, whatever the number of       *)
(* workers: either it publishes every requested entry or it publishes       *)
(* nothing (of a dry run perhaps only the beginning arrives on stdout), and *)
(* its exit code names a cause that is there.                               *)
EXTENDS GenDefs

VARIABLES
  cfg,        \* the configuration of the call
  fate,       \* fate[i]: what processing pubkey i comes to
  cancel,     \* SIGINT has been delivered
  published,  \* where the deposit data is: nowhere, in a file, on stdout, part of it there
  exit        \* the exit code, Running until there is one

vars == <<cfg, fate, cancel, published, exit>>

Init ==
  /\ cfg \in Configs
  /\ fate \in [Idx -> PossibleFates]
  /\ cancel = FALSE
  /\ published = "nowhere"
  /\ exit = Running

Interrupt ==
  /\ exit = Running
  /\ cancel' = TRUE
  /\ UNCHANGED <<cfg, fate, published, exit>>

AllOk == \A i \in Idx : fate[i] = "Ok"

(* A file appears at once with the whole output, and any output only for a  *)
(* request whose preflight checks and pubkeys are all good.  A file that    *)
(* may not survive a power loss is an error (1) all the same; a dry run     *)
(* whose output is cut off is one if the program can see it.                *)
Publish ==
  /\ exit = Running /\ published = "nowhere"
  /\ PreflightCode(cfg) = 0 /\ AllOk
  /\ published' \in IF cfg.dryRun THEN {"stdout", "part"} ELSE {"file"}
  /\ exit' \in IF published' = "stdout" THEN {Running} ELSE {Running, 1}
  /\ UNCHANGED <<cfg, fate, cancel>>

(* An exit code is 0 after publishing, the code of a cause otherwise: a     *)
(* failed check, the error of some pubkey, an interrupt, or (1) a failed    *)
(* write.  After publishing only the cross-check can fail (2 or 3).         *)
Exit(c) ==
  /\ exit = Running
  /\ IF published = "nowhere"
     THEN \/ c # 0 /\ c = PreflightCode(cfg)
          \/ /\ PreflightCode(cfg) = 0
             /\ \/ \E i \in Idx : fate[i] # "Ok" /\ c = ExitCode(fate[i])
                \/ cancel /\ c = ExitCode("Cancelled")
                \/ AllOk /\ c = 1
     ELSE \/ c = 0
          \/ cfg.verifyCli /\ ~cfg.dryRun /\ c \in {2, 3}
  /\ exit' = c
  /\ UNCHANGED <<cfg, fate, cancel, published>>

Next == Interrupt \/ Publish \/ \E c \in ExitCodes : Exit(c)

Spec == Init /\ [][Next]_vars
=============================================================================
