----------------------------- MODULE MCGenPool -----------------------------
(* Model values and configurations for the runs of GenPool. *)
EXTENDS GenPool, TLC

CONSTANTS w1, w2

MCWorkers == {w1, w2}

Good == [ blsReady |-> TRUE, mainnet |-> FALSE, ack |-> FALSE, creds |-> "address",
          scan |-> TRUE, passFile |-> "read", dryRun |-> FALSE, verifyCli |-> FALSE ]

(* One call for each preflight check that fails. *)
Refused == { [Good EXCEPT !.blsReady = FALSE], [Good EXCEPT !.mainnet = TRUE],
             [Good EXCEPT !.creds = "zero"], [Good EXCEPT !.scan = FALSE],
             [Good EXCEPT !.passFile = "unreadable"] }

(* An outcome of each stage, and of each exit code. *)
MCFates == {"Ok", "KeystoreNotFound", "WrongPassphrase", "SignFailed", "SelfVerifyFailed"}

PlainConfigs == {Good} \cup Refused

(* The ways the output can be asked for, and the checks that fail. *)
MCConfigs == Refused \cup
  {[Good EXCEPT !.verifyCli = TRUE],
   [Good EXCEPT !.dryRun = TRUE, !.mainnet = TRUE, !.ack = TRUE, !.passFile = "tty"]}
=============================================================================
