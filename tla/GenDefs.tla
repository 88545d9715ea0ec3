------------------------------ MODULE GenDefs ------------------------------
(* What the worker pool of `deposit gen` (GenPool) and the promise it keeps *)
(* (GenPromise) both speak of: the requested pubkeys, what processing each  *)
(* of them comes to, and the exit code an error is reported with.           *)
EXTENDS Integers

CONSTANTS
  N,             \* number of requested pubkeys (cfg.pubkeys.len())
  Configs,       \* the configurations (see ConfigType) the program may be given
  PossibleFates  \* what processing a pubkey may come to (see Fates)

Idx == 0 .. N - 1

(* The errors of process_pubkey that do not depend on the cancel token:     *)
(* index lookup, keystore load and decryption, construction of the signer.  *)
EarlyErrors == {"KeystoreNotFound", "BadKeystore", "WrongPassphrase", "BadSecret"}

(* The errors of Generator::generate that come after its cancel check.      *)
LateErrors == {"PubkeyMismatch", "SignFailed", "SelfVerifyFailed"}

RealErrors == EarlyErrors \cup LateErrors
Fates      == {"Ok"} \cup RealErrors
Outcomes   == Fates \cup {"Cancelled"}

(* exit_code_for on the errors the pool can report.  "BadSecret" and        *)
(* "SignFailed" are Bls errors, which no arm names: the fallback code.      *)
ExitCode(e) ==
  IF e = "Cancelled" THEN 4
  ELSE IF e \in {"KeystoreNotFound", "BadKeystore", "PubkeyMismatch"} THEN 2
  ELSE IF e \in {"WrongPassphrase", "SelfVerifyFailed"} THEN 3
  ELSE 1

Running == -1    \* no exit code yet
Panic   == 101   \* exit status of a Rust process whose main thread panicked
ExitCodes == 0 .. 4

ConfigType == [ blsReady  : BOOLEAN,                 \* init_bls succeeds
                mainnet   : BOOLEAN,
                ack       : BOOLEAN,                 \* --i-understand-this-is-mainnet
                creds     : {"address", "zero", "burn"},
                scan      : BOOLEAN,                 \* the keystore directory can be listed
                passFile  : {"tty", "read", "unreadable"},
                dryRun    : BOOLEAN,
                verifyCli : BOOLEAN ]

(* The checks run_gen_with_deps makes before it starts a worker, in order;  *)
(* 0 when the pipeline may go on.                                           *)
PreflightCode(c) ==
  IF ~c.blsReady                      THEN 3
  ELSE IF c.mainnet /\ ~c.ack         THEN 2
  ELSE IF c.creds # "address"         THEN 2
  ELSE IF ~c.scan                     THEN 1
  ELSE IF c.passFile = "unreadable"   THEN 2
  ELSE 0

ASSUME NAssumption       == N \in Nat
ASSUME ConfigsAssumption == Configs \subseteq ConfigType
ASSUME FatesAssumption   == PossibleFates \subseteq Fates
=============================================================================
