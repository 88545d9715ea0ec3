-------------------------------- MODULE Flags --------------------------------
(* What the operator types, and the configuration a command makes of it or  *)
(* the flag it is refused for.  Text is a record of what the code looks at; *)
(* a directory is the set of the things that can be done with it.  A flag   *)
(* that may be missing is a sequence of its values.                          *)
EXTENDS Signers

CONSTANTS
  U32,            \* 2^32
  MaxParallel     \* four times the number of CPUs

ASSUME FlagsAssumption == U32 = 2 * HARDENED /\ MaxParallel \in Nat \ {0}

(* A flag with its value, and several, the ones on the left first. *)
flag := value == [f \in {flag} |-> value]
f ++ g == [x \in DOMAIN f \cup DOMAIN g |-> IF x \in DOMAIN f THEN f[x] ELSE g[x]]

(* The checks are made in this order: the first that does not hold names    *)
(* the flag.                                                                 *)
Check(flag, holds) == [flag |-> flag, holds |-> holds]
Checked(checks, config) ==
  LET bad == {i \in DOMAIN checks : ~checks[i].holds}
  IN  IF bad = {} THEN Success(config) ELSE Failure(checks[Min(bad)].flag)

-----------------------------------------------------------------------------
(* clap: the command line, then the environment, then the default.          *)

Absent == <<>>
Flag(required, env, default) == [required |-> required, env |-> env, default |-> default]

gen_args ==
  [f \in {"keystore-dir", "pubkeys", "network"} |-> Flag(TRUE, FALSE, Absent)] ++
  [f \in {"output-dir", "passphrase-file", "withdrawal-address"} |-> Flag(FALSE, FALSE, Absent)] ++
  [f \in {"i-understand-this-is-mainnet", "dry-run"} |-> Flag(FALSE, FALSE, <<FALSE>>)] ++
  ("parallel" := Flag(FALSE, FALSE, <<1>>))

shared_args ==
  ("output-dir" := Flag(TRUE, FALSE, Absent)) ++ ("count" := Flag(FALSE, FALSE, <<1>>)) ++
  [f \in {"passphrase-file", "mnemonic-passphrase", "mnemonic-passphrase-file"} |->
     Flag(FALSE, FALSE, Absent)]
recover_args   == "start-index" := Flag(FALSE, FALSE, <<0>>)
no_verify_args == "no-verify" := Flag(FALSE, FALSE, <<FALSE>>)

run_args ==
  ("input-file" := Flag(TRUE, TRUE, Absent)) ++ ("network" := Flag(FALSE, TRUE, <<"hoodi">>)) ++
  ("index" := Flag(FALSE, TRUE, <<0>>)) ++
  [f \in {"rpc-url", "gas-limit", "max-fee-per-gas", "max-priority-fee-per-gas", "nonce"} |->
     Flag(FALSE, TRUE, Absent)]
build_args == run_args ++ ("from" := Flag(FALSE, TRUE, Absent))

sign_args == ("signer" := Flag(TRUE, FALSE, Absent)) ++
             [f \in {"input", "private-key-file"} |-> Flag(FALSE, FALSE, Absent)]
run_sign_args == [f \in {"signer", "private-key-file"} |-> Flag(FALSE, FALSE, Absent)]

try_get_matches(args, typed, env) ==
  LET m == [f \in DOMAIN args |->
              IF f \in DOMAIN typed THEN <<typed[f]>>
              ELSE IF args[f].env /\ f \in DOMAIN env THEN <<env[f]>> ELSE args[f].default]
  IN  Checked(<<Check("usage", DOMAIN typed \subseteq DOMAIN args),
                Check("usage", \A f \in DOMAIN args : args[f].required => m[f] # Absent),
                Check("usage", ~{"mnemonic-passphrase", "mnemonic-passphrase-file"} \subseteq DOMAIN typed)>>,
              m)

-----------------------------------------------------------------------------
(* fs_util.rs, and an address with its checksum. *)

probe_dir_writable(dir)    == {"create", "remove"} \subseteq dir
validate_output_dir(dir)   == {"stat", "is-a-directory"} \subseteq dir /\ probe_dir_writable(dir)
validate_keystore_dir(dir) == "list" \in dir
secret_file_arg(path)      == path # "-"

ZeroAddress == [address |-> 0]
validate_eip55_address(text) == text.hex /\ text.digits = 40 /\ text.form = "checksummed"

(* An output directory that must be given, and a secret file that may be.   *)
OutputDirGiven(dir)         == dir # Absent /\ validate_output_dir(dir[1])
SecretFileCheck(flag, path) == Check(flag, \A i \in DOMAIN path : secret_file_arg(path[i]))

-----------------------------------------------------------------------------
(* gen_cli.rs. *)

(* Entries are trimmed; all have a prefix or none.  Nothing keeps one from  *)
(* being listed twice.                                                       *)
parse_pubkeys(list) ==
  Checked(<<Check("none", list # <<>>),
            Check("empty", \A i \in DOMAIN list : list[i].digits # 0),
            Check("mixed", \A i \in DOMAIN list : list[i].prefix = list[1].prefix),
            Check("key", \A i \in DOMAIN list :
              list[i].digits = 96 /\ list[i].hex /\ validate_pubkey_bytes(list[i].key))>>,
          [i \in DOMAIN list |-> list[i].key])

gen_config(m) ==
  LET net  == m["network"][1]
      keys == parse_pubkeys(m["pubkeys"][1])
      wd   == m["withdrawal-address"]
  IN  Checked(<<Check("--network", parse_flag(net).ok /\ net \in {"mainnet", "hoodi"}),
                Check("mainnet", net = "mainnet" => m["i-understand-this-is-mainnet"][1]),
                Check("--pubkeys", keys.ok),
                Check("--keystore-dir", validate_keystore_dir(m["keystore-dir"][1])),
                Check("--output-dir", m["dry-run"][1] \/ OutputDirGiven(m["output-dir"])),
                Check("--parallel", m["parallel"][1] \in 1 .. MaxParallel),
                Check("--withdrawal-address", wd # Absent /\ validate_eip55_address(wd[1])),
                Check("--withdrawal-address", wd # Absent /\ wd[1].address # ZeroAddress),
                SecretFileCheck("--passphrase-file", m["passphrase-file"])>>,
              [network |-> net, pubkeys |-> keys.value, dry_run |-> m["dry-run"][1],
               withdrawal_credentials |-> eth1_withdrawal_credentials(wd[1].address),
               passphrase_file |-> m["passphrase-file"]])

-----------------------------------------------------------------------------
(* keystore_cli.rs, validator_cli.rs, account_cli.rs. *)

require_tty_for_new(tty) == {"stdin", "stdout"} \subseteq tty

(* The text of the passphrase: of the file, typed, asked for, or empty.     *)
parse_mnemonic_passphrase_form(m) ==
  LET file == m["mnemonic-passphrase-file"]
      raw  == m["mnemonic-passphrase"]
  IN  IF file # Absent THEN [form |-> "file", value |-> file[1].value]
      ELSE IF raw = Absent THEN [form |-> "empty"]
      ELSE IF raw[1].form = "bare" THEN [form |-> "prompt"] ELSE [form |-> "raw", value |-> raw[1]]

(* FAULTY: the last index is compared as if the first one were zero. *)
IndicesFitFromZero(start, count) == count - 1 < U32
IndicesFit(start, count) == start + (count - 1) < U32

(* A first index is for recover only. *)
keygen_config(m, start) ==
  LET count == m["count"][1]
      file  == m["mnemonic-passphrase-file"]
  IN  Checked(<<Check("--count", count # 0),
                Check("--start-index", IndicesFit(start, count)),
                Check("--output-dir", OutputDirGiven(m["output-dir"])),
                Check("--mnemonic-passphrase-file", \A i \in DOMAIN file : file[i].ok),
                SecretFileCheck("--passphrase-file", m["passphrase-file"])>>,
              [count |-> count, start_index |-> start,
               mnemonic_passphrase |-> parse_mnemonic_passphrase_form(m),
               passphrase_file |-> m["passphrase-file"]])

-----------------------------------------------------------------------------
(* config.rs, build_cmd.rs, run_cmd.rs, sign_cmd.rs. *)

Number(n) == [text |-> "number", value |-> n]
Signed(n) == [text |-> "negative", value |-> n]
Empty     == [text |-> "empty", value |-> 0]

(* A flag that is there, but empty, is as one that is not.                  *)
non_empty(flag) == IF flag # Absent /\ flag[1].text = "empty" THEN Absent ELSE flag
Parsed(flag)    == \A i \in DOMAIN non_empty(flag) : non_empty(flag)[i].text = "number"
ValueOr(flag, default) == IF non_empty(flag) = Absent THEN default ELSE non_empty(flag)[1].value

parse_from_flag(flag) == flag = Absent \/ (flag[1].hex /\ flag[1].digits = 40)

build_config(m) ==
  LET net == parse_flag(m["network"][1])
  IN  Checked(<<Check("--network", net.ok),
                Check("--gas-limit", Parsed(m["gas-limit"]) /\ ValueOr(m["gas-limit"], 1) # 0),
                Check("--max-fee-per-gas", Parsed(m["max-fee-per-gas"])),
                Check("--max-priority-fee-per-gas", Parsed(m["max-priority-fee-per-gas"])),
                Check("--nonce", Parsed(m["nonce"]))>>,
              [params |-> lookup_network[net.value], rpc |-> m["rpc-url"], index |-> m["index"][1],
               gas |-> ValueOr(m["gas-limit"], 0), max_fee |-> ValueOr(m["max-fee-per-gas"], Unset),
               tip |-> ValueOr(m["max-priority-fee-per-gas"], Unset),
               nonce |-> ValueOr(m["nonce"], Unset), from |-> NoSender])

(* A node is not asked about a sender that is not known. *)
NeedsSender(c)              == c.rpc # Absent /\ (c.nonce = Unset \/ c.gas = 0)
require_from_for_rpc(c)     == NeedsSender(c) => c.from # NoSender
require_ledger_flags_for_rpc(signer, c) == signer = "ledger" => ~NeedsSender(c)

SignerChecks(m) ==
  <<Check("--signer", m["signer"] # Absent /\ m["signer"][1] \in {"local", "ledger"}),
    SecretFileCheck("--private-key-file", m["private-key-file"]),
    Check("--private-key-file", m["signer"] = <<"local">> => m["private-key-file"] # Absent)>>

(* tx sign looks at --input between the signer and its key file.            *)
sign_config(m) ==
  Checked(<<Head(SignerChecks(m)), Check("--input", m["input"] # Absent)>> \o Tail(SignerChecks(m)),
          [signer |-> m["signer"], key |-> m["private-key-file"]])

run_config(m) ==
  LET build == build_config(m)
  IN  IF ~build.ok THEN build
      ELSE Checked(SignerChecks(m),
                   [build |-> build.value, signer |-> m["signer"], key |-> m["private-key-file"]])
=============================================================================
