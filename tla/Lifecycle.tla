------------------------------- MODULE Lifecycle -------------------------------
(* From a mnemonic to a deposit: the operator runs the commands, one makes  *)
(* the input of the next, and what came out is judged by those who did not  *)
(* write it: a wallet, the deposit contract, the beacon chain, a node.  A   *)
(* command is given what is usual; anything else is a slip, of the          *)
(* operator, a file, the disk, a device or the node.  A command is one step *)
(* here: what happens inside, at the same time or after a crash is in the   *)
(* other modules.                                                             *)
EXTENDS Commands

CONSTANTS
  Entropies,    \* what mnemonics are made of; the longest are drawn, others are of other wallets
  Chain,        \* the network the operator deposits on
  SenderKey,    \* the key of the account that pays
  BaseFee, GasNeeded, SenderNonce,   \* of the chain
  MaxSlips      \* bound: how much is out of the ordinary

VARIABLES
  keys,      \* by kind, and by new or recover: what the command made, as it made it
  shelf,     \* the keystore files, in the order of writing
  deposit, unsigned, signed,         \* the artifacts: none, or the last that was made
  pool,      \* what was broadcast
  verdict,   \* what became of it
  chain,     \* base fee and gas of a deposit, and whether they moved
  last,      \* the last command, why it failed, and its exit code
  slips

(* Entropy is bits, and its digest has one for every Ratio of them; one is   *)
(* drawn for the longest mnemonic, and one is of another length.             *)
ASSUME LifecycleAssumption ==
  /\ \A e \in Entropies : /\ {e, Digest(e)} \subseteq Seq({0, 1}) /\ Len(e) \in EntropyLengths
                           /\ Len(e) \div Ratio <= Len(Digest(e))
  /\ \E e \in Entropies : Len(e) = ENT(Max(WordCounts))
  /\ \E e \in Entropies : Len(e) # ENT(Max(WordCounts))
  /\ {BaseFee, GasNeeded, MaxSlips} \subseteq Nat

(* The chain is one of the table, the sizes are of at most 128 bits, and what *)
(* an account of the chain is asked for is within them: a sum of the builder *)
(* that wraps is out of reach.                                               *)
ASSUME ChainAssumption ==
  /\ Chain \in DOMAIN lookup_network
  /\ \A m \in {FeeModulus, GasModulus, U64} : Len(uint_be(m - 1)) <= 16
  /\ 2 * BaseFee + 2 < FeeModulus /\ 6 * GasNeeded < GasModulus /\ SenderNonce \in 0 .. U64 - 1
  /\ DEFAULT_GAS_LIMIT \in 0 .. GasModulus - 1
  /\ {DEFAULT_MAX_FEE_PER_GAS, DEFAULT_MAX_PRIORITY_FEE_PER_GAS} \subseteq 0 .. FeeModulus - 1

vars == <<keys, shelf, deposit, unsigned, signed, pool, verdict, chain, last, slips>>

Kinds == {"validator", "account"}
Hows  == {"new", "recover"}
None  == <<>>

Init ==
  /\ keys = [k \in Kinds |-> [h \in Hows |-> None]]
  /\ shelf = <<>> /\ deposit = None /\ unsigned = None /\ signed = None
  /\ pool = None /\ verdict = None
  /\ chain = [base |-> BaseFee, gas |-> GasNeeded, moved |-> FALSE]
  /\ last = [cmd |-> "none", cause |-> <<>>, exit |-> 0]
  /\ slips = 0

Ended(cmd, r) ==
  last' = [cmd |-> cmd, cause |-> IF r.ok THEN <<>> ELSE RootCause(r.err),
           exit |-> IF r.ok THEN 0 ELSE exit_code_for(r.err)]

(* A command with its usual inputs, or with one thing otherwise.            *)
With(usual, others, Do(_)) ==
  \E o \in {<<>>} \cup (IF slips < MaxSlips THEN others ELSE {}) :
    Do(o ++ usual) /\ slips' = IF o = <<>> THEN slips ELSE slips + 1

(* The inputs have the flags among them; those under "without" are left out.*)
Args(x, flags) == [f \in (DOMAIN x \cap DOMAIN flags) \ x["without"] |-> x[f]]
NoFlags == ("without" := {}) ++ ("env" := <<>>)

Writable == {"stat", "is-a-directory", "create", "remove"}

-----------------------------------------------------------------------------
(* validator and account, new and recover. *)

Drawn == {e \in Entropies : Len(e) = ENT(Max(WordCounts))}
Foreign == entropy_to_mnemonic(CHOOSE e \in Entropies : e \notin Drawn).value

(* How a mnemonic is typed: as it is, or with another case, with a word     *)
(* that is not in the list or another that is, a word short, or one of      *)
(* another wallet.                                                           *)
Retyped(words, how) ==
  LET n == Len(words)
  IN  CASE how = "as-it-is" -> Typed(words)
        [] how = "upper-case" -> [i \in 1 .. n |-> [word |-> words[i], form |-> "upper"]]
        [] how = "unlisted" -> Typed([words EXCEPT ![n] = Unlisted])
        [] how = "another" -> Typed([words EXCEPT ![n] = (@ + 1) % 2 ^ WordBits])
        [] how = "foreign" -> Typed(Foreign)
        [] OTHER -> Typed(SubSeq(words, 1, n - 1))

Password == Bytes("password", "plain")
Passwords == {Success(Bytes("password", "composed")), Success(Bytes("password", "control")),
              Success(Bytes("another", "plain")), Failure("PassphraseTooShort")}
Passphrases == {Bytes("pass", "plain"), Bytes("pass", "composed"), Bytes("pass", "control")}

KeyFlags == shared_args ++ recover_args ++ no_verify_args

KeygenUsual(how) ==
  NoFlags ++ ("output-dir" := Writable) ++ ("tty" := {"stdin", "stdout"}) ++ ("run" := how) ++
  ("typed" := "as-it-is") ++ ("pw" := Success(Password)) ++ ("refused" := 0) ++ ("damaged" := 0)

KeygenOthers(entropies) ==
  {"count" := n : n \in {0, 2}} \cup {"start-index" := n : n \in {1, HARDENED - 1, U32 - 1}} \cup
  {"entropy" := e : e \in entropies} \cup {"pw" := r : r \in Passwords} \cup
  {"typed" := t : t \in {"upper-case", "unlisted", "another", "foreign", "shorter"}} \cup
  {"mnemonic-passphrase" := p : p \in Passphrases} \cup
  {"mnemonic-passphrase-file" := Success(Bytes("pass", "plain")), "mnemonic-passphrase-file" := Failure("NotFound"),
   ("mnemonic-passphrase" := [form |-> "bare"]) ++ ("asked" := <<Bytes("pass", "plain"), Bytes("pass", "plain")>>),
   ("mnemonic-passphrase" := [form |-> "bare"]) ++ ("asked" := <<Bytes("pass", "plain"), Bytes("pss", "plain")>>),
   "no-verify" := TRUE, "tty" := {"stdin"}, "without" := {"output-dir"}, "passphrase-file" := "-",
   "output-dir" := Writable \ {"create"}, "refused" := 1, "refused" := 2, "damaged" := 1,
   ("damaged" := 1) ++ ("no-verify" := TRUE), "damaged" := 2,
   ("count" := 2) ++ ("start-index" := U32 - 1)}

(* Recovery is from what was written down. *)
Paper(kind) == keys[kind]["new"][1].from

PassphraseFlag(pass) ==
  IF pass = Bytes("empty", "plain") THEN <<>> ELSE "mnemonic-passphrase" := pass

Keygen(kind, how, words, x) ==
  LET args  == Args(x, KeyFlags)
      deps  == [entropy |-> x["entropy"], typed |-> Retyped(words, x["typed"]), tty |-> x["tty"],
                asked |-> IF "asked" \in DOMAIN x THEN x["asked"] ELSE <<>>, keystore_pw |-> x["pw"],
                refused |-> x["refused"], damaged |-> x["damaged"], run |-> x["run"], now |-> 0]
      start == IF how = "recover" /\ "start-index" \in DOMAIN x THEN x["start-index"] ELSE 0
  IN  \E out \in {keygen(kind, how = "new", args, deps)} :
      /\ keys' = IF ~out.from.ok \/ ~x["pw"].ok THEN keys
                 ELSE [keys EXCEPT ![kind][how] =
                        <<[from |-> [words |-> normalize_mnemonic(out.from.value.text), pass |-> out.from.value.pass],
                           pw |-> x["pw"].value, start |-> start, whole |-> out.result.ok,
                           checked |-> kind = "validator" /\ "no-verify" \notin DOMAIN x,
                           sound |-> x["damaged"] = 0, written |-> out.written]>>]
      /\ shelf' = shelf \o out.written
      /\ Ended(kind, out.result)
      /\ UNCHANGED <<deposit, unsigned, signed, pool, verdict, chain>>

(* Bound: the keys of one kind are made. *)
InTurn(kind) == \A k \in Kinds \ {kind} : keys[k]["new"] = None

(* What an operator may want: one key, two, or passphrases beyond ASCII.    *)
Wishes ==
  {<<>>, "count" := 2,
   ("pw" := Success(Bytes("password", "composed"))) ++ ("mnemonic-passphrase" := Bytes("pass", "composed"))}

KeygenNew(kind) ==
  /\ InTurn(kind) /\ keys[kind]["new"] = None
  /\ LET usual == KeygenUsual("new") ++ ("entropy" := (CHOOSE e \in Drawn : TRUE))
         Do(x) == LET words == entropy_to_mnemonic(x["entropy"])
                  IN  Keygen(kind, "new", IF words.ok THEN words.value ELSE <<>>, x)
     IN  \E wish \in Wishes : With(wish ++ usual, KeygenOthers(Drawn), Do)

KeygenRecover(kind) ==
  /\ InTurn(kind) /\ keys[kind]["new"] # None /\ keys[kind]["recover"] = None
  /\ LET usual == KeygenUsual("recover") ++ ("entropy" := <<>>) ++ PassphraseFlag(Paper(kind).pass)
         Do(x) == Keygen(kind, "recover", Paper(kind).words, x)
     IN  With(usual, KeygenOthers({}), Do)

-----------------------------------------------------------------------------
(* deposit gen. *)

AddressText(a, form) == [hex |-> TRUE, digits |-> 40, form |-> form, address |-> a]
Owner   == [address |-> 101]
Another == [address |-> 102]
OtherKey == PublicKey(derive_master([words |-> <<>>, salt |-> Bytes("empty", "plain")]))
PubkeyText(key) == [digits |-> 96, prefix |-> TRUE, hex |-> TRUE, key |-> key]
Pubkeys == [i \in DOMAIN keys["validator"]["new"][1].written |->
              PubkeyText(keys["validator"]["new"][1].written[i].body.pubkey.key)]

GenUsual ==
  NoFlags ++ ("keystore-dir" := {"list"}) ++ ("pubkeys" := Pubkeys) ++ ("network" := Chain) ++
  ("output-dir" := Writable) ++ ("withdrawal-address" := AddressText(Owner, "checksummed")) ++
  ("order" := "as-written") ++ ("pw" := Success(keys["validator"]["new"][1].pw))

GenOthers ==
  {"pubkeys" := p : p \in
     {<<>>, Pubkeys \o Pubkeys, <<PubkeyText(NotAPoint)>>, <<PubkeyText(OtherKey)>>,
      Append(Pubkeys, [Pubkeys[1] EXCEPT !.prefix = FALSE]), <<[Pubkeys[1] EXCEPT !.digits = 95]>>}} \cup
  {"network" := n : n \in {"mainnet", "sepolia", "nowhere"}} \cup
  {"withdrawal-address" := a : a \in
     {AddressText(Owner, "lower-case"), AddressText(ZeroAddress, "checksummed")}} \cup
  {"pw" := r : r \in Passwords \cup {Failure("PassphraseSource")}} \cup
  {"parallel" := n : n \in {0, MaxParallel + 1}} \cup
  {"without" := {f} : f \in {"withdrawal-address", "output-dir", "network"}} \cup
  {("network" := "mainnet") ++ ("i-understand-this-is-mainnet" := TRUE), "dry-run" := TRUE,
   "keystore-dir" := {}, "output-dir" := Writable \ {"remove"}, "order" := "reversed",
   "passphrase-file" := "-", "passphrase-file" := "a-file"}

DepositGen ==
  /\ keys["validator"]["new"] # None /\ Pubkeys # <<>> /\ deposit = None
  /\ LET Do(x) ==
           \E out \in {deposit_gen(Args(x, gen_args),
                                   IF x["order"] = "reversed" THEN Reverse(shelf) ELSE shelf, x["pw"])} :
               /\ deposit' = IF out.ok /\ ~out.value.dry_run
                             THEN <<[json |-> TRUE, entries |-> out.value.entries, edited |-> FALSE]>> ELSE deposit
               /\ Ended("gen", out)
               /\ UNCHANGED <<keys, shelf, unsigned, signed, pool, verdict, chain>>
     IN  With(GenUsual, GenOthers, Do)

-----------------------------------------------------------------------------
(* deposit build, tx sign and tx run. *)

Http    == [parses |-> TRUE, scheme |-> "http", host |-> "node"]
Reply(result) == [transport |-> "ok", json |-> TRUE, error |-> FALSE, result |-> result]
NodeUsual ==
  [chain_id |-> Reply(Hex(lookup_network[Chain].chain_id)), tip |-> Reply(Hex(1)),
   base_fee |-> Reply(Hex(chain.base)), nonce |-> Reply(Hex(SenderNonce)),
   estimate |-> Reply(Hex(chain.gas)), sent |-> Reply(Hash("of-the-transaction"))]
Garbage(reply) ==
  {[reply EXCEPT !.transport = "down"], [reply EXCEPT !.json = FALSE], [reply EXCEPT !.error = TRUE],
   Reply(Null), Reply(Text("words"))}

(* One answer of the node is not what it should be. *)
NodeOthers(calls) ==
  (UNION {{"node" := [NodeUsual EXCEPT ![call_] = r] : r \in Garbage(NodeUsual[call_])} : call_ \in calls})
  \cup {"node" := [NodeUsual EXCEPT !.chain_id = Reply(Hex(id))] : id \in {0, lookup_network["mainnet"].chain_id}}

Sender == pubkey_address(SenderKey)

BuildUsual ==
  NoFlags ++ ("input-file" := "deposit.json") ++ ("rpc-url" := Http) ++ ("file" := Success(deposit[1])) ++
  ("node" := NodeUsual) ++ (IF Chain = "hoodi" THEN <<>> ELSE "network" := Chain)

BuildOthers ==
  NodeOthers({"tip", "base_fee", "nonce", "estimate"}) \cup
  {"network" := n : n \in {"mainnet", "nowhere"}} \cup {"env" := ("network" := "mainnet")} \cup
  {("env" := ("network" := "mainnet")) ++ ("network" := Chain)} \cup
  {"rpc-url" := u : u \in {[Http EXCEPT !.scheme = "ftp"], [Http EXCEPT !.parses = FALSE]}} \cup
  {"gas-limit" := t : t \in {Number(0), Number(GasNeeded), Empty, Signed(1)}} \cup
  {"max-fee-per-gas" := t : t \in {Number(BaseFee), Signed(1)}} \cup {"nonce" := Number(SenderNonce)} \cup
  {"max-priority-fee-per-gas" := t : t \in {Number(2), Signed(1)}} \cup
  {"index" := i : i \in {-1, 1}} \cup {"file" := Failure("NotFound")} \cup
  {"without" := {f} : f \in {"rpc-url", "from", "input-file"}}

FromOthers == {"from" := AddressText(ZeroAddress, "lower-case"), "from" := [AddressText(Sender, "x") EXCEPT !.digits = 39]}

(* Whether the transaction is the deposit that gen made, for the chain it   *)
(* was made for, and whether the node was asked for its fees.                *)
Network(x) ==
  IF "network" \in DOMAIN x \ x["without"] THEN x["network"]
  ELSE IF "network" \in DOMAIN x["env"] THEN x["env"]["network"] ELSE "hoodi"
Genuine(x) ==
  /\ ~deposit[1].edited /\ Network(x) = Chain
  /\ \A i \in DOMAIN deposit[1].entries : deposit[1].entries[i].network_name = Chain
FromNode(x) ==
  "rpc-url" \notin x["without"] /\ {"gas-limit", "max-fee-per-gas"} \cap DOMAIN x = {}

DepositBuild ==
  /\ deposit # None /\ unsigned = None /\ signed = None
  /\ LET Do(x) ==
           \E out \in {deposit_build(Args(x, build_args), x["env"], x["file"], x["node"])} :
               /\ unsigned' = IF out.ok THEN <<[tx |-> out.value, genuine |-> Genuine(x), from_node |-> FromNode(x)]>>
                              ELSE unsigned
               /\ Ended("build", out)
               /\ UNCHANGED <<keys, shelf, deposit, signed, pool, verdict, chain>>
     IN  With(BuildUsual ++ ("from" := AddressText(Sender, "lower-case")), BuildOthers \cup FromOthers, Do)

Unlocked == [supported |-> TRUE, present |-> TRUE, open |-> Success("hid"), status |-> Success("ready"),
             derive |-> Success("an-address"), sign |-> Success(SenderKey)]
KeyFile  == [read |-> Success(HexKey(SenderKey)), pathIsKey |-> FALSE]

SignUsual ==
  ("signer" := "local") ++ ("private-key-file" := "sender.key") ++ ("key_file" := KeyFile) ++ ("device" := Unlocked)

SignOthers ==
  {"signer" := "other", "without" := {"private-key-file"}, "without" := {"signer"}, "private-key-file" := "-"} \cup
  {"key_file" := f : f \in
     {[read |-> Success(HexKey(SenderKey + 1)), pathIsKey |-> FALSE], [read |-> Failure("TooLarge"), pathIsKey |-> FALSE]} \cup
     {[read |-> Failure("NotFound"), pathIsKey |-> b] : b \in BOOLEAN} \cup
     {[read |-> Success(t), pathIsKey |-> FALSE] : t \in
        {[HexKey(SenderKey) EXCEPT !.chars = 63], [HexKey(SenderKey) EXCEPT !.hex = FALSE],
         [HexKey(SenderKey) EXCEPT !.scalar = FALSE]}}} \cup
  {("signer" := "ledger") ++ ("device" := d) : d \in
     {Unlocked, [Unlocked EXCEPT !.supported = FALSE], [Unlocked EXCEPT !.present = FALSE],
      [Unlocked EXCEPT !.open = Failure({"6e00"})], [Unlocked EXCEPT !.open = Failure({"busy"})],
      [Unlocked EXCEPT !.status = Failure({"app", "not-open"})], [Unlocked EXCEPT !.derive = Failure({"6985"})]} \cup
     {[Unlocked EXCEPT !.sign = Failure(words)] : words \in
        {{"rejected"}, {"6985"}, {"chain", "mismatch"}, {"chain", "unknown", "denied"}, {"timeout"}}}}

(* The account that pays is the one whose nonce and estimate were asked for.*)
Payer(x) == IF x["signer"] = "ledger" THEN SenderKey ELSE x["key_file"].read.value.key

TxSign ==
  /\ unsigned # None /\ signed = None
  /\ LET usual == NoFlags ++ SignUsual ++ ("input" := "unsigned.json") ++ ("file" := Success(unsigned[1].tx))
         Do(x) ==
           \E out \in {tx_sign(Args(x, sign_args), x["file"], x["key_file"], x["device"])} :
               /\ signed' = IF out.ok THEN <<[unsigned[1] EXCEPT !.tx = out.value,
                                                                 !.from_node = @ /\ Payer(x) = SenderKey]>> ELSE signed
               /\ Ended("sign", out)
               /\ UNCHANGED <<keys, shelf, deposit, unsigned, pool, verdict, chain>>
     IN  With(usual, SignOthers \cup {"file" := Failure("NotFound"), "without" := {"input"}}, Do)

TxRun ==
  /\ deposit # None /\ unsigned = None /\ signed = None
  /\ LET Do(x) ==
           \E out \in {tx_run(Args(x, run_args ++ run_sign_args), x["env"], x["file"], x["key_file"],
                              x["device"], x["node"])} :
               /\ signed' = IF out.ok THEN <<[tx |-> out.value, genuine |-> Genuine(x),
                                                   from_node |-> FromNode(x) /\ Payer(x) = SenderKey]>> ELSE signed
               /\ Ended("run", out)
               /\ UNCHANGED <<keys, shelf, deposit, unsigned, pool, verdict, chain>>
     IN  With(BuildUsual ++ SignUsual, BuildOthers \cup SignOthers, Do)

TxSend ==
  /\ signed # None /\ pool = None
  /\ LET usual == NoFlags ++ ("input" := "signed.json") ++ ("rpc-url" := Http) ++ ("file" := Success(signed[1].tx)) ++
                  ("node" := NodeUsual) ++ ("typed" := <<Chain>>)
         others == NodeOthers({"chain_id", "sent"}) \cup
                   {"typed" := <<"mainnet">>, "yes" := TRUE, "without" := {"rpc-url"},
                    "rpc-url" := [Http EXCEPT !.scheme = "ftp"], "file" := Failure("NotFound")}
         Do(x) ==
           \E out \in {tx_send(Args(x, send_args), x["file"], x["node"], x["typed"])} :
               /\ pool' = IF out.ok THEN <<[signed[1] EXCEPT !.tx = @.rawRLP.value]>> ELSE pool
               /\ Ended("send", out)
               /\ UNCHANGED <<keys, shelf, deposit, unsigned, signed, verdict, chain>>
     IN  With(usual, others, Do)

-----------------------------------------------------------------------------
(* What others do: a file is edited, a keystore is exchanged for one that   *)
(* claims to be another, fees rise, and the transaction is mined.            *)

EditedEntries(e) ==
  {[e EXCEPT !.signature = v] : v \in {NotHex, Short, Zero}} \cup
  {[e EXCEPT !.amount = v] : v \in {0, Amount \div 2}} \cup
  {[e EXCEPT !.network_name = v] : v \in {"mainnet", "nowhere"}} \cup
  {[e EXCEPT !.withdrawal_credentials = [prefix |-> "01", address |-> 102, gap |-> "not-zero"]],
   [e EXCEPT !.withdrawal_credentials = eth1_withdrawal_credentials(Another)]}

EditDeposit ==
  /\ deposit # None /\ ~deposit[1].edited /\ unsigned = None /\ signed = None
  /\ \E d \in {[deposit[1] EXCEPT !.entries[1] = e] : e \in EditedEntries(deposit[1].entries[1])}
              \cup {[deposit[1] EXCEPT !.json = FALSE], [deposit[1] EXCEPT !.entries = <<>>]} :
       deposit' = <<[d EXCEPT !.edited = TRUE]>>
  /\ UNCHANGED <<keys, shelf, unsigned, signed, pool, verdict, chain, last>>

EditedUnsigned(u) ==
  {[u EXCEPT !.chain_id = 0], [u EXCEPT !.value = BadText], [u EXCEPT !.maxFeePerGas = BadText],
   [u EXCEPT !.data = NoText], [u EXCEPT !.data = BadText], [u EXCEPT !.to[AddressLen] = BadPair],
   [u EXCEPT !.to = Tail(@)]}

EditUnsigned ==
  /\ unsigned # None /\ unsigned[1].genuine /\ signed = None
  /\ \E u \in EditedUnsigned(unsigned[1].tx) :
       unsigned' = <<[unsigned[1] EXCEPT !.tx = u, !.genuine = FALSE, !.from_node = FALSE]>>
  /\ UNCHANGED <<keys, shelf, deposit, signed, pool, verdict, chain, last>>

EditSigned ==
  /\ signed # None /\ signed[1].genuine /\ pool = None
  /\ \E raw \in {NoText, Quantity(<<>>), Quantity(Tail(signed[1].tx.rawRLP.value)),
                  Quantity(Front(signed[1].tx.rawRLP.value))} :
       signed' = <<[signed[1] EXCEPT !.tx.rawRLP = raw, !.genuine = FALSE, !.from_node = FALSE]>>
  /\ UNCHANGED <<keys, shelf, deposit, unsigned, pool, verdict, chain, last>>

(* The first keystore on the shelf is replaced. *)
EditedKeystores(e) ==
  {[e EXCEPT !.isDir = TRUE], [e EXCEPT !.named = FALSE], [e EXCEPT !.access = "denied"],
   [e EXCEPT !.json = FALSE]} \cup
  {[e EXCEPT !.body = b] : b \in
     {[e.body EXCEPT !.version = 3], [e.body EXCEPT !.version = 5], [e.body EXCEPT !.crypto = "missing"],
      [e.body EXCEPT !.kdf = "argon2"], [e.body EXCEPT !.kdf = "pbkdf2"], [e.body EXCEPT !.cost.n = 3],
      [e.body EXCEPT !.cost.p = 17], [e.body EXCEPT !.cost.r = 64], [e.body EXCEPT !.checksum = BadHex],
      [e.body EXCEPT !.iv.len = 15], [e.body EXCEPT !.cipherFn = "aes-256-ctr"], [e.body EXCEPT !.iv.n = @ + 1], [e.body EXCEPT !.iv.n = @ + 2]} \cup
     {[e.body EXCEPT !.pubkey.form = f] : f \in {"0x", "0X", "upper-case", "none"}}}

(* Another file of the directory, or an other one's keystore, claims to be  *)
(* of the first pubkey.                                                      *)
Impostors == {[shelf[i] EXCEPT !.body.pubkey = shelf[1].body.pubkey] : i \in 2 .. Len(shelf)}

EditKeystore ==
  /\ shelf # <<>> /\ shelf[1].body.version = 4 /\ deposit = None
  /\ \/ \E e \in EditedKeystores(shelf[1]) : shelf' = [shelf EXCEPT ![1] = e]
     \/ \E e \in Impostors : shelf' = Append(shelf, e)
  /\ UNCHANGED <<keys, deposit, unsigned, signed, pool, verdict, chain, last>>

Edit ==
  /\ slips < MaxSlips /\ slips' = slips + 1
  /\ EditDeposit \/ EditUnsigned \/ EditSigned \/ EditKeystore

(* The base fee at most doubles, and a deposit needs at most a fifth more   *)
(* gas, until the transaction is mined.                                      *)
Drift ==
  /\ unsigned # None \/ signed # None
  /\ ~chain.moved /\ verdict = None
  /\ \E b \in {chain.base, 2 * chain.base} :
       chain' = [base |-> b, gas |-> (chain.gas * 6) \div 5, moved |-> TRUE]
  /\ UNCHANGED <<keys, shelf, deposit, unsigned, signed, pool, verdict, last, slips>>

-----------------------------------------------------------------------------
(* How the others judge. *)

(* The root as the deposit contract computes it, from its arguments.        *)
ContractRoot(d) ==
  LET Chunk(v, i) == [chunk |-> i, of |-> v]
      pubkey_root == sha256_pair(Chunk(d.pubkey, 1), Chunk(d.pubkey, 2))
      signature_root == sha256_pair(sha256_pair(Chunk(d.signature, 1), Chunk(d.signature, 2)),
                                    sha256_pair(Chunk(d.signature, 3), ZeroChunk))
  IN  sha256_pair(sha256_pair(pubkey_root, d.withdrawal_credentials),
                  sha256_pair(uint64_chunk(Amount), signature_root))

(* The beacon chain takes the deposit only if its signature is good for the *)
(* fork of the chain.                                                        *)
GoodForFork(d) ==
  verify(d.pubkey,
         compute_signing_root(DepositMessageRoot([pubkey |-> d.pubkey, amount |-> Amount,
                                                  withdrawal_credentials |-> d.withdrawal_credentials]),
                              compute_domain(DOMAIN_DEPOSIT, lookup_network[Chain].genesis_fork_version)),
         d.signature) = Success(TRUE)

DepositVerdict(d) ==
  CASE ~d.ok -> "reverted"
    [] d.ok /\ ContractRoot(d.value) # d.value.deposit_data_root -> "reverted"
    [] OTHER -> IF GoodForFork(d.value) THEN "effective" ELSE "lost"

(* A node decodes it, recovers the sender from what was signed, and checks  *)
(* the fields in turn.                                                       *)
FieldsVerdict(f) ==
  LET payload == <<Byte(2)>> \o encode_list(FlattenSeq([i \in 1 .. 8 |-> encode_str(f[i])]) \o encode_list(<<>>))
      sig  == f[11][1].blob.r
      from == recover_address(keccak256(payload), sig, f[10] # <<>>)
  IN  IF f[9] # <<>> \/ f[11][1] = Byte(0) \/ f[12] # <<Blob([s |-> sig], 32)>> THEN "malformed"
      ELSE CASE Uint(f[1]) # lookup_network[Chain].chain_id -> "chain-id"
             [] Uint(f[1]) = lookup_network[Chain].chain_id /\ (IsHigh(sig) \/ from = Stranger) -> "signature"
             [] OTHER ->
                  IF from # Sender \/ Uint(f[2]) # SenderNonce THEN "account"
                  ELSE IF Uint(f[4]) < chain.base \/ Uint(f[3]) > Uint(f[4]) THEN "underpriced"
                  ELSE IF Uint(f[5]) < chain.gas THEN "out-of-gas"
                  ELSE IF f[6] # <<Blob(Address(lookup_network[Chain].deposit_contract_address), 20)>>
                       THEN "elsewhere" ELSE DepositVerdict(Call(f[8]))
NodeVerdict(fields) == IF fields.ok THEN FieldsVerdict(fields.value) ELSE "malformed"

Mine ==
  /\ pool # None /\ verdict = None
  /\ verdict' = <<NodeVerdict(Fields(pool[1].tx))>>
  /\ UNCHANGED <<keys, shelf, deposit, unsigned, signed, pool, chain, last, slips>>

Next ==
  \/ \E k \in Kinds : KeygenNew(k) \/ KeygenRecover(k)
  \/ DepositGen \/ DepositBuild \/ TxSign \/ TxRun \/ TxSend
  \/ Edit \/ Drift \/ Mine

Spec == Init /\ [][Next]_vars

-----------------------------------------------------------------------------
(* Properties. *)

(* What was made is of its kind; no index is beyond u32; exit codes are     *)
(* those that are documented.                                                *)
TypeOK ==
  /\ \A k \in Kinds : \A h \in Hows : keys[k][h] # None =>
       /\ keys[k][h][1].from.words \in Seq(Words)
       /\ keys[k][h][1].start + Len(keys[k][h][1].written) <= U32
       /\ \A i \in DOMAIN keys[k][h][1].written :
            keys[k][h][1].written[i].body.version = IF k = "validator" THEN 4 ELSE 3
  /\ {Len(deposit), Len(unsigned), Len(signed), Len(pool), Len(verdict)} \subseteq {0, 1}
  /\ chain.moved \in BOOLEAN /\ {chain.base, chain.gas} \subseteq Nat
  /\ last.exit \in 0 .. 5 /\ slips \in 0 .. MaxSlips

Seed(from) == [words |-> from.words, salt |-> NFKD(from.pass)]
Public(k, e) == IF k = "validator" THEN e.body.pubkey.key ELSE e.body.address

(* BIP-32 as wallets have it: the marked levels are hardened. *)
WalletAccount(seed, index) ==
  LET Mark(n, marked) == [n |-> n, marked |-> marked]
      path == <<Mark(44, TRUE), Mark(60, TRUE), Mark(0, TRUE), Mark(0, FALSE),
                Mark(index % HARDENED, index >= HARDENED)>>
      I(k, c, l) == ChildHalves(c, IF l.marked THEN [sk |-> k, index |-> HARDENED + l.n]
                                               ELSE [point |-> k, index |-> l.n])
      top == MasterHalves(seed)
      key[n \in 0 .. Len(path)] ==
        IF n = 0 THEN [k |-> top.L, c |-> top.R]
        ELSE LET p == key[n - 1]
             IN  [k |-> (I(p.k, p.c, path[n]).L + p.k) % Order, c |-> I(p.k, p.c, path[n]).R]
  IN  pubkey_address(key[Len(path)].k)

(* A key can be had again from what was written down: recover makes the key *)
(* of an index that new made if the mnemonic and passphrase are the same    *)
(* but for what is forgiven, and never calls another key the same; and an   *)
(* account's is the one that a wallet derives.                               *)
RecoveryReproduces ==
  \A k \in Kinds :
    /\ (keys[k]["new"] # None /\ keys[k]["recover"] # None) =>
         LET n == keys[k]["new"][1]  r == keys[k]["recover"][1]
         IN  \A i \in DOMAIN n.written, j \in DOMAIN r.written :
               LET same == Seed(n.from) = Seed(r.from) /\ n.start + i = r.start + j
               IN  /\ same => Public(k, n.written[i]) = Public(k, r.written[j])
                   /\ k = "validator" /\ ~same => Public(k, n.written[i]) # Public(k, r.written[j])
    /\ k = "account" => \A h \in Hows : keys[k][h] # None =>
         LET run == keys[k][h][1]
         IN  \A i \in DOMAIN run.written :
               Public(k, run.written[i]) = WalletAccount(Seed(run.from), run.start + i - 1)

(* What a run left opens for the passphrase it was given, and has the key   *)
(* it says: an account's in a wallet, which takes the bytes as they are; a  *)
(* validator's in any program that normalizes, and, once it was verified,   *)
(* also if the disk damaged it.                                              *)
KeystoresOpenForOwner ==
  \A k \in Kinds, h \in Hows : keys[k][h] # None =>
    LET run == keys[k][h][1]
    IN  \A i \in DOMAIN run.written :
          LET e == run.written[i]
              opened == IF k = "validator" THEN decrypt(e.body, NFKD(run.pw)) ELSE decrypt_v3(e.body, run.pw)
          IN  (run.sound \/ (run.checked /\ run.whole)) =>
                /\ opened.ok
                /\ Public(k, e) = IF k = "validator" THEN PublicKey(opened.value)
                                  ELSE pubkey_address(opened.value.key)

(* Whatever lies in the keystore directory, and in whichever order it is    *)
(* listed: an entry that gen writes is signed with the key of its pubkey,   *)
(* for the network it names, and pays out to the address that was typed.    *)
EntryVerifies ==
  deposit # None /\ ~deposit[1].edited =>
    \A i \in DOMAIN deposit[1].entries :
      LET e == deposit[1].entries[i]
          p == lookup_network[e.network_name]
      IN  /\ e.fork_version = p.genesis_fork_version /\ e.withdrawal_credentials.address = Owner
          /\ verify(e.pubkey, compute_signing_root(DepositMessageRoot(e),
                                                   compute_domain(DOMAIN_DEPOSIT, p.genesis_fork_version)),
                    e.signature) = Success(TRUE)
          /\ e.deposit_data_root = ContractRoot(e)

(* A transaction made from what gen wrote, for the network gen was told, is *)
(* whole to a node and effective on the chain, whichever signer made it and *)
(* whatever went wrong before; only its fees and its account can fail it.   *)
(* Gas and fees that came from the node cannot, when the base fee has       *)
(* doubled and a fifth more gas is needed.                                   *)
WholeToAll ==
  verdict # None /\ pool[1].genuine =>
    verdict[1] \in {"effective", "account", "underpriced", "out-of-gas"}
FeesCover ==
  verdict # None /\ pool[1].genuine /\ pool[1].from_node => verdict[1] = "effective"
DepositEffective == WholeToAll /\ FeesCover

(* The class of what went wrong, under all that is wrapped around it,       *)
(* decides the exit code.                                                    *)
Documented(cause) ==
  CASE cause[1] = "Exit" -> IF cause[2] = "write" THEN 3 ELSE 2
    [] cause[1] \in {"Bip32", "KeyVerifyFailed"} -> 3
    [] cause[1] = "Signer" -> CASE cause[2] = "UserRejected" -> 4
                                [] cause[2] = "KeyFile" -> 2
                                [] cause[2] = "Msg" -> 1
                                [] OTHER -> 3
    [] cause[1] = "Aborted" -> 4
    [] cause[1] = "Tx" -> IF cause[2] \in {"RpcDial", "RpcEstimation", "BroadcastFailed", "BroadcastChainIdMismatch"}
                          THEN 5 ELSE 2
    [] cause[1] = "Bls" -> 1
    [] cause[1] \in {"Keystore", "Deposit"} -> IF cause[2] \in {"WrongPassphrase", "Encrypt", "SelfVerifyFailed"}
                                               THEN 3 ELSE 2
    [] OTHER -> 2

DocumentedExit == last.exit = IF last.cause = <<>> THEN 0 ELSE Documented(last.cause)

(* What one command wrote, the next takes: as long as nothing is out of the *)
(* ordinary, no command fails.                                               *)
UsualSucceeds == slips = 0 => last.exit = 0
=============================================================================
