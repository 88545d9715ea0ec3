------------------------------- MODULE Commands -------------------------------
(* The commands, from what is typed to what is written: the steps of each   *)
(* in the order of the code, the first that fails ending it.  A command     *)
(* gives Success of what it made, or Failure of the layers of its error.    *)
(* What a flag that names a file stands for is the file.                     *)
EXTENDS JsonRpc, Keystores, ExitCodes

CONSTANTS
  DEFAULT_GAS_LIMIT, DEFAULT_MAX_FEE_PER_GAS, DEFAULT_MAX_PRIORITY_FEE_PER_GAS

(* The question mark of the code, and the errors it converts. *)
Then(r, Rest(_)) == IF r.ok THEN Rest(r.value) ELSE r
As(kind, r)      == IF r.ok THEN r ELSE Failure(Of(kind, r.err))
Usage(r)         == IF r.ok THEN r ELSE Failure(exit2(r.err))
Require(holds, e) == IF holds THEN Success(TRUE) ELSE Failure(e)

-----------------------------------------------------------------------------
(* validator and account, new and recover.                                  *)

(* Two answers to the prompt are asked for when a mnemonic is new. *)
resolve_mnemonic_passphrase(c, asked, confirm) ==
  LET form == c.mnemonic_passphrase
  IN  CASE form.form = "empty" -> Success(Bytes("empty", "plain"))
        [] form.form \in {"raw", "file"} -> Success(form.value)
        [] OTHER -> IF confirm /\ asked[1] # asked[2] THEN Failure(exit2("mnemonic-passphrases-do-not-match"))
                    ELSE Success(asked[1])

mnemonics_match(words, text) == normalize_mnemonic(text) = words

Listed(name, body) ==
  [isDir |-> FALSE, named |-> TRUE, access |-> "ok", json |-> TRUE, name |-> name, body |-> body]

(* One key of a validator, verified and encrypted. *)
ValidatorKeystore(seed, password, index, deps) ==
  LET sk   == derive_path(seed, signing(index))
      pk   == PublicKey(sk)
      file == encrypt(sk, password, pk, [n |-> index, run |-> deps.run],
                      [len |-> 16, n |-> index, run |-> deps.run], STANDARD)
  IN  IF ~verify_derived_key(sk, pk) THEN Failure(Of("KeyVerifyFailed", "C1-C3"))
      ELSE Then(As("Keystore", file), LAMBDA f :
             Success([entry |-> Listed([path |-> signing(index)], f), secret |-> sk, public |-> pk]))

(* C4: the file is read back. *)
verify_written_keystore(back, made) ==
  /\ back.ok /\ back.value.secret = made.secret
  /\ back.value.pubkey = [key |-> made.public, form |-> "bare"]

AccountKeystore(seed, password, index, deps) ==
  Then(As("Bip32", DeriveAccount(seed, eoa(index))), LAMBDA child :
    LET secret == Scalar(child.k)
        addr   == secret_to_address(child.k)
        file   == encrypt_v3(secret, password, addr, [n |-> index, run |-> deps.run],
                             [len |-> 16, n |-> index, run |-> deps.run], STANDARD)
    IN  Then(As("Keystore", file), LAMBDA f :
          Success([entry  |-> Listed([utc |-> v3_filename(addr, deps.now, 0)], f),
                   secret |-> secret, public |-> addr])))

(* The passphrase and the seed that the keys of a run are made of. *)
SeedAndPassword(text, pass, deps) ==
  Then(As("Keystore", deps.keystore_pw), LAMBDA password :
    Then(As("Bip39", to_seed(text, pass)), LAMBDA seed :
      Success([seed |-> seed, password |-> password])))

(* The key with a number, counted from one.  The disk may refuse the write  *)
(* of one key, or damage it.                                                 *)
MakeKey(kind, c, start, i, deps) ==
  IF kind = "validator" THEN ValidatorKeystore(start.seed, start.password, c.start_index + i - 1, deps)
  ELSE AccountKeystore(start.seed, start.password, c.start_index + i - 1, deps)

OnDisk(e, i, deps) == IF deps.damaged = i THEN [e EXCEPT !.body.iv.n = @ + 1] ELSE e

ReadBack(c, made, i, deps) ==
  c.verify_keystore =>
    verify_written_keystore(load(OnDisk(made.entry, i, deps), Success(deps.keystore_pw.value)), made)

WriteKey(c, made, i, deps) ==
  CASE ~made.ok -> made
    [] made.ok /\ deps.refused = i -> Failure(Exit(3, "write"))
    [] OTHER -> Then(Require(ReadBack(c, made.value, i, deps), Of("KeyVerifyFailed", "C4")), LAMBDA t : made)

(* Key after key, until one fails: what is written stays, also the file     *)
(* that did not verify.                                                      *)
finish_from_mnemonic(kind, c, text, pass, deps) ==
  LET start == SeedAndPassword(text, pass, deps)
      made  == [i \in 1 .. c.count |-> MakeKey(kind, c, start.value, i, deps)]
      done  == [i \in 1 .. c.count |-> WriteKey(c, made[i], i, deps)]
      bad   == {i \in 1 .. c.count : ~done[i].ok}
      first == Min(bad)
      last  == IF bad = {} THEN c.count
               ELSE IF made[first].ok /\ deps.refused # first THEN first ELSE first - 1
  IN  IF ~start.ok THEN [written |-> <<>>, result |-> start]
      ELSE [written |-> [i \in 1 .. last |-> OnDisk(made[i].value.entry, i, deps)],
            result  |-> IF bad = {} THEN start ELSE done[first]]

(* Entropy for the longest mnemonic; it is shown, and typed back.           *)
Fresh(c, deps) ==
  Then(As("Bip39", entropy_to_mnemonic(deps.entropy)), LAMBDA words :
    Then(Require(\A n \in WordCounts : n <= Len(words), Internal), LAMBDA t1 :
      Then(resolve_mnemonic_passphrase(c, deps.asked, TRUE), LAMBDA pass :
        Then(Require(mnemonics_match(words, deps.typed), Aborted), LAMBDA t2 :
          Success([text |-> Typed(words), pass |-> pass])))))

Recovered(c, deps) ==
  Then(As("Bip39", validate_mnemonic(deps.typed)), LAMBDA words :
    Then(resolve_mnemonic_passphrase(c, deps.asked, FALSE), LAMBDA pass :
      Success([text |-> deps.typed, pass |-> pass])))

(* Where the mnemonic comes from, then the keys of it.  `from` is the       *)
(* mnemonic and passphrase that were used, if it came so far.               *)
NoKeys(e) == [from |-> Failure(e), written |-> <<>>, result |-> Failure(e)]

keygen(kind, new, args, deps) ==
  LET flags == shared_args ++ (IF new THEN <<>> ELSE recover_args)
               ++ (IF kind = "validator" THEN no_verify_args ELSE <<>>)
      m     == Usage(try_get_matches(flags, args, <<>>))
      c     == Then(m, LAMBDA v :
                 Then(Require(new => require_tty_for_new(deps.tty), exit2("not-a-tty")), LAMBDA t :
                   Then(Usage(keygen_config(v, IF new THEN 0 ELSE v["start-index"][1])), LAMBDA k :
                     Success([verify_keystore |-> kind = "validator" /\ ~v["no-verify"][1],
                              count |-> k.count, start_index |-> k.start_index,
                              mnemonic_passphrase |-> k.mnemonic_passphrase]))))
      from  == Then(c, LAMBDA k : IF new THEN Fresh(k, deps) ELSE Recovered(k, deps))
  IN  IF ~from.ok THEN NoKeys(from.err)
      ELSE LET keys == finish_from_mnemonic(kind, c.value, from.value.text, from.value.pass, deps)
           IN  [from |-> from, written |-> keys.written, result |-> keys.result]

-----------------------------------------------------------------------------
(* deposit gen, one pubkey after the other (GenPool has them in parallel).  *)

process_pubkey(c, listing, pass, pubkey) ==
  LET found == lookup(listing, [key |-> pubkey, form |-> "bare"])
  IN  Then(As("KeystoreNotFoundFor", found), LAMBDA entry :
        Then(As("Keystore", load(entry, pass)), LAMBDA key :
          Then(As("Bls", new_signer(key.secret)), LAMBDA sk :
            As("Deposit", Generate(sk, pubkey, c.network, c.withdrawal_credentials)))))

FirstErrorOr(made) ==
  LET bad == {i \in DOMAIN made : ~made[i].ok}
  IN  IF bad # {} THEN Failure(made[Min(bad)].err) ELSE Success([i \in DOMAIN made |-> made[i].value])

run_gen(c, listing, pass) ==
  FirstErrorOr([i \in DOMAIN c.pubkeys |-> process_pubkey(c, listing, pass, c.pubkeys[i])])

(* A passphrase file is read once, before the first key.                    *)
deposit_gen(args, listing, pass) ==
  Then(Usage(try_get_matches(gen_args, args, <<>>)), LAMBDA m :
    Then(Usage(gen_config(m)), LAMBDA c :
      Then(IF c.passphrase_file # Absent THEN As("Keystore", pass) ELSE Success("asked-for"), LAMBDA t :
        Then(run_gen(c, listing, pass), LAMBDA entries :
          Success([dry_run |-> c.dry_run, json |-> TRUE, entries |-> entries])))))

-----------------------------------------------------------------------------
(* deposit build. *)

SenderOf(flag) ==
  IF flag = Absent \/ flag[1].address = ZeroAddress THEN NoSender ELSE flag[1].address

(* What a node answers, as the client hands it on. *)
Answers(node) ==
  [chain_id |-> chain_id(node.chain_id), tip |-> suggest_gas_tip_cap(node.tip),
   base_fee |-> block_base_fee(node.base_fee), nonce |-> pending_nonce_at(node.nonce),
   estimate |-> estimate_gas(node.estimate)]

Or(v, default) == IF v = Unset THEN default ELSE v
OfflineDefaults(c) ==
  [c EXCEPT !.max_fee = Or(@, DEFAULT_MAX_FEE_PER_GAS), !.tip = Or(@, DEFAULT_MAX_PRIORITY_FEE_PER_GAS),
            !.gas = IF @ = 0 THEN DEFAULT_GAS_LIMIT ELSE @, !.nonce = Or(@, 0)]

(* Errors of the node stay what they are; all others are about the input.   *)
BuildError(err) ==
  IF err \in {"transport", "body", "rpc-error", "quantity"} THEN Of("Tx", "RpcEstimation")
  ELSE input(Of("Tx", err))

BuildContext(r) == IF r.ok THEN r ELSE Failure(BuildError(r.err))

build_unsigned_tx(c, file, node) ==
  Then(Usage(entries_from_json(file)), LAMBDA entries :
    Then(Require(entries # <<>>, exit2("no-entries")), LAMBDA t1 :
      Then(Require(c.index \in 0 .. Len(entries) - 1, exit2("--index")), LAMBDA t2 :
        LET entry  == entries[c.index + 1]
            online == c.rpc # Absent
            full   == IF online THEN [c EXCEPT !.rpc = TRUE] ELSE [OfflineDefaults(c) EXCEPT !.rpc = FALSE]
        IN  Then(Require(validate(entry), exit2("entry")), LAMBDA t3 :
              Then(IF online THEN As("Tx", NewEthClient(c.rpc[1])) ELSE Success("no-node"), LAMBDA t4 :
                BuildContext(build_unsigned(entry, full, Answers(node))))))))

deposit_build(args, env, file, node) ==
  Then(Usage(try_get_matches(build_args, args, env)), LAMBDA m :
    Then(Usage(build_config(m)), LAMBDA c0 :
      Then(Require(parse_from_flag(m["from"]), exit2("--from")), LAMBDA t1 :
        LET c == [c0 EXCEPT !.from = SenderOf(m["from"])]
        IN  Then(Require(require_from_for_rpc(c), exit2("--from")), LAMBDA t2 :
              Then(Usage(file), LAMBDA content : build_unsigned_tx(c, content, node))))))

-----------------------------------------------------------------------------
(* tx sign and tx run. *)

local_signer_from_file(file) ==
  LET s == new_local_signer_from_file(file)
  IN  CASE s.ok -> s
        [] ~s.ok /\ s.err = "KeyGivenAsPath" -> Failure(exit2("key-given-as-a-path"))
        [] OTHER -> Failure(context(FromSigner(s.err)))

Local(signer, key_file) == IF signer = <<"local">> THEN local_signer_from_file(key_file) ELSE Success("none")

SignerContext(r) == IF r.ok THEN r ELSE Failure(context(FromSigner(r.err)))

sign_unsigned_tx(signer, local, unsigned, device) ==
  SignerContext(IF signer = <<"local">> THEN sign_local(unsigned, local)
                ELSE Then(new_ledger_signer(device), LAMBDA wallet : sign_ledger(unsigned, device)))

tx_sign(args, file, key_file, device) ==
  Then(Usage(try_get_matches(sign_args, args, <<>>)), LAMBDA m :
    Then(Usage(sign_config(m)), LAMBDA c :
      Then(Usage(file), LAMBDA unsigned :
        Then(Local(c.signer, key_file), LAMBDA local :
          sign_unsigned_tx(c.signer, local, unsigned, device)))))

(* The input before the key, the sender of the key before the node, and the *)
(* unsigned transaction before the signature.                                *)
tx_run(args, env, file, key_file, device, node) ==
  Then(Usage(try_get_matches(run_args ++ run_sign_args, args, env)), LAMBDA m :
    Then(Usage(run_config(m)), LAMBDA c :
      Then(Require(require_ledger_flags_for_rpc(c.signer[1], c.build), exit2("--signer-ledger")), LAMBDA t1 :
        Then(Usage(file), LAMBDA content :
          Then(Local(c.signer, key_file), LAMBDA local :
            LET known == c.signer = <<"local">> /\ c.build.rpc # Absent
                b == IF known THEN [c.build EXCEPT !.from = secret_to_address(local)] ELSE c.build
            IN  Then(build_unsigned_tx(b, content, node), LAMBDA unsigned :
                  sign_unsigned_tx(c.signer, local, unsigned, device)))))))

-----------------------------------------------------------------------------
(* tx send; waiting for the receipt is in TxSend. *)

send_args ==
  [f \in {"input", "rpc-url"} |-> Flag(TRUE, FALSE, Absent)] ++ ("yes" := Flag(FALSE, FALSE, <<FALSE>>))

(* A chain that is not in the table has a name made of its number.          *)
NetworkName(id, known) == IF known.ok THEN <<known.value.name>> ELSE <<"chain", id>>

tx_send(args, file, node, typed) ==
  Then(Usage(try_get_matches(send_args, args, <<>>)), LAMBDA m :
    Then(Usage(file), LAMBDA signed :
      Then(As("Tx", NewEthClient(m["rpc-url"][1])), LAMBDA url :
        LET id == chain_id(node.chain_id)
        IN  Then(Require(id.ok, Of("Tx", "BroadcastFailed")), LAMBDA t1 :
              Then(Require(id.value = signed.unsigned.chain_id, Of("Tx", "BroadcastChainIdMismatch")), LAMBDA t2 :
                Then(Require(\/ m["yes"][1]
                             \/ typed = NetworkName(id.value, lookup_by_chain_id(id.value)), Aborted), LAMBDA t3 :
                  As("Tx", send_raw_transaction(signed.rawRLP, node.sent))))))))
=============================================================================
