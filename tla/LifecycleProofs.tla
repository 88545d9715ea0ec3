---------------------------- MODULE LifecycleProofs ----------------------------
(* Proofs about Lifecycle: whatever the slips of the operator and the costs  *)
(* and sizes of the parameters, a deposit file verifies, a keystore that was *)
(* read back opens, and a recovery makes the keys of the first run again.    *)
EXTENDS Lifecycle, WellFoundedInduction, SequenceTheorems, FiniteSetTheorems,
        FunctionTheorems, TLAPS

-----------------------------------------------------------------------------
(* Results, and sequences that are put together. *)

(* A result is what it was made of.                                          *)
LEMMA Results ==
  /\ \A v : Success(v).ok = TRUE /\ Success(v).value = v
  /\ \A e : Failure(e).ok = FALSE
BY DEF Success, Failure

-----------------------------------------------------------------------------
(* SSZ roots. *)

(* The trees of the three numbers of leaves a deposit has.                   *)
LEMMA MerkleOfTwo ==
  ASSUME NEW a, NEW b
  PROVE  merkleize(<<a, b>>, 2) = sha256_pair(a, b)
<1> DEFINE size == CHOOSE p \in Sizes : p >= 2 /\ p < 2 * 2
           padded == [i \in 1 .. size |-> IF i <= 2 THEN <<a, b>>[i] ELSE ZeroChunk]
<1>1. size = 2  BY DEF Sizes
<1>2. padded = <<a, b>>
  <2> HIDE DEF size
  <2> QED BY <1>1
<1>3. Level(<<a, b>>) = <<sha256_pair(a, b)>>  BY DEF Level
<1>4. Level(<<sha256_pair(a, b)>>) = <<sha256_pair(a, b)>>  BY DEF Level
<1>5. merkleize(<<a, b>>, 2) = Level(Level(padded))[1]  BY DEF merkleize
<1> QED
  <2> HIDE DEF padded
  <2> QED BY <1>2, <1>3, <1>4, <1>5

LEMMA MerkleOfFour ==
  ASSUME NEW a, NEW b, NEW c, NEW d
  PROVE  merkleize(<<a, b, c, d>>, 4) = sha256_pair(sha256_pair(a, b), sha256_pair(c, d))
<1> DEFINE size == CHOOSE p \in Sizes : p >= 4 /\ p < 2 * 4
           padded == [i \in 1 .. size |-> IF i <= 4 THEN <<a, b, c, d>>[i] ELSE ZeroChunk]
<1>1. size = 4  BY DEF Sizes
<1>2. padded = <<a, b, c, d>>
  <2> HIDE DEF size
  <2> QED BY <1>1
<1>3. Level(<<a, b, c, d>>) = <<sha256_pair(a, b), sha256_pair(c, d)>>  BY DEF Level
<1>4. \A x, y : Level(<<x, y>>) = <<sha256_pair(x, y)>>  BY DEF Level
<1>5. merkleize(<<a, b, c, d>>, 4) = Level(Level(padded))[1]  BY DEF merkleize
<1> QED
  <2> HIDE DEF padded
  <2> QED BY <1>2, <1>3, <1>4, <1>5

LEMMA MerkleOfThree ==
  ASSUME NEW a, NEW b, NEW c
  PROVE  merkleize(<<a, b, c>>, 3) = sha256_pair(sha256_pair(a, b), sha256_pair(c, ZeroChunk))
<1> DEFINE size == CHOOSE p \in Sizes : p >= 3 /\ p < 2 * 3
           padded == [i \in 1 .. size |-> IF i <= 3 THEN <<a, b, c>>[i] ELSE ZeroChunk]
<1>1. size = 4  BY DEF Sizes
<1>2. padded = <<a, b, c, ZeroChunk>>
  <2> HIDE DEF size
  <2> QED BY <1>1
<1>3. Level(<<a, b, c, ZeroChunk>>) = <<sha256_pair(a, b), sha256_pair(c, ZeroChunk)>>  BY DEF Level
<1>4. \A x, y : Level(<<x, y>>) = <<sha256_pair(x, y)>>  BY DEF Level
<1>5. merkleize(<<a, b, c>>, 3) = Level(Level(padded))[1]  BY DEF merkleize
<1> QED
  <2> HIDE DEF padded
  <2> QED BY <1>2, <1>3, <1>4, <1>5

(* The roots of a public key and of a signature are those of the contract.   *)
LEMMA VectorRoots ==
  ASSUME NEW v
  PROVE  LET Chunk(i) == [chunk |-> i, of |-> v]
         IN  /\ byte_vector_root(v, 48) = sha256_pair(Chunk(1), Chunk(2))
             /\ byte_vector_root(v, 96) =
                  sha256_pair(sha256_pair(Chunk(1), Chunk(2)), sha256_pair(Chunk(3), ZeroChunk))
<1> DEFINE Chunk(i) == [chunk |-> i, of |-> v]
           chunks(n) == [i \in 1 .. n |-> Chunk(i)]
<1>1. /\ byte_vector_root(v, 48) = merkleize(chunks(2), 2)
      /\ byte_vector_root(v, 96) = merkleize(chunks(3), 3)
  <2>1. (48 + 31) \div 32 = 2 /\ (96 + 31) \div 32 = 3  OBVIOUS
  <2> QED BY <2>1 DEF byte_vector_root
<1>2. chunks(2) = <<Chunk(1), Chunk(2)>> /\ chunks(3) = <<Chunk(1), Chunk(2), Chunk(3)>>
  OBVIOUS
<1> HIDE DEF Chunk, chunks
<1>3. QED BY <1>1, <1>2, MerkleOfTwo, MerkleOfThree DEF Chunk

(* The tree of a deposit's data is the one the contract computes.            *)
LEMMA DataRootIsContracts ==
  ASSUME NEW e, e.amount = Amount
  PROVE  DepositDataRoot(e) = ContractRoot(e)
<1>1. DepositDataRoot(e) =
        sha256_pair(sha256_pair(byte_vector_root(e.pubkey, 48), e.withdrawal_credentials),
                    sha256_pair(uint64_chunk(Amount), byte_vector_root(e.signature, 96)))
  BY MerkleOfFour DEF DepositDataRoot
<1> QED BY <1>1, VectorRoots DEF ContractRoot

-----------------------------------------------------------------------------
(* deposit gen. *)

(* What EntryVerifies asks of one entry. *)
Verifies(e) ==
  LET p == lookup_network[e.network_name]
  IN  /\ e.fork_version = p.genesis_fork_version /\ e.withdrawal_credentials.address = Owner
      /\ verify(e.pubkey, compute_signing_root(DepositMessageRoot(e),
                                               compute_domain(DOMAIN_DEPOSIT, p.genesis_fork_version)),
                e.signature) = Success(TRUE)
      /\ e.deposit_data_root = ContractRoot(e)

(* What generate makes of any key is an entry that verifies.                 *)
LEMMA GeneratedVerifies ==
  ASSUME NEW sk, NEW pubkey, NEW network \in {"mainnet", "hoodi"},
         Generate(sk, pubkey, network, eth1_withdrawal_credentials(Owner)).ok
  PROVE  Verifies(Generate(sk, pubkey, network, eth1_withdrawal_credentials(Owner)).value)
<1> DEFINE wc   == eth1_withdrawal_credentials(Owner)
           p    == lookup_network[network]
           msg  == [pubkey |-> pubkey, withdrawal_credentials |-> wc, amount |-> Amount]
           root == compute_signing_root(DepositMessageRoot(msg),
                                        compute_domain(DOMAIN_DEPOSIT, p.genesis_fork_version))
           sig  == Signature(sk, root)
           data == [pubkey |-> pubkey, withdrawal_credentials |-> wc, amount |-> Amount, signature |-> sig]
           e    == [pubkey |-> pubkey, withdrawal_credentials |-> wc, amount |-> Amount, signature |-> sig,
                    deposit_message_root |-> DepositMessageRoot(msg),
                    deposit_data_root |-> DepositDataRoot(data),
                    fork_version |-> p.genesis_fork_version, network_name |-> p.name]
<1>1. /\ verify(pubkey, root, sig) = Success(TRUE)
      /\ Generate(sk, pubkey, network, wc).value = e
  BY Results DEF Generate
<1>2. p.name = network
  BY DEF lookup_network, Params
<1>3. DepositMessageRoot(e) = DepositMessageRoot(msg)
  BY DEF DepositMessageRoot
<1>4. DepositDataRoot(data) = ContractRoot(data)
  BY DataRootIsContracts
<1>5. ContractRoot(e) = ContractRoot(data)
  BY DEF ContractRoot
<1>6. e.withdrawal_credentials.address = Owner
  BY DEF eth1_withdrawal_credentials
<1>7. /\ e.pubkey = pubkey /\ e.signature = sig /\ e.network_name = p.name
      /\ e.fork_version = p.genesis_fork_version /\ e.deposit_data_root = DepositDataRoot(data)
  OBVIOUS
<1>8. Verifies(e)
  <2> HIDE DEF e, msg, data, p, sig
  <2>1. lookup_network[e.network_name] = p
    BY <1>2, <1>7 DEF p
  <2> QED BY <1>1, <1>3, <1>4, <1>5, <1>6, <1>7, <2>1 DEF Verifies
<1> QED
  <2> HIDE DEF e
  <2> QED BY <1>1, <1>8

(* Checks that are passed all hold.                                          *)
LEMMA CheckedOk ==
  ASSUME NEW checks, NEW config, Checked(checks, config).ok
  PROVE  /\ Checked(checks, config).value = config
         /\ \A i \in DOMAIN checks : checks[i].holds
BY DEF Checked, Success, Failure

(* What gen was told, once it is accepted. *)
LEMMA AcceptedGen ==
  ASSUME NEW m, gen_config(m).ok
  PROVE  LET c == gen_config(m).value
         IN  /\ c.network \in {"mainnet", "hoodi"}
             /\ m["withdrawal-address"] # Absent
             /\ m["withdrawal-address"][1].form = "checksummed"
             /\ m["withdrawal-address"][1].address # ZeroAddress
             /\ c.withdrawal_credentials = eth1_withdrawal_credentials(m["withdrawal-address"][1].address)
<1> DEFINE net  == m["network"][1]
           keys_ == parse_pubkeys(m["pubkeys"][1])
           wd   == m["withdrawal-address"]
           checks == <<Check("--network", parse_flag(net).ok /\ net \in {"mainnet", "hoodi"}),
                       Check("mainnet", net = "mainnet" => m["i-understand-this-is-mainnet"][1]),
                       Check("--pubkeys", keys_.ok),
                       Check("--keystore-dir", validate_keystore_dir(m["keystore-dir"][1])),
                       Check("--output-dir", m["dry-run"][1] \/ OutputDirGiven(m["output-dir"])),
                       Check("--parallel", m["parallel"][1] \in 1 .. MaxParallel),
                       Check("--withdrawal-address", wd # Absent /\ validate_eip55_address(wd[1])),
                       Check("--withdrawal-address", wd # Absent /\ wd[1].address # ZeroAddress),
                       SecretFileCheck("--passphrase-file", m["passphrase-file"])>>
           config == [network |-> net, pubkeys |-> keys_.value, dry_run |-> m["dry-run"][1],
                      withdrawal_credentials |-> eth1_withdrawal_credentials(wd[1].address),
                      passphrase_file |-> m["passphrase-file"]]
<1>1. gen_config(m) = Checked(checks, config)
  BY DEF gen_config
<1>2. gen_config(m).value = config /\ \A i \in DOMAIN checks : checks[i].holds
  <2> HIDE DEF checks, config
  <2> QED BY <1>1, CheckedOk
<1>4. checks[1].holds /\ checks[7].holds /\ checks[8].holds
  BY <1>2
<1>5. net \in {"mainnet", "hoodi"} /\ wd # Absent /\ validate_eip55_address(wd[1])
      /\ wd[1].address # ZeroAddress
  BY <1>4 DEF Check
<1> QED BY <1>2, <1>5 DEF validate_eip55_address

(* What the parser hands to a command.                                       *)
LEMMA Matched ==
  ASSUME NEW args, NEW typed, NEW env, try_get_matches(args, typed, env).ok
  PROVE  try_get_matches(args, typed, env).value =
           [f \in DOMAIN args |->
              IF f \in DOMAIN typed THEN <<typed[f]>>
              ELSE IF args[f].env /\ f \in DOMAIN env THEN <<env[f]>> ELSE args[f].default]
BY CheckedOk DEF try_get_matches

(* Every entry of a run verifies, whichever keystores it found.              *)
LEMMA EntriesOfGen ==
  ASSUME NEW c, NEW listing, NEW pass, c.network \in {"mainnet", "hoodi"},
         c.withdrawal_credentials = eth1_withdrawal_credentials(Owner),
         run_gen(c, listing, pass).ok
  PROVE  \A i \in DOMAIN run_gen(c, listing, pass).value : Verifies(run_gen(c, listing, pass).value[i])
<1> DEFINE made == [i \in DOMAIN c.pubkeys |-> process_pubkey(c, listing, pass, c.pubkeys[i])]
<1>1. /\ \A i \in DOMAIN made : made[i].ok
      /\ run_gen(c, listing, pass).value = [i \in DOMAIN made |-> made[i].value]
  <2>1. run_gen(c, listing, pass) = FirstErrorOr(made)  BY DEF run_gen
  <2> HIDE DEF made
  <2> QED BY <2>1, Results DEF FirstErrorOr
<1>2. ASSUME NEW i \in DOMAIN made
      PROVE  Verifies(made[i].value)
  <2> DEFINE result == process_pubkey(c, listing, pass, c.pubkeys[i])
  <2>1. result.ok /\ made[i] = result
    BY <1>1, <1>2, Zenon
  <2>2. PICK sk : /\ result = As("Deposit", Generate(sk, c.pubkeys[i], c.network, c.withdrawal_credentials))
    BY <2>1, Results DEF process_pubkey, Then, As
  <2>3. /\ Generate(sk, c.pubkeys[i], c.network, c.withdrawal_credentials).ok
        /\ result = Generate(sk, c.pubkeys[i], c.network, c.withdrawal_credentials)
    <3> HIDE DEF result
    <3> QED BY <2>1, <2>2, Results DEF As
  <2> HIDE DEF result, made
  <2> QED BY <2>1, <2>3, GeneratedVerifies
<1> HIDE DEF made
<1> QED BY <1>1, <1>2

(* What an operator may type as the address is Owner, or is refused. *)
Typeable == {AddressText(Owner, "checksummed"), AddressText(Owner, "lower-case"),
             AddressText(ZeroAddress, "checksummed")}

(* The one text of an address that gen accepts is the owner's own.           *)
LEMMA AddressAccepted ==
  ASSUME NEW a \in Typeable, a.form = "checksummed", a.address # ZeroAddress
  PROVE  a.address = Owner
BY DEF Typeable, AddressText

(* The value of a flag that has no environment variable.                     *)
LEMMA FlagMatched ==
  ASSUME NEW flags, NEW all, NEW x, NEW f \in DOMAIN flags, f \in DOMAIN all, ~flags[f].env,
         try_get_matches(flags, Args(x, all), <<>>).ok
  PROVE  LET v == try_get_matches(flags, Args(x, all), <<>>).value[f]
         IN  IF f \in DOMAIN x /\ f \notin x["without"] THEN v = <<x[f]>> ELSE v = flags[f].default
<1>1. PICK a : a = Args(x, all)
  OBVIOUS
<1>2. /\ f \in DOMAIN a <=> f \in DOMAIN x /\ f \notin x["without"]
      /\ f \in DOMAIN a => a[f] = x[f]
  BY <1>1 DEF Args
<1>3. PICK r : r = try_get_matches(flags, a, <<>>)
  OBVIOUS
<1>4. r.value = [g \in DOMAIN flags |->
                   IF g \in DOMAIN a THEN <<a[g]>>
                   ELSE IF flags[g].env /\ g \in DOMAIN <<>> THEN <<<<>>[g]>> ELSE flags[g].default]
  BY <1>1, <1>3, Matched
<1>5. r.value[f] = IF f \in DOMAIN a THEN <<a[f]>> ELSE flags[f].default
  BY <1>4
<1> QED BY <1>1, <1>2, <1>3, <1>5

(* Whatever is typed as the address, what gen hands to the writer verifies.  *)
LEMMA EntriesWritten ==
  ASSUME NEW x, NEW listing, "withdrawal-address" \in DOMAIN x, x["withdrawal-address"] \in Typeable,
         deposit_gen(Args(x, gen_args), listing, x["pw"]).ok
  PROVE  LET entries == deposit_gen(Args(x, gen_args), listing, x["pw"]).value.entries
         IN  \A i \in DOMAIN entries : Verifies(entries[i])
<1> DEFINE args == Args(x, gen_args)
           m    == try_get_matches(gen_args, args, <<>>)
           c    == gen_config(m.value)
           run  == run_gen(c.value, listing, x["pw"])
<1>1. /\ m.ok /\ c.ok /\ run.ok
      /\ deposit_gen(args, listing, x["pw"]).value.entries = run.value
  <2>1. m.ok
    BY Results, Zenon DEF deposit_gen, Then, Usage
  <2>2. c.ok
    BY <2>1, Results, Zenon DEF deposit_gen, Then, Usage
  <2> DEFINE read == IF c.value.passphrase_file # Absent THEN As("Keystore", x["pw"]) ELSE Success("asked-for")
  <2>3. deposit_gen(args, listing, x["pw"]) =
          Then(read, LAMBDA t : Then(run, LAMBDA entries :
            Success([dry_run |-> c.value.dry_run, json |-> TRUE, entries |-> entries])))
    BY <2>1, <2>2, Results DEF deposit_gen, Then, Usage
  <2> HIDE DEF read, run, c, m
  <2>7. PICK r : r = [dry_run |-> c.value.dry_run, json |-> TRUE, entries |-> run.value]
    OBVIOUS
  <2>4. PICK done : done = Success(r)
    OBVIOUS
  <2>5. deposit_gen(args, listing, x["pw"]) = IF ~read.ok THEN read ELSE IF ~run.ok THEN run ELSE done
    BY <2>3, <2>4, <2>7, Zenon DEF Then
  <2>6. done.value.entries = run.value
    <3>1. done.value = r
      BY <2>4, Results, Zenon
    <3> QED BY ONLY <2>7, <3>1
  <2> QED BY <2>1, <2>2, <2>5, <2>6, Zenon
<1>2. m.value["withdrawal-address"] \in {<<x["withdrawal-address"]>>, Absent}
  <2>1. /\ "withdrawal-address" \in DOMAIN gen_args
        /\ gen_args["withdrawal-address"].env = FALSE /\ gen_args["withdrawal-address"].default = Absent
    BY DEF gen_args, :=, ++, Flag
  <2>2. m.ok /\ ~gen_args["withdrawal-address"].env
    BY <1>1, <2>1
  <2>3. LET v == m.value["withdrawal-address"]
        IN  IF "withdrawal-address" \in DOMAIN x /\ "withdrawal-address" \notin x["without"]
            THEN v = <<x["withdrawal-address"]>> ELSE v = gen_args["withdrawal-address"].default
    BY <2>1, <2>2, FlagMatched
  <2> QED
    <3> HIDE DEF m
    <3> QED BY <2>1, <2>3
<1>3. /\ c.value.network \in {"mainnet", "hoodi"}
      /\ c.value.withdrawal_credentials = eth1_withdrawal_credentials(Owner)
  <2> DEFINE w == m.value["withdrawal-address"]
  <2>1. /\ c.value.network \in {"mainnet", "hoodi"} /\ w # Absent /\ w[1].form = "checksummed"
        /\ w[1].address # ZeroAddress
        /\ c.value.withdrawal_credentials = eth1_withdrawal_credentials(w[1].address)
    <3> HIDE DEF m
    <3> QED BY <1>1, AcceptedGen
  <2>2. w[1] \in Typeable
    <3> HIDE DEF w
    <3> QED BY <1>2, <2>1 DEF w
  <2>3. w[1].address = Owner
    BY <2>1, <2>2, AddressAccepted
  <2> QED BY <2>1, <2>3
<1>4. \A i \in DOMAIN run.value : Verifies(run.value[i])
  <2> HIDE DEF c
  <2> QED BY <1>1, <1>3, EntriesOfGen
<1> QED BY <1>1, <1>4

(* The inputs of DepositGen name an address.                                 *)
LEMMA GenInputs ==
  ASSUME NEW o \in {<<>>} \cup GenOthers, NEW x, x = o ++ GenUsual
  PROVE  "withdrawal-address" \in DOMAIN x /\ x["withdrawal-address"] \in Typeable
<1>1. ASSUME "withdrawal-address" \in DOMAIN o
      PROVE  o["withdrawal-address"] \in Typeable
  <2>1. ASSUME NEW f, NEW v, o = (f := v)
        PROVE  f = "withdrawal-address"
    BY <1>1, <2>1 DEF :=
  <2>2. ASSUME NEW f, NEW g, NEW v, NEW w, o = ((f := v) ++ (g := w))
        PROVE  "withdrawal-address" \in {f, g}
    BY <1>1, <2>2 DEF :=, ++
  <2>3. o # <<>>
    BY <1>1
  <2>4. /\ ~\E p : o = ("pubkeys" := p)
        /\ ~\E n : o = ("network" := n)
        /\ ~\E r : o = ("pw" := r)
        /\ ~\E n : o = ("parallel" := n)
        /\ ~\E f : o = ("without" := f)
        /\ ~\E n, y : o = (("network" := n) ++ ("i-understand-this-is-mainnet" := y))
        /\ ~\E n : o = ("dry-run" := n)
        /\ ~\E n : o = ("keystore-dir" := n)
        /\ ~\E n : o = ("output-dir" := n)
        /\ ~\E n : o = ("order" := n)
        /\ ~\E n : o = ("passphrase-file" := n)
    BY <2>1, <2>2
  <2>5. \E a \in {AddressText(Owner, "lower-case"), AddressText(ZeroAddress, "checksummed")} :
          o = ("withdrawal-address" := a)
    <3>1. o \in GenOthers
      BY <2>3
    <3> QED BY ONLY <3>1, <2>4, Zenon DEF GenOthers
  <2> QED BY <2>5 DEF Typeable, :=
<1>2. "withdrawal-address" \in DOMAIN GenUsual /\ GenUsual["withdrawal-address"] \in Typeable
  BY Zenon DEF GenUsual, NoFlags, :=, ++, Typeable
<1> QED BY <1>1, <1>2 DEF ++

(* Inductive: what EntryVerifies says, and an artifact says if it was edited. *)
EntryInv ==
  deposit # None =>
    /\ "edited" \in DOMAIN deposit[1]
    /\ ~deposit[1].edited =>
         \A i \in DOMAIN deposit[1].entries : Verifies(deposit[1].entries[i])

(* The two actions that change the deposit file, and no other does.          *)
LEMMA GenStep ==
  ASSUME EntryInv, DepositGen
  PROVE  EntryInv'
<1> DEFINE Listing(x) == IF x["order"] = "reversed" THEN Reverse(shelf) ELSE shelf
           Out(x) == deposit_gen(Args(x, gen_args), Listing(x), x["pw"])
<1>1. PICK o \in {<<>>} \cup GenOthers :
        deposit' = IF Out(o ++ GenUsual).ok /\ ~Out(o ++ GenUsual).value.dry_run
                   THEN <<[json |-> TRUE, entries |-> Out(o ++ GenUsual).value.entries, edited |-> FALSE]>>
                   ELSE deposit
  BY DEF DepositGen, With
<1>2. PICK x : x = o ++ GenUsual
  OBVIOUS
<1>3. "withdrawal-address" \in DOMAIN x /\ x["withdrawal-address"] \in Typeable
  BY <1>2, GenInputs
<1>4. CASE deposit' = deposit
  BY <1>4 DEF EntryInv, None
<1>5. CASE /\ Out(x).ok
           /\ deposit' = <<[json |-> TRUE, entries |-> Out(x).value.entries, edited |-> FALSE]>>
  <2>1. \A i \in DOMAIN Out(x).value.entries : Verifies(Out(x).value.entries[i])
    <3> HIDE DEF Listing
    <3> QED BY <1>3, <1>5, EntriesWritten
  <2> HIDE DEF Out
  <2>2. PICK entries : entries = Out(x).value.entries
    OBVIOUS
  <2>3. deposit'[1] = [json |-> TRUE, entries |-> entries, edited |-> FALSE]
    BY <1>5, <2>2
  <2> QED BY <2>1, <2>2, <2>3 DEF EntryInv
<1> QED
  <2> HIDE DEF Out
  <2> QED BY <1>1, <1>2, <1>4, <1>5

LEMMA EditStep ==
  ASSUME EntryInv, EditDeposit
  PROVE  EntryInv'
<1>1. PICK d : "edited" \in DOMAIN d /\ deposit' = <<[d EXCEPT !.edited = TRUE]>>
  BY DEF EntryInv, EditDeposit
<1>2. "edited" \in DOMAIN deposit'[1] /\ deposit'[1].edited
  BY <1>1
<1> QED BY <1>2 DEF EntryInv

LEMMA DepositKept ==
  ASSUME Next
  PROVE  DepositGen \/ EditDeposit \/ UNCHANGED deposit
<1>1. ASSUME NEW k \in Kinds, KeygenNew(k) \/ KeygenRecover(k)
      PROVE  UNCHANGED deposit
  <2>1. \A how, words, x : Keygen(k, how, words, x) => UNCHANGED deposit
    BY DEF Keygen
  <2> QED BY <1>1, <2>1 DEF KeygenNew, KeygenRecover, With
<1>2. CASE DepositBuild
  BY <1>2 DEF DepositBuild, With
<1>3. CASE TxSign
  BY <1>3 DEF TxSign, With
<1>4. CASE TxRun
  BY <1>4 DEF TxRun, With
<1>5. CASE TxSend
  BY <1>5 DEF TxSend, With
<1>6. CASE Edit
  BY <1>6 DEF Edit, EditUnsigned, EditSigned, EditKeystore
<1>7. CASE Drift \/ Mine
  BY <1>7 DEF Drift, Mine
<1> QED BY <1>1, <1>2, <1>3, <1>4, <1>5, <1>6, <1>7 DEF Next

(* The entries of an unedited deposit file verify.                           *)
THEOREM EntriesHold == Spec => []EntryInv
<1>1. Init => EntryInv
  BY DEF Init, EntryInv
<1>2. EntryInv /\ [Next]_vars => EntryInv'
  <2> SUFFICES ASSUME EntryInv, [Next]_vars PROVE EntryInv'
    OBVIOUS
  <2>1. CASE UNCHANGED deposit
    BY <2>1 DEF EntryInv
  <2>2. CASE DepositGen
    BY <2>2, GenStep
  <2>3. CASE EditDeposit
    BY <2>3, EditStep
  <2> QED BY <2>1, <2>2, <2>3, DepositKept DEF vars
<1> QED BY <1>1, <1>2, PTL DEF Spec

(* An entry that gen writes is signed with the key of its pubkey, for the   *)
(* network it names, and pays out to the address that was typed: whatever   *)
(* lies in the keystore directory, in whichever order it is listed.          *)
THEOREM EntriesVerify == Spec => []EntryVerifies
<1>1. EntryInv => EntryVerifies
  BY DEF EntryInv, EntryVerifies, Verifies
<1> QED BY <1>1, EntriesHold, PTL

-----------------------------------------------------------------------------
(* The least of a set, and the inputs of a keygen. *)

(* Min is the least member: there is one, because < is well-founded on Nat.  *)
LEMMA MinOf ==
  ASSUME NEW S, S \subseteq Nat, S # {}
  PROVE  Min(S) \in S /\ \A n \in S : Min(S) <= n
<1>1. PICK least \in S : \A n \in S : ~(<<n, least>> \in OpToRel(<, Nat))
  BY NatLessThanWellFounded, WFMin, Zenon
<1>2. \A n \in S : least <= n
  <2>1. \A a, b : <<a, b>> \in OpToRel(<, Nat) <=> a \in Nat /\ b \in Nat /\ a < b
    BY DEF OpToRel
  <2>2. \A n \in S : ~(n < least)
    BY <1>1, <2>1, Zenon
  <2> QED BY <2>2
<1> QED BY <1>2 DEF Min

(* The inputs of a run: what is not named is not among the three flags that *)
(* decide which indices there are.                                          *)
Plain(o) ==
  /\ "without" \in DOMAIN o => o["without"] \in {{}, {"output-dir"}}
  /\ "count" \in DOMAIN o => o["count"] \in Nat
  /\ "start-index" \in DOMAIN o => o["start-index"] \in Nat

(* The inputs KeygenNew and KeygenRecover draw from are plain.               *)
LEMMA PlainInputs ==
  /\ Plain(<<>>)
  /\ \A f, v : f \notin {"without", "count", "start-index"} => Plain(f := v)
  /\ \A v \in {{}, {"output-dir"}} : Plain("without" := v)
  /\ \A v \in Nat : Plain("count" := v) /\ Plain("start-index" := v)
  /\ \A f, g : Plain(f) /\ Plain(g) => Plain(f ++ g)
<1>1. Plain(<<>>)
  BY DEF Plain
<1>2. ASSUME NEW f, NEW v, f \notin {"without", "count", "start-index"}
      PROVE  Plain(f := v)
  BY <1>2 DEF Plain, :=
<1>3. \A v \in {{}, {"output-dir"}} : Plain("without" := v)
  BY DEF Plain, :=
<1>4. ASSUME NEW v \in Nat
      PROVE  Plain("count" := v) /\ Plain("start-index" := v)
  BY DEF Plain, :=
<1>5. ASSUME NEW f, NEW g, Plain(f), Plain(g)
      PROVE  Plain(f ++ g)
  <2> DEFINE h == f ++ g
  <2>1. \A i \in DOMAIN h : h[i] = IF i \in DOMAIN f THEN f[i] ELSE g[i]
    BY DEF ++
  <2>2. DOMAIN h = DOMAIN f \cup DOMAIN g
    BY DEF ++
  <2> HIDE DEF h
  <2>3. Plain(h)
    BY <1>5, <2>1, <2>2 DEF Plain
  <2> QED BY <2>3 DEF h
<1> QED BY <1>1, <1>2, <1>3, <1>4, <1>5

LEMMA KeygenInputs ==
  ASSUME NEW entropies, NEW how, NEW o \in {<<>>} \cup KeygenOthers(entropies)
  PROVE  /\ Plain(o) /\ Plain(KeygenUsual(how))
         /\ \A wish \in Wishes : Plain(wish)
<1>1. HARDENED - 1 \in Nat /\ U32 - 1 \in Nat
  BY KeyPathsAssumption, FlagsAssumption
<1>2. Plain(o)
  <2>1. Plain(<<>>) /\ Plain("without" := {"output-dir"})
    BY PlainInputs
  <2>2. \A v : /\ Plain("entropy" := v) /\ Plain("pw" := v) /\ Plain("typed" := v)
               /\ Plain("mnemonic-passphrase" := v) /\ Plain("mnemonic-passphrase-file" := v) /\ Plain("asked" := v)
               /\ Plain("no-verify" := v) /\ Plain("tty" := v) /\ Plain("passphrase-file" := v)
               /\ Plain("output-dir" := v) /\ Plain("refused" := v) /\ Plain("damaged" := v)
    BY PlainInputs
  <2>3. /\ Plain("count" := 0) /\ Plain("count" := 2) /\ Plain("start-index" := 1)
        /\ Plain("start-index" := HARDENED - 1) /\ Plain("start-index" := U32 - 1)
    BY <1>1, PlainInputs
  <2>4. \A f, g : Plain(f) /\ Plain(g) => Plain(f ++ g)
    BY PlainInputs
  <2> QED BY <2>1, <2>2, <2>3, <2>4, Zenon DEF KeygenOthers
<1>3. Plain(KeygenUsual(how))
  BY PlainInputs DEF KeygenUsual, NoFlags
<1>4. \A wish \in Wishes : Plain(wish)
  BY PlainInputs, Zenon DEF Wishes
<1> QED BY <1>2, <1>3, <1>4

-----------------------------------------------------------------------------
(* What a keygen command writes. *)

(* A key that was written and read back was made, and is what is on disk.    *)
LEMMA WriteKeyOk ==
  ASSUME NEW c, NEW made, NEW i, NEW deps, WriteKey(c, made, i, deps).ok
  PROVE  made.ok /\ ReadBack(c, made.value, i, deps)
<1>1. CASE ~made.ok
  BY <1>1 DEF WriteKey
<1>2. CASE made.ok
  <2>1. deps.refused # i
    BY <1>2, Results DEF WriteKey
  <2>2. WriteKey(c, made, i, deps) =
          Then(Require(ReadBack(c, made.value, i, deps), Of("KeyVerifyFailed", "C4")), LAMBDA t : made)
    BY <1>2, <2>1 DEF WriteKey
  <2>3. ReadBack(c, made.value, i, deps)
    <3> HIDE DEF WriteKey
    <3> QED BY <2>2, Results DEF Then, Require
  <2> QED BY <1>2, <2>3
<1> QED BY <1>1, <1>2

(* The files of a run are the keys of its indices, up to the first that failed. *)
LEMMA WrittenKeys ==
  ASSUME NEW kind, NEW c, NEW text, NEW pass, NEW deps, c.count \in Nat,
         NEW i \in DOMAIN finish_from_mnemonic(kind, c, text, pass, deps).written
  PROVE  LET out   == finish_from_mnemonic(kind, c, text, pass, deps)
             start == SeedAndPassword(text, pass, deps)
             made  == MakeKey(kind, c, start.value, i, deps)
         IN  /\ start.ok /\ i \in 1 .. c.count /\ made.ok
             /\ out.written[i] = OnDisk(made.value.entry, i, deps)
             /\ out.result.ok => ReadBack(c, made.value, i, deps)
<1> DEFINE out   == finish_from_mnemonic(kind, c, text, pass, deps)
           start == SeedAndPassword(text, pass, deps)
           key(n) == MakeKey(kind, c, start.value, n, deps)
           made  == [n \in 1 .. c.count |-> key(n)]
           done  == [n \in 1 .. c.count |-> WriteKey(c, made[n], n, deps)]
           bad   == {n \in 1 .. c.count : ~done[n].ok}
           first == Min(bad)
           final == IF bad = {} THEN c.count
                    ELSE IF made[first].ok /\ deps.refused # first THEN first ELSE first - 1
           written == [n \in 1 .. final |-> OnDisk(made[n].value.entry, n, deps)]
<1>1. /\ start.ok /\ out.written = written
      /\ out.result = IF bad = {} THEN start ELSE done[first]
  <2>1. out = IF ~start.ok THEN [written |-> <<>>, result |-> start]
              ELSE [written |-> written, result |-> IF bad = {} THEN start ELSE done[first]]
    BY Zenon DEF finish_from_mnemonic
  <2>2. i \in DOMAIN out.written
    OBVIOUS
  <2> HIDE DEF out, start, bad, written, done
  <2> QED BY <2>1, <2>2
<1>2. bad # {} => first \in bad /\ \A n \in bad : first <= n
  <2>1. bad \subseteq Nat
    OBVIOUS
  <2> HIDE DEF bad
  <2> QED BY <2>1, MinOf
<1>3. \A n \in 1 .. c.count : n \notin bad => key(n).ok /\ ReadBack(c, key(n).value, n, deps)
  <2> SUFFICES ASSUME NEW n \in 1 .. c.count, n \notin bad
               PROVE  key(n).ok /\ ReadBack(c, key(n).value, n, deps)
    OBVIOUS
  <2>1. WriteKey(c, key(n), n, deps).ok
    OBVIOUS
  <2> HIDE DEF key
  <2> QED BY <2>1, WriteKeyOk
<1>4. i \in 1 .. final
  BY <1>1
<1>5. i \in 1 .. c.count /\ made[i].ok
  <2>1. CASE bad = {}
    <3> i \in 1 .. c.count
      BY <1>4, <2>1
    <3> QED BY <1>3, <2>1, Zenon
  <2>2. CASE bad # {} /\ i = first /\ made[first].ok
    BY <1>2, <2>2
  <2>3. CASE bad # {} /\ i < first
    <3>1. i \in 1 .. c.count /\ i \notin bad
      <4> HIDE DEF bad, first
      <4>1. first \in 1 .. c.count
        BY <1>2, <2>3, Zenon DEF bad
      <4> QED BY <1>2, <1>4, <2>3, <4>1 
    <3> QED BY <1>3, <3>1
  <2>4. bad # {} => first \in Nat
    <3>1. \A n \in bad : n \in Nat
      OBVIOUS
    <3> HIDE DEF bad, first
    <3> QED BY <1>2, <3>1
  <2> QED
    <3> HIDE DEF bad, first, made
    <3> QED BY <1>4, <2>1, <2>2, <2>3, <2>4
<1>6. out.written[i] = OnDisk(key(i).value.entry, i, deps) /\ made[i] = key(i)
  BY <1>1, <1>4, <1>5, Zenon
<1>7. out.result.ok => bad = {}
  <2>1. first \in bad => ~done[first].ok
    OBVIOUS
  <2> HIDE DEF bad, first, done
  <2> QED BY <1>1, <1>2, <2>1
<1> QED
  <2> HIDE DEF key, bad, made
  <2> QED BY <1>1, <1>3, <1>5, <1>6, <1>7 DEF key

(* The configuration of an accepted run: its indices fit in 32 bits.         *)
LEMMA KeygenConfig ==
  ASSUME NEW m, NEW start, keygen_config(m, start).ok
  PROVE  LET k == keygen_config(m, start).value
         IN  /\ k.count = m["count"][1] /\ k.start_index = start
             /\ IndicesFit(start, m["count"][1])
<1> DEFINE file == m["mnemonic-passphrase-file"]
           checks == <<Check("--count", m["count"][1] # 0),
                       Check("--start-index", IndicesFit(start, m["count"][1])),
                       Check("--output-dir", OutputDirGiven(m["output-dir"])),
                       Check("--mnemonic-passphrase-file", \A i \in DOMAIN file : file[i].ok),
                       SecretFileCheck("--passphrase-file", m["passphrase-file"])>>
           config == [count |-> m["count"][1], start_index |-> start,
                      mnemonic_passphrase |-> parse_mnemonic_passphrase_form(m),
                      passphrase_file |-> m["passphrase-file"]]
<1>1. keygen_config(m, start) = Checked(checks, config)
  BY Zenon DEF keygen_config
<1>2. keygen_config(m, start).value = config /\ \A i \in DOMAIN checks : checks[i].holds
  <2> HIDE DEF checks, config
  <2> QED BY <1>1, CheckedOk
<1>3. checks[2].holds
  <2>1. 2 \in DOMAIN checks
    OBVIOUS
  <2> HIDE DEF checks
  <2> QED BY <1>2, <2>1
<1> QED BY <1>2, <1>3 DEF Check

(* The flags of a run. *)
RunFlags(kind, new) ==
  shared_args ++ (IF new THEN <<>> ELSE recover_args)
  ++ (IF kind = "validator" THEN no_verify_args ELSE <<>>)

(* Every run has the flags that decide how many keys, from where, and checked. *)
LEMMA RunFlagsAre ==
  ASSUME NEW kind \in Kinds, NEW new \in BOOLEAN
  PROVE  LET flags == RunFlags(kind, new)
         IN  /\ "count" \in DOMAIN flags /\ flags["count"] = Flag(FALSE, FALSE, <<1>>)
             /\ ~new => /\ "start-index" \in DOMAIN flags
                        /\ flags["start-index"] = Flag(FALSE, FALSE, <<0>>)
             /\ kind = "validator" => /\ "no-verify" \in DOMAIN flags
                                      /\ flags["no-verify"] = Flag(FALSE, FALSE, <<FALSE>>)
             /\ {"count", "start-index", "no-verify"} \subseteq DOMAIN KeyFlags
<1>1. {"count", "start-index", "no-verify"} \subseteq DOMAIN KeyFlags
  BY DEF KeyFlags, shared_args, recover_args, no_verify_args, :=, ++
<1>2. /\ "count" \in DOMAIN shared_args /\ shared_args["count"] = Flag(FALSE, FALSE, <<1>>)
      /\ "start-index" \notin DOMAIN shared_args /\ "no-verify" \notin DOMAIN shared_args
  BY DEF shared_args, :=, ++
<1>3. /\ DOMAIN recover_args = {"start-index"} /\ recover_args["start-index"] = Flag(FALSE, FALSE, <<0>>)
      /\ DOMAIN no_verify_args = {"no-verify"} /\ no_verify_args["no-verify"] = Flag(FALSE, FALSE, <<FALSE>>)
  BY DEF recover_args, no_verify_args, :=
<1>4. PICK g : g = IF new THEN <<>> ELSE recover_args
  OBVIOUS
<1>5. PICK h : h = IF kind = "validator" THEN no_verify_args ELSE <<>>
  OBVIOUS
<1>6. /\ "count" \notin DOMAIN g /\ "no-verify" \notin DOMAIN g
      /\ ~new => /\ "start-index" \in DOMAIN g /\ g["start-index"] = Flag(FALSE, FALSE, <<0>>)
      /\ kind = "validator" => /\ "no-verify" \in DOMAIN h /\ h["no-verify"] = Flag(FALSE, FALSE, <<FALSE>>)
  <2>1. new => g = <<>> /\ DOMAIN g = {}
    BY <1>4
  <2>2. ~new => g = recover_args
    BY <1>4
  <2>3. kind = "validator" => h = no_verify_args
    BY <1>5
  <2>4. DOMAIN g \subseteq {"start-index"}
    BY <1>3, <2>1, <2>2
  <2>5. ~new => "start-index" \in DOMAIN g /\ g["start-index"] = Flag(FALSE, FALSE, <<0>>)
    BY <1>3, <2>2
  <2>6. kind = "validator" => "no-verify" \in DOMAIN h /\ h["no-verify"] = Flag(FALSE, FALSE, <<FALSE>>)
    BY <1>3, <2>3
  <2> QED BY <2>4, <2>5, <2>6
<1>7. PICK flags : flags = (shared_args ++ g) ++ h
  OBVIOUS
<1>8. /\ DOMAIN flags = (DOMAIN shared_args \cup DOMAIN g) \cup DOMAIN h
      /\ \A f \in DOMAIN flags :
           flags[f] = IF f \in DOMAIN shared_args THEN shared_args[f]
                      ELSE IF f \in DOMAIN g THEN g[f] ELSE h[f]
  BY <1>7 DEF ++
<1>9. RunFlags(kind, new) = flags
  BY <1>4, <1>5, <1>7, Zenon DEF RunFlags
<1> QED BY <1>1, <1>2, <1>6, <1>8, <1>9

(* What a run was told, once it is accepted. *)
LEMMA RunMatched ==
  ASSUME NEW kind \in Kinds, NEW new \in BOOLEAN, NEW x, Plain(x), "without" \in DOMAIN x,
         try_get_matches(RunFlags(kind, new), Args(x, KeyFlags), <<>>).ok
  PROVE  LET v == try_get_matches(RunFlags(kind, new), Args(x, KeyFlags), <<>>).value
         IN  /\ v["count"][1] \in Nat
             /\ ~new => /\ v["start-index"][1] = IF "start-index" \in DOMAIN x THEN x["start-index"] ELSE 0
                        /\ v["start-index"][1] \in Nat
             /\ kind = "validator" /\ "no-verify" \notin DOMAIN x => v["no-verify"] = <<FALSE>>
<1> DEFINE flags == RunFlags(kind, new)
           r == try_get_matches(flags, Args(x, KeyFlags), <<>>)
           v == r.value
<1>0. r.ok
  OBVIOUS
<1> HIDE DEF flags
<1>1. ASSUME NEW f \in DOMAIN flags, f \in DOMAIN KeyFlags, NEW d, flags[f] = Flag(FALSE, FALSE, d)
      PROVE  IF f \in DOMAIN x /\ f \notin x["without"] THEN v[f] = <<x[f]>> ELSE v[f] = d
  <2>1. ~flags[f].env /\ flags[f].default = d
    BY <1>1 DEF Flag
  <2>2. IF f \in DOMAIN x /\ f \notin x["without"] THEN v[f] = <<x[f]>> ELSE v[f] = flags[f].default
    BY <1>0, <1>1, <2>1, FlagMatched
  <2> QED BY <2>1, <2>2
<1> HIDE DEF v
<1>2. "count" \in DOMAIN flags /\ "count" \in DOMAIN KeyFlags /\ flags["count"] = Flag(FALSE, FALSE, <<1>>)
  BY RunFlagsAre DEF flags
<1>3. v["count"] = <<1>> \/ (v["count"] = <<x["count"]>> /\ x["count"] \in Nat)
  BY <1>1, <1>2 DEF Plain
<1>4. ASSUME ~new
      PROVE  v["start-index"] = (IF "start-index" \in DOMAIN x THEN <<x["start-index"]>> ELSE <<0>>)
  <2>1. /\ "start-index" \in DOMAIN flags /\ "start-index" \in DOMAIN KeyFlags
        /\ flags["start-index"] = Flag(FALSE, FALSE, <<0>>)
    BY <1>4, RunFlagsAre DEF flags
  <2> QED BY <1>1, <2>1 DEF Plain
<1>5. ASSUME kind = "validator", "no-verify" \notin DOMAIN x
      PROVE  v["no-verify"] = <<FALSE>>
  <2>1. /\ "no-verify" \in DOMAIN flags /\ "no-verify" \in DOMAIN KeyFlags
        /\ flags["no-verify"] = Flag(FALSE, FALSE, <<FALSE>>)
    BY <1>5, RunFlagsAre DEF flags
  <2> QED BY <1>1, <1>5, <2>1
<1>6. v["count"][1] \in Nat
  BY <1>3
<1>7. ~new => /\ v["start-index"][1] = IF "start-index" \in DOMAIN x THEN x["start-index"] ELSE 0
              /\ v["start-index"][1] \in Nat
  BY <1>4 DEF Plain
<1>8. kind = "validator" /\ "no-verify" \notin DOMAIN x => v["no-verify"] = <<FALSE>>
  BY <1>5
<1> QED BY <1>6, <1>7, <1>8 DEF v, flags

(* The first index of a run: 0 unless a recovery names another. *)
StartOf(how, x) == IF how = "recover" /\ "start-index" \in DOMAIN x THEN x["start-index"] ELSE 0

(* A run that got as far as a mnemonic wrote what finish_from_mnemonic wrote. *)
LEMMA KeygenRun ==
  ASSUME NEW kind \in Kinds, NEW how \in Hows, NEW x, Plain(x), "without" \in DOMAIN x, NEW deps,
         keygen(kind, how = "new", Args(x, KeyFlags), deps).from.ok
  PROVE  LET out  == keygen(kind, how = "new", Args(x, KeyFlags), deps)
             text == out.from.value.text
             pass == out.from.value.pass
         IN  \E c : /\ c.count \in Nat /\ c.start_index = StartOf(how, x) /\ c.start_index \in Nat
                    /\ IndicesFit(c.start_index, c.count)
                    /\ kind = "validator" /\ "no-verify" \notin DOMAIN x => c.verify_keystore
                    /\ out.written = finish_from_mnemonic(kind, c, text, pass, deps).written
                    /\ out.result = finish_from_mnemonic(kind, c, text, pass, deps).result
<1> DEFINE new   == how = "new"
           args  == Args(x, KeyFlags)
           out   == keygen(kind, new, args, deps)
           got   == try_get_matches(RunFlags(kind, new), args, <<>>)
           m     == Usage(got)
           cfg(v) == keygen_config(v, IF new THEN 0 ELSE v["start-index"][1])
           Given(v, k) == [verify_keystore |-> kind = "validator" /\ ~v["no-verify"][1],
                           count |-> k.count, start_index |-> k.start_index,
                           mnemonic_passphrase |-> k.mnemonic_passphrase]
           c     == Then(m, LAMBDA v :
                      Then(Require(new => require_tty_for_new(deps.tty), exit2("not-a-tty")), LAMBDA t :
                        Then(Usage(cfg(v)), LAMBDA k : Success(Given(v, k)))))
           from  == Then(c, LAMBDA k : IF new THEN Fresh(k, deps) ELSE Recovered(k, deps))
           keys_ == finish_from_mnemonic(kind, c.value, from.value.text, from.value.pass, deps)
<1>1. out = IF ~from.ok THEN NoKeys(from.err)
            ELSE [from |-> from, written |-> keys_.written, result |-> keys_.result]
  BY Zenon DEF keygen, RunFlags
<1>2. from.ok /\ out = [from |-> from, written |-> keys_.written, result |-> keys_.result]
  <2>1. out.from.ok
    OBVIOUS
  <2> HIDE DEF out, from, keys_
  <2>2. ~NoKeys(from.err).from.ok
    BY Results DEF NoKeys
  <2> QED BY <1>1, <2>1, <2>2
<1>3. c.ok
  <2> HIDE DEF c
  <2> QED BY <1>2 DEF Then
<1>4. got.ok /\ m.value = got.value
  <2> HIDE DEF got
  <2>1. m.ok
    <3> HIDE DEF m
    <3> QED BY <1>3 DEF Then
  <2> QED BY <2>1, Results DEF Usage
<1> DEFINE v == got.value
<1>5. cfg(v).ok /\ c.value = Given(v, cfg(v).value)
  <2>1. m.ok /\ m.value = v
    <3> HIDE DEF got
    <3> QED BY <1>4, Results DEF Usage
  <2> DEFINE tty == Require(new => require_tty_for_new(deps.tty), exit2("not-a-tty"))
  <2>2. c = Then(tty, LAMBDA t : Then(Usage(cfg(v)), LAMBDA k : Success(Given(v, k))))
    <3> DEFINE Body(u) == Then(tty, LAMBDA t : Then(Usage(cfg(u)), LAMBDA k : Success(Given(u, k))))
    <3>1. c = Body(m.value)
      <4> HIDE DEF m, v, cfg, Given
      <4> QED BY <2>1, Zenon DEF Then
    <3>2. m.value = v
      BY <2>1
    <3>3. Body(m.value) = Body(v)
      <4> HIDE DEF Body, m, v
      <4> QED BY <3>2
    <3> HIDE DEF c, m, v, cfg, Given, tty
    <3> QED BY <3>1, <3>3
  <2> HIDE DEF c, tty
  <2>3. c = Then(Usage(cfg(v)), LAMBDA k : Success(Given(v, k)))
    <3> HIDE DEF v, cfg, Given
    <3> QED BY <1>3, <2>2 DEF Then
  <2> HIDE DEF cfg, Given, v
  <2>4. Usage(cfg(v)).ok
    BY <1>3, <2>3 DEF Then
  <2>5. c = Success(Given(v, Usage(cfg(v)).value))
    BY <2>3, <2>4 DEF Then
  <2> QED BY <2>4, <2>5, Results DEF Usage
<1>6. /\ v["count"][1] \in Nat
      /\ ~new => /\ v["start-index"][1] = IF "start-index" \in DOMAIN x THEN x["start-index"] ELSE 0
                 /\ v["start-index"][1] \in Nat
      /\ kind = "validator" /\ "no-verify" \notin DOMAIN x => v["no-verify"] = <<FALSE>>
  <2> HIDE DEF new
  <2>1. new \in BOOLEAN
    BY DEF new
  <2> QED BY <1>4, <2>1, RunMatched
<1>7. StartOf(how, x) = IF new THEN 0 ELSE v["start-index"][1]
  BY <1>6 DEF StartOf, Hows
<1>8. /\ cfg(v).value.count = v["count"][1] /\ cfg(v).value.start_index = StartOf(how, x)
      /\ IndicesFit(StartOf(how, x), v["count"][1])
  <2> HIDE DEF v
  <2> QED BY <1>5, <1>7, KeygenConfig
<1>9. PICK k : k = c.value
  OBVIOUS
<1>10. /\ k.count = v["count"][1] /\ k.start_index = StartOf(how, x)
       /\ kind = "validator" /\ "no-verify" \notin DOMAIN x => k.verify_keystore
  <2>1. k = Given(v, cfg(v).value)
    BY <1>5, <1>9
  <2>2. ASSUME kind = "validator", "no-verify" \notin DOMAIN x
        PROVE  k.verify_keystore
    <3>1. v["no-verify"] = <<FALSE>>
      BY <1>6, <2>2
    <3>2. ~v["no-verify"][1]
      <4> HIDE DEF v
      <4> QED BY <3>1
    <3> HIDE DEF v, c, cfg
    <3> QED BY <2>1, <2>2, <3>2
  <2> HIDE DEF v, c, cfg
  <2> QED BY <1>8, <2>1, <2>2
<1>11. /\ out.from = from
       /\ out.written = finish_from_mnemonic(kind, k, from.value.text, from.value.pass, deps).written
       /\ out.result = finish_from_mnemonic(kind, k, from.value.text, from.value.pass, deps).result
  <2> HIDE DEF c, from, out
  <2> QED BY <1>2, <1>9
<1>12. StartOf(how, x) \in Nat
  BY <1>6, <1>7
<1> HIDE DEF c, from, out, v
<1> QED BY <1>6, <1>8, <1>10, <1>11, <1>12 DEF out

-----------------------------------------------------------------------------
(* Keystores open. *)

(* Passphrases may be normalized once more; decryption undoes encryption.    *)
LEMMA NormalizedOnce ==
  ASSUME NEW p
  PROVE  normalize_passphrase(NFKD(p)) = normalize_passphrase(p)
BY DEF normalize_passphrase, NFKD, StripControl, Bytes

LEMMA DecryptNormalizes ==
  ASSUME NEW f, NEW p
  PROVE  decrypt(f, NFKD(p)) = decrypt(f, p)
BY NormalizedOnce DEF decrypt

(* A derivation that is not refused is the term of its inputs.               *)
LEMMA ScryptOk ==
  ASSUME NEW password, NEW salt, NEW cost, derive_scrypt(password, salt, cost).ok
  PROVE  derive_scrypt(password, salt, cost) =
           Success([password |-> password, salt |-> salt, cost |-> cost])
BY Results DEF derive_scrypt

(* A keystore opens with the password it was encrypted under.                *)
LEMMA Encrypted ==
  ASSUME NEW secret, NEW password, NEW pubkey, NEW salt, NEW iv,
         IsHex(salt), IsHex(iv), iv.len = 16,
         encrypt(secret, password, pubkey, salt, iv, STANDARD).ok
  PROVE  LET f == encrypt(secret, password, pubkey, salt, iv, STANDARD).value
         IN  /\ decrypt(f, password) = Success(secret)
             /\ f.pubkey = [key |-> pubkey, form |-> "bare"]
<1> DEFINE dk == [password |-> normalize_passphrase(password), salt |-> salt, cost |-> STANDARD]
           r  == derive_scrypt(normalize_passphrase(password), salt, STANDARD)
           ct == [under |-> dk, iv |-> iv, secret |-> secret]
           f  == [version |-> 4, pubkey |-> [key |-> pubkey, form |-> "bare"], crypto |-> "object",
                  kdf |-> "scrypt", cost |-> STANDARD, prf |-> "none", salt |-> salt,
                  checksumFn |-> "sha256", checksum |-> checksum_message(dk, ct),
                  cipherFn |-> "aes-128-ctr", cipher |-> ct, iv |-> iv]
<1>1. r.ok
  BY Results DEF encrypt
<1>2. r = Success(dk)
  BY <1>1, ScryptOk
<1>3. encrypt(secret, password, pubkey, salt, iv, STANDARD).value = f
  <2>1. encrypt(secret, password, pubkey, salt, iv, STANDARD) = Success(f)
    <3>1. ~(secret.len # 32 \/ ~r.ok)
      BY Results DEF encrypt
    <3>2. encrypt(secret, password, pubkey, salt, iv, STANDARD) =
            LET c == Encipher(r.value, iv, secret)
            IN  Success(
                 [version |-> 4, pubkey |-> [key |-> pubkey, form |-> "bare"], crypto |-> "object",
                  kdf |-> "scrypt", cost |-> STANDARD, prf |-> "none", salt |-> salt,
                  checksumFn |-> "sha256", checksum |-> checksum_message(r.value, c),
                  cipherFn |-> "aes-128-ctr", cipher |-> c, iv |-> iv])
      BY <3>1, Zenon DEF encrypt
    <3>3. r.value = dk
      BY <1>2, Results
    <3> HIDE DEF r, dk
    <3> QED BY <3>2, <3>3 DEF Encipher
  <2> HIDE DEF f
  <2> QED BY <2>1, Results
<1>4. derive_key(f, normalize_passphrase(password)) = Success(dk)
  <2>1. f.kdf = "scrypt" /\ f.salt = salt /\ f.cost = STANDARD
    OBVIOUS
  <2> HIDE DEF f, dk
  <2> QED BY <1>2, <2>1 DEF derive_key
<1>5. decrypt(f, password) = Success(Decipher(dk, f.iv, f.cipher))
  <2>1. /\ f.crypto = "object" /\ f.cipher = ct /\ f.checksumFn = "sha256"
        /\ f.checksum = checksum_message(dk, f.cipher) /\ f.cipherFn = "aes-128-ctr" /\ f.iv = iv
    OBVIOUS
  <2>2. IsHex(ct) /\ IsHex(checksum_message(dk, ct))
    <3>1. \A v : DOMAIN v # {"hex"} => IsHex(v)
      BY DEF IsHex, BadHex
    <3>2. DOMAIN ct = {"under", "iv", "secret"}
      <4> HIDE DEF dk
      <4> QED OBVIOUS
    <3>3. DOMAIN checksum_message(dk, ct) = {"sha256", "of"}
      <4> HIDE DEF dk, ct
      <4> QED BY DEF checksum_message
    <3> HIDE DEF ct
    <3> QED BY <3>1, <3>2, <3>3
  <2>3. dk.cost.dklen = 32
    BY DEF STANDARD
  <2> HIDE DEF f, dk, ct
  <2> QED BY <1>4, <2>1, <2>2, <2>3, Results DEF decrypt
<1>6. Decipher(dk, f.iv, f.cipher) = secret
  <2>1. f.iv = iv /\ f.cipher = ct
    OBVIOUS
  <2>2. ct.under = dk /\ ct.iv = iv /\ ct.secret = secret
    OBVIOUS
  <2> HIDE DEF f, dk, ct
  <2> QED BY <2>1, <2>2 DEF Decipher
<1>7. f.pubkey = [key |-> pubkey, form |-> "bare"]
  OBVIOUS
<1> HIDE DEF f
<1> QED BY <1>3, <1>5, <1>6, <1>7

(* So does an account's, whose password is taken as it is.                   *)
LEMMA EncryptedV3 ==
  ASSUME NEW secret, NEW password, NEW address, NEW salt, NEW iv,
         IsHex(salt), IsHex(iv), iv.len = 16,
         encrypt_v3(secret, password, address, salt, iv, STANDARD).ok
  PROVE  LET f == encrypt_v3(secret, password, address, salt, iv, STANDARD).value
         IN  decrypt_v3(f, password) = Success(secret) /\ f.address = address
<1> DEFINE dk == [password |-> password, salt |-> salt, cost |-> STANDARD]
           r  == derive_scrypt(password, salt, STANDARD)
           ct == [under |-> dk, iv |-> iv, secret |-> secret]
           f  == [version |-> 3, address |-> address, kdf |-> "scrypt", cost |-> STANDARD,
                  salt |-> salt, mac |-> v3_mac(dk, ct),
                  cipherFn |-> "aes-128-ctr", cipher |-> ct, iv |-> iv]
<1>1. r.ok
  BY Results DEF encrypt_v3
<1>2. r = Success(dk)
  BY <1>1, ScryptOk
<1>3. encrypt_v3(secret, password, address, salt, iv, STANDARD).value = f
  <2>1. encrypt_v3(secret, password, address, salt, iv, STANDARD) = Success(f)
    <3>1. ~(secret.len # 32 \/ ~r.ok)
      BY Results DEF encrypt_v3
    <3>2. encrypt_v3(secret, password, address, salt, iv, STANDARD) =
            LET c == Encipher(r.value, iv, secret)
            IN  Success(
                 [version |-> 3, address |-> address, kdf |-> "scrypt", cost |-> STANDARD,
                  salt |-> salt, mac |-> v3_mac(r.value, c),
                  cipherFn |-> "aes-128-ctr", cipher |-> c, iv |-> iv])
      BY <3>1, Zenon DEF encrypt_v3
    <3>3. r.value = dk
      BY <1>2, Results
    <3> HIDE DEF r, dk
    <3> QED BY <3>2, <3>3 DEF Encipher
  <2> HIDE DEF f
  <2> QED BY <2>1, Results
<1>4. decrypt_v3(f, password) = Success(Decipher(dk, f.iv, f.cipher))
  <2>1. /\ f.version = 3 /\ f.kdf = "scrypt" /\ f.salt = salt /\ f.cost = STANDARD /\ f.cipher = ct
        /\ f.mac = v3_mac(dk, f.cipher) /\ f.cipherFn = "aes-128-ctr" /\ f.iv = iv
    OBVIOUS
  <2>2. IsHex(ct) /\ IsHex(v3_mac(dk, ct))
    <3>1. \A v : DOMAIN v # {"hex"} => IsHex(v)
      BY DEF IsHex, BadHex
    <3>2. DOMAIN ct = {"under", "iv", "secret"}
      <4> HIDE DEF dk
      <4> QED OBVIOUS
    <3>3. DOMAIN v3_mac(dk, ct) = {"keccak", "of"}
      <4> HIDE DEF dk, ct
      <4> QED BY DEF v3_mac
    <3> HIDE DEF ct
    <3> QED BY <3>1, <3>2, <3>3
  <2> HIDE DEF f, dk, ct
  <2> QED BY <1>2, <2>1, <2>2, Results DEF decrypt_v3
<1>5. Decipher(dk, f.iv, f.cipher) = secret
  <2>1. f.iv = iv /\ f.cipher = ct
    OBVIOUS
  <2>2. ct.under = dk /\ ct.iv = iv /\ ct.secret = secret
    OBVIOUS
  <2> HIDE DEF f, dk, ct
  <2> QED BY <2>1, <2>2 DEF Decipher
<1>6. f.address = address
  OBVIOUS
<1> HIDE DEF f
<1> QED BY <1>3, <1>4, <1>5, <1>6

(* What was read back opens, and has the key that was made. *)
LEMMA LoadedBack ==
  ASSUME NEW e, NEW password, NEW made,
         verify_written_keystore(load(e, Success(password)), made)
  PROVE  decrypt(e.body, password) = Success(made.secret) /\ e.body.pubkey.key = made.public
<1> DEFINE back == load(e, Success(password))
           secret == decrypt(e.body, password)
<1>1. back.ok /\ back.value.secret = made.secret
      /\ back.value.pubkey = [key |-> made.public, form |-> "bare"]
  BY DEF verify_written_keystore
<1>2. secret.ok /\ back = Success([secret |-> secret.value, pubkey |-> normalize_pubkey(e.body.pubkey)])
  <2> HIDE DEF secret
  <2>1. back.ok => secret.ok /\ back = Success([secret |-> secret.value, pubkey |-> normalize_pubkey(e.body.pubkey)])
    BY Results DEF load, secret
  <2> QED BY <1>1, <2>1
<1>3. secret = Success(secret.value)
  BY <1>2 DEF decrypt, Success, Failure
<1>4. normalize_pubkey(e.body.pubkey).key = made.public
  BY <1>1, <1>2, Results
<1>5. normalize_pubkey(e.body.pubkey).key = e.body.pubkey.key
  BY DEF normalize_pubkey
<1>6. secret.value = made.secret
  <2> HIDE DEF secret, back
  <2> QED BY <1>1, <1>2, Results
<1> HIDE DEF secret, back
<1> QED BY <1>3, <1>4, <1>5, <1>6 DEF secret

(* The bytes a run draws have a hexadecimal text.                            *)
LEMMA FreshIsHex ==
  ASSUME NEW n, NEW run
  PROVE  IsHex([n |-> n, run |-> run]) /\ IsHex([len |-> 16, n |-> n, run |-> run])
<1>1. \A v : DOMAIN v # {"hex"} => IsHex(v)
  BY DEF IsHex, BadHex
<1>2. DOMAIN [n |-> n, run |-> run] = {"n", "run"}
  OBVIOUS
<1>3. DOMAIN [len |-> 16, n |-> n, run |-> run] = {"len", "n", "run"}
  OBVIOUS
<1>4. {"n", "run"} # {"hex"} /\ {"len", "n", "run"} # {"hex"}
  OBVIOUS
<1> QED BY <1>1, <1>2, <1>3, <1>4

(* A keystore that was made opens, to the key of its index.                  *)
LEMMA ValidatorMade ==
  ASSUME NEW seed, NEW password, NEW index, NEW deps,
         ValidatorKeystore(seed, password, index, deps).ok
  PROVE  LET v  == ValidatorKeystore(seed, password, index, deps).value
             sk == derive_path(seed, signing(index))
         IN  /\ v.secret = sk /\ v.public = PublicKey(sk)
             /\ v.entry.body.pubkey.key = PublicKey(sk)
             /\ decrypt(v.entry.body, password) = Success(sk)
<1> DEFINE sk   == derive_path(seed, signing(index))
           pk   == PublicKey(sk)
           salt == [n |-> index, run |-> deps.run]
           iv   == [len |-> 16, n |-> index, run |-> deps.run]
           file == encrypt(sk, password, pk, salt, iv, STANDARD)
           entry == Listed([path |-> signing(index)], file.value)
           made == ValidatorKeystore(seed, password, index, deps)
<1>1. file.ok /\ made = Success([entry |-> entry, secret |-> sk, public |-> pk])
  <2>1. verify_derived_key(sk, pk)
    BY Results DEF ValidatorKeystore
  <2>2. made = Then(As("Keystore", file), LAMBDA f :
                 Success([entry |-> Listed([path |-> signing(index)], f), secret |-> sk, public |-> pk]))
    BY <2>1, Zenon DEF ValidatorKeystore
  <2>3. made.ok
    OBVIOUS
  <2> HIDE DEF made, file, sk, pk
  <2> QED BY <2>2, <2>3, Results DEF Then, As
<1>2. IsHex(salt) /\ IsHex(iv) /\ iv.len = 16
  BY FreshIsHex
<1>3. decrypt(file.value, password) = Success(sk) /\ file.value.pubkey = [key |-> pk, form |-> "bare"]
  <2> HIDE DEF sk, pk, salt, iv
  <2> QED BY <1>1, <1>2, Encrypted
<1>4. entry.body = file.value
  BY DEF Listed
<1>5. made.value.entry = entry /\ made.value.secret = sk /\ made.value.public = pk
  <2> HIDE DEF entry, sk, pk, made
  <2> QED BY <1>1, Results
<1> HIDE DEF file, entry, sk, pk, made
<1> QED BY <1>3, <1>4, <1>5 DEF sk, pk, made

(* The same of an account, whose key exists.                                 *)
LEMMA AccountMade ==
  ASSUME NEW seed, NEW password, NEW index, NEW deps,
         AccountKeystore(seed, password, index, deps).ok
  PROVE  LET v     == AccountKeystore(seed, password, index, deps).value
             child == DeriveAccount(seed, eoa(index))
         IN  /\ child.ok
             /\ v.entry.body.address = pubkey_address(child.value.k)
             /\ decrypt_v3(v.entry.body, password) = Success(Scalar(child.value.k))
<1> DEFINE child == DeriveAccount(seed, eoa(index))
           key  == Scalar(child.value.k)
           addr == secret_to_address(child.value.k)
           salt == [n |-> index, run |-> deps.run]
           iv   == [len |-> 16, n |-> index, run |-> deps.run]
           file == encrypt_v3(key, password, addr, salt, iv, STANDARD)
           entry == Listed([utc |-> v3_filename(addr, deps.now, 0)], file.value)
           made == AccountKeystore(seed, password, index, deps)
<1>1. /\ child.ok
      /\ file.ok /\ made = Success([entry |-> entry, secret |-> key, public |-> addr])
  <2>1. child.ok
    <3> HIDE DEF child
    <3> QED BY Results DEF AccountKeystore, Then, As, child
  <2>2. made = Then(As("Keystore", file), LAMBDA f :
                 Success([entry |-> Listed([utc |-> v3_filename(addr, deps.now, 0)], f),
                          secret |-> key, public |-> addr]))
    <3> HIDE DEF child
    <3> QED BY <2>1, Zenon DEF AccountKeystore, Then, As, child
  <2>3. made.ok
    OBVIOUS
  <2> HIDE DEF made, file, child, key, addr
  <2> QED BY <2>1, <2>2, <2>3, Results, Zenon DEF Then, As
<1>2. IsHex(salt) /\ IsHex(iv) /\ iv.len = 16
  BY FreshIsHex
<1>3. decrypt_v3(file.value, password) = Success(key) /\ file.value.address = addr
  <2> HIDE DEF key, addr, salt, iv
  <2> QED BY <1>1, <1>2, EncryptedV3
<1>4. entry.body = file.value
  BY DEF Listed
<1>5. made.value.entry = entry
  <2> HIDE DEF entry, key, addr, made
  <2> QED BY <1>1, Results
<1>6. addr = pubkey_address(child.value.k)
  BY DEF secret_to_address
<1> HIDE DEF file, entry, child, key, addr, made
<1> QED BY <1>1, <1>3, <1>4, <1>5, <1>6 DEF child, key, made

(* The seed and the password a run goes by.                                  *)
LEMMA SeedMade ==
  ASSUME NEW text, NEW pass, NEW deps, SeedAndPassword(text, pass, deps).ok
  PROVE  SeedAndPassword(text, pass, deps).value =
           [seed |-> [words |-> normalize_mnemonic(text), salt |-> NFKD(pass)],
            password |-> deps.keystore_pw.value]
<1> DEFINE password == As("Keystore", deps.keystore_pw)
           seed == As("Bip39", to_seed(text, pass))
           both == SeedAndPassword(text, pass, deps)
<1>1. both = Then(password, LAMBDA p : Then(seed, LAMBDA s : Success([seed |-> s, password |-> p])))
  BY Zenon DEF SeedAndPassword
<1>2. password.ok
  <2> HIDE DEF password, seed
  <2> QED BY <1>1 DEF Then
<1>3. seed.ok
  <2> HIDE DEF password, seed
  <2> QED BY <1>1, <1>2 DEF Then
<1>4. both = Success([seed |-> seed.value, password |-> password.value])
  <2> HIDE DEF password, seed
  <2> QED BY <1>1, <1>2, <1>3 DEF Then
<1>5. password.value = deps.keystore_pw.value
  BY <1>2, Results DEF As
<1>6. seed.value = [words |-> normalize_mnemonic(text), salt |-> NFKD(pass)]
  BY <1>3, Results DEF As, to_seed
<1> HIDE DEF password, seed, both
<1> QED BY <1>4, <1>5, <1>6, Results DEF both

(* Damage of the disk leaves the name of a key as it is. *)
LEMMA DamagedPublic ==
  ASSUME NEW kind, NEW e, NEW i, NEW deps
  PROVE  Public(kind, OnDisk(e, i, deps)) = Public(kind, e)
BY DEF Public, OnDisk

(* The name of the key with an index, and what KeystoresOpenForOwner asks   *)
(* of one file.                                                              *)
KeyAt(k, seed, n) ==
  IF k = "validator" THEN PublicKey(derive_path(seed, signing(n)))
  ELSE pubkey_address(DeriveAccount(seed, eoa(n)).value.k)

Opens(k, e, pw) ==
  LET opened == IF k = "validator" THEN decrypt(e.body, NFKD(pw)) ELSE decrypt_v3(e.body, pw)
  IN  /\ opened.ok
      /\ Public(k, e) = IF k = "validator" THEN PublicKey(opened.value) ELSE pubkey_address(opened.value.key)

(* A file that a run left: its key is that of the seed and its index, and   *)
(* it opens if nothing damaged it or it was read back.                      *)
WrittenWell(k, run, i) ==
  LET n == run.start + i - 1
  IN  /\ i \in Nat \ {0} /\ n \in Nat /\ n < U32
      /\ k = "account" => DeriveAccount(Seed(run.from), eoa(n)).ok
      /\ Public(k, run.written[i]) = KeyAt(k, Seed(run.from), n)
      /\ (run.sound \/ (run.checked /\ run.whole)) => Opens(k, run.written[i], run.pw)

(* The files of one run. *)
RunInv(k, run) == run.start \in Nat /\ \A i \in DOMAIN run.written : WrittenWell(k, run, i)

(* Either kind: the file of an index holds its key and opens.                *)
LEMMA MadeWell ==
  ASSUME NEW kind \in Kinds, NEW c, NEW start, NEW i, NEW deps, MakeKey(kind, c, start, i, deps).ok
  PROVE  LET e == MakeKey(kind, c, start, i, deps).value.entry
             n == c.start_index + i - 1
         IN  /\ kind = "account" => DeriveAccount(start.seed, eoa(n)).ok
             /\ Public(kind, e) = KeyAt(kind, start.seed, n)
             /\ Opens(kind, e, start.password)
<1> DEFINE n == c.start_index + i - 1
           made == MakeKey(kind, c, start, i, deps)
           e == made.value.entry
<1>1. CASE kind = "validator"
  <2>1. made = ValidatorKeystore(start.seed, start.password, n, deps)
    BY <1>1 DEF MakeKey
  <2> DEFINE sk == derive_path(start.seed, signing(n))
  <2>2. e.body.pubkey.key = PublicKey(sk) /\ decrypt(e.body, start.password) = Success(sk)
    <3> HIDE DEF made
    <3>1. made.ok
      BY DEF made
    <3> HIDE DEF n
    <3> QED BY <2>1, <3>1, ValidatorMade
  <2>3. decrypt(e.body, NFKD(start.password)) = Success(sk)
    <3> HIDE DEF e, sk
    <3> QED BY <2>2, DecryptNormalizes
  <2> HIDE DEF e, sk, n
  <2>4. Public(kind, e) = KeyAt(kind, start.seed, n)
    BY <1>1, <2>2 DEF Public, KeyAt, sk
  <2>5. Opens(kind, e, start.password)
    BY <1>1, <2>2, <2>3, Results DEF Public, Opens
  <2> QED BY <1>1, <2>4, <2>5 DEF e, n
<1>2. CASE kind = "account"
  <2>1. made = AccountKeystore(start.seed, start.password, n, deps)
    BY <1>2 DEF MakeKey
  <2> DEFINE child == DeriveAccount(start.seed, eoa(n))
  <2>2. child.ok /\ e.body.address = pubkey_address(child.value.k)
        /\ decrypt_v3(e.body, start.password) = Success(Scalar(child.value.k))
    <3> HIDE DEF made
    <3>1. made.ok
      BY DEF made
    <3> HIDE DEF n
    <3> QED BY <2>1, <3>1, AccountMade
  <2>3. Scalar(child.value.k).key = child.value.k
    BY DEF Scalar
  <2> HIDE DEF e, n
  <2>4. Public(kind, e) = KeyAt(kind, start.seed, n)
    BY <1>2, <2>2 DEF Public, KeyAt
  <2> HIDE DEF child
  <2>5. Opens(kind, e, start.password)
    BY <1>2, <2>2, <2>3, Results DEF Public, Opens
  <2> QED BY <1>2, <2>2, <2>4, <2>5 DEF e, n, child
<1> QED BY <1>1, <1>2 DEF Kinds

(* A file that was read back opens, whatever the disk did to it before.      *)
LEMMA ReadBackOpens ==
  ASSUME NEW c, NEW seed, NEW password, NEW i, NEW deps, deps.keystore_pw.value = password,
         NEW start, start.seed = seed, start.password = password,
         MakeKey("validator", c, start, i, deps).ok, c.verify_keystore,
         ReadBack(c, MakeKey("validator", c, start, i, deps).value, i, deps)
  PROVE  Opens("validator", OnDisk(MakeKey("validator", c, start, i, deps).value.entry, i, deps), password)
<1> DEFINE made == MakeKey("validator", c, start, i, deps).value
           e == OnDisk(made.entry, i, deps)
           n == c.start_index + i - 1
           sk == derive_path(seed, signing(n))
<1>1. decrypt(e.body, password) = Success(made.secret) /\ e.body.pubkey.key = made.public
  <2>1. verify_written_keystore(load(e, Success(password)), made)
    BY DEF ReadBack
  <2> HIDE DEF e, made
  <2> QED BY <2>1, LoadedBack
<1>2. made.secret = sk /\ made.public = PublicKey(sk)
  <2>1. MakeKey("validator", c, start, i, deps) = ValidatorKeystore(seed, password, n, deps)
    BY DEF MakeKey
  <2>2. ValidatorKeystore(seed, password, n, deps).ok
    BY <2>1
  <2> HIDE DEF n
  <2> QED BY <2>1, <2>2, ValidatorMade
<1>3. decrypt(e.body, NFKD(password)) = Success(made.secret)
  <2> HIDE DEF e, made
  <2> QED BY <1>1, DecryptNormalizes
<1> HIDE DEF e, made, sk
<1>4. Opens("validator", e, password)
  BY <1>1, <1>2, <1>3, Results DEF Opens, Public
<1> QED BY <1>4 DEF e, made

(* Inductive: every file of each kept run is well written.  What is compared *)
(* by RecoveryReproduces and KeystoresOpenForOwner follows from it alone.    *)
KeysInv ==
  /\ DOMAIN keys = Kinds
  /\ \A k \in Kinds :
       /\ DOMAIN keys[k] = Hows
       /\ \A h \in Hows : keys[k][h] # None => RunInv(k, keys[k][h][1])

(* The files of a run, and what it was. *)
LEMMA RunWell ==
  ASSUME NEW kind \in Kinds, NEW how \in Hows, NEW x, Plain(x), "without" \in DOMAIN x, NEW deps,
         deps.keystore_pw = x["pw"], deps.damaged = x["damaged"],
         keygen(kind, how = "new", Args(x, KeyFlags), deps).from.ok, NEW run,
         LET out == keygen(kind, how = "new", Args(x, KeyFlags), deps)
         IN  /\ run.from = [words |-> normalize_mnemonic(out.from.value.text), pass |-> out.from.value.pass]
             /\ run.pw = x["pw"].value /\ run.start = StartOf(how, x) /\ run.whole = out.result.ok
             /\ run.checked => kind = "validator" /\ "no-verify" \notin DOMAIN x
             /\ run.sound => x["damaged"] = 0
             /\ run.written = out.written
  PROVE  RunInv(kind, run)
<1> DEFINE out  == keygen(kind, how = "new", Args(x, KeyFlags), deps)
           text == out.from.value.text
           pass == out.from.value.pass
<1>1. PICK c : /\ c.count \in Nat /\ c.start_index = StartOf(how, x) /\ c.start_index \in Nat
               /\ IndicesFit(c.start_index, c.count)
               /\ kind = "validator" /\ "no-verify" \notin DOMAIN x => c.verify_keystore
               /\ out.written = finish_from_mnemonic(kind, c, text, pass, deps).written
               /\ out.result = finish_from_mnemonic(kind, c, text, pass, deps).result
  BY KeygenRun
<1>2. /\ run.from = [words |-> normalize_mnemonic(text), pass |-> pass]
      /\ run.pw = x["pw"].value /\ run.start = c.start_index /\ run.whole = out.result.ok
      /\ run.checked => kind = "validator" /\ c.verify_keystore
      /\ run.sound => deps.damaged = 0
      /\ run.written = out.written
  BY <1>1
<1> HIDE DEF out
<1>3. ASSUME NEW i \in DOMAIN run.written
      PROVE  WrittenWell(kind, run, i)
  <2> DEFINE done  == finish_from_mnemonic(kind, c, text, pass, deps)
             start == SeedAndPassword(text, pass, deps)
             made  == MakeKey(kind, c, start.value, i, deps)
             n     == run.start + i - 1
             e     == OnDisk(made.value.entry, i, deps)
  <2>1. i \in DOMAIN done.written
    BY <1>1, <1>2, <1>3
  <2>2. /\ start.ok /\ i \in 1 .. c.count /\ made.ok
        /\ done.written[i] = OnDisk(made.value.entry, i, deps)
        /\ done.result.ok => ReadBack(c, made.value, i, deps)
    <3> HIDE DEF text, pass
    <3> QED BY <1>1, <2>1, WrittenKeys
  <2>3. start.value = [seed |-> Seed(run.from), password |-> run.pw]
    <3>1. Seed(run.from) = [words |-> normalize_mnemonic(text), salt |-> NFKD(pass)]
      <4> HIDE DEF text, pass
      <4> QED BY <1>2 DEF Seed
    <3> HIDE DEF text, pass
    <3> QED BY <1>2, <2>2, <3>1, SeedMade
  <2>4. i \in Nat \ {0} /\ n \in Nat /\ n < U32
    <3>1. U32 \in Nat
      BY KeyPathsAssumption, FlagsAssumption
    <3> HIDE DEF start, made
    <3> QED BY <1>1, <1>2, <2>2, <3>1 DEF IndicesFit
  <2>5. c.start_index + i - 1 = n
    BY <1>2
  <2>6. /\ kind = "account" => DeriveAccount(Seed(run.from), eoa(n)).ok
        /\ Public(kind, made.value.entry) = KeyAt(kind, Seed(run.from), n)
        /\ Opens(kind, made.value.entry, run.pw)
    <3>1. start.value.seed = Seed(run.from) /\ start.value.password = run.pw
      <4> HIDE DEF start
      <4> QED BY <2>3
    <3>2. LET f == made.value.entry
          IN  /\ kind = "account" => DeriveAccount(start.value.seed, eoa(c.start_index + i - 1)).ok
              /\ Public(kind, f) = KeyAt(kind, start.value.seed, c.start_index + i - 1)
              /\ Opens(kind, f, start.value.password)
      <4> HIDE DEF start
      <4> QED BY <2>2, MadeWell
    <3> HIDE DEF start, made, n
    <3> QED BY <2>5, <3>1, <3>2
  <2>7. Public(kind, e) = KeyAt(kind, Seed(run.from), n)
    <3> HIDE DEF made, n
    <3> QED BY <2>6, DamagedPublic
  <2>8. run.sound => Opens(kind, e, run.pw)
    <3>1. run.sound => e = made.value.entry
      <4> HIDE DEF made
      <4> QED BY <1>2, <2>4 DEF OnDisk
    <3> HIDE DEF made, e, n
    <3> QED BY <2>6, <3>1
  <2>9. ASSUME run.checked, run.whole
        PROVE  Opens(kind, e, run.pw)
    <3>1. kind = "validator" /\ c.verify_keystore /\ ReadBack(c, made.value, i, deps)
      <4> HIDE DEF made
      <4> QED BY <1>1, <1>2, <2>2, <2>9
    <3>2. PICK s : s = start.value
      OBVIOUS
    <3>3. s.seed = Seed(run.from) /\ s.password = run.pw
      <4> HIDE DEF start
      <4> QED BY <2>3, <3>2
    <3>4. made = MakeKey("validator", c, s, i, deps)
      BY <3>1, <3>2
    <3>5. deps.keystore_pw.value = run.pw
      BY <1>2
    <3> HIDE DEF made
    <3> QED BY <2>2, <3>1, <3>3, <3>4, <3>5, ReadBackOpens
  <2>10. run.written[i] = e
    <3> HIDE DEF text, pass
    <3> QED BY <1>1, <1>2, <2>2
  <2> HIDE DEF e, n, made
  <2>11. WrittenWell(kind, run, i)
    <3>1. \/ kind # "account"
          \/ DeriveAccount(Seed(run.from), eoa(n)).ok
      BY <2>6
    <3> QED BY <2>4, <2>7, <2>8, <2>9, <2>10, <3>1 DEF WrittenWell, n
  <2> QED BY <2>11
<1>4. run.start \in Nat
  BY <1>1, <1>2
<1> QED BY <1>3, <1>4 DEF RunInv

(* Every run of a keygen command keeps the invariant.                        *)
LEMMA KeygenStep ==
  ASSUME NEW kind \in Kinds, NEW how \in Hows, NEW words, NEW x, Plain(x), "without" \in DOMAIN x,
         KeysInv, Keygen(kind, how, words, x)
  PROVE  KeysInv'
<1> DEFINE deps == [entropy |-> x["entropy"], typed |-> Retyped(words, x["typed"]), tty |-> x["tty"],
                    asked |-> IF "asked" \in DOMAIN x THEN x["asked"] ELSE <<>>, keystore_pw |-> x["pw"],
                    refused |-> x["refused"], damaged |-> x["damaged"], run |-> x["run"], now |-> 0]
           out == keygen(kind, how = "new", Args(x, KeyFlags), deps)
           run == [from |-> [words |-> normalize_mnemonic(out.from.value.text), pass |-> out.from.value.pass],
                   pw |-> x["pw"].value, start |-> StartOf(how, x), whole |-> out.result.ok,
                   checked |-> kind = "validator" /\ "no-verify" \notin DOMAIN x,
                   sound |-> x["damaged"] = 0, written |-> out.written]
<1>1. keys' = IF ~out.from.ok \/ ~x["pw"].ok THEN keys ELSE [keys EXCEPT ![kind][how] = <<run>>]
  BY DEF Keygen, StartOf
<1>2. CASE keys' = keys
  BY <1>2 DEF KeysInv
<1>3. CASE out.from.ok /\ keys' = [keys EXCEPT ![kind][how] = <<run>>]
  <2>1. deps.keystore_pw = x["pw"] /\ deps.damaged = x["damaged"]
    OBVIOUS
  <2>2. RunInv(kind, run)
    <3>1. /\ run.from = [words |-> normalize_mnemonic(out.from.value.text), pass |-> out.from.value.pass]
          /\ run.pw = x["pw"].value /\ run.start = StartOf(how, x) /\ run.whole = out.result.ok
          /\ run.checked => kind = "validator" /\ "no-verify" \notin DOMAIN x
          /\ run.sound => x["damaged"] = 0
          /\ run.written = out.written
      <4> HIDE DEF out
      <4> QED OBVIOUS
    <3> HIDE DEF deps, run
    <3> QED BY <1>3, <2>1, <3>1, RunWell
  <2> HIDE DEF run
  <2>3. <<run>>[1] = run
    OBVIOUS
  <2> QED BY <1>3, <2>2, <2>3 DEF KeysInv
<1> QED
  <2> HIDE DEF out, run
  <2> QED BY <1>1, <1>2, <1>3

(* No other action changes keys.                                             *)
LEMMA KeysKept ==
  ASSUME Next
  PROVE  (\E k \in Kinds : KeygenNew(k) \/ KeygenRecover(k)) \/ UNCHANGED keys
<1>1. CASE DepositGen
  BY <1>1 DEF DepositGen, With
<1>2. CASE DepositBuild
  BY <1>2 DEF DepositBuild, With
<1>3. CASE TxSign
  BY <1>3 DEF TxSign, With
<1>4. CASE TxRun
  BY <1>4 DEF TxRun, With
<1>5. CASE TxSend
  BY <1>5 DEF TxSend, With
<1>6. CASE Edit
  BY <1>6 DEF Edit, EditDeposit, EditUnsigned, EditSigned, EditKeystore
<1>7. CASE Drift \/ Mine
  BY <1>7 DEF Drift, Mine
<1> QED BY <1>1, <1>2, <1>3, <1>4, <1>5, <1>6, <1>7 DEF Next

(* What KeygenNew and KeygenRecover put together is plain.                   *)
LEMMA UsualPlain ==
  ASSUME NEW how, NEW g, Plain(g), NEW wish, Plain(wish), NEW o, Plain(o), NEW v, NEW x,
         x \in {o ++ (wish ++ (KeygenUsual(how) ++ ("entropy" := v))),
                o ++ (KeygenUsual(how) ++ ("entropy" := v) ++ g)}
  PROVE  Plain(x) /\ "without" \in DOMAIN x
<1>1. "without" \in DOMAIN KeygenUsual(how)
  <2>1. "without" \in DOMAIN NoFlags
    BY DEF NoFlags, :=, ++
  <2>2. \A f, h : "without" \in DOMAIN f => "without" \in DOMAIN (f ++ h)
    BY DEF ++
  <2> QED BY <2>1, <2>2 DEF KeygenUsual
<1>2. "without" \in DOMAIN x
  BY <1>1 DEF ++
<1>3. Plain(KeygenUsual(how)) /\ Plain("entropy" := v)
  BY KeygenInputs, PlainInputs
<1>4. Plain(x)
  BY <1>3, PlainInputs
<1> QED BY <1>2, <1>4

(* The two actions that make keys.                                           *)
LEMMA KeygenNewStep ==
  ASSUME KeysInv, NEW kind \in Kinds, KeygenNew(kind)
  PROVE  KeysInv'
<1> DEFINE entropy == CHOOSE e \in Drawn : TRUE
           usual == KeygenUsual("new") ++ ("entropy" := entropy)
<1>1. PICK wish \in Wishes, o \in {<<>>} \cup KeygenOthers(Drawn) :
        \E words : Keygen(kind, "new", words, o ++ (wish ++ usual))
  BY DEF KeygenNew, With
<1>2. PICK x : x = o ++ (wish ++ usual)
  OBVIOUS
<1>3. Plain(o) /\ Plain(wish)
  BY KeygenInputs
<1>4. Plain(x) /\ "without" \in DOMAIN x
  <2> HIDE DEF entropy
  <2>1. Plain(<<>>)
    BY PlainInputs
  <2> QED BY <1>2, <1>3, <2>1, UsualPlain
<1>5. (\E words : Keygen(kind, "new", words, x)) /\ "new" \in Hows
  BY <1>1, <1>2 DEF Hows
<1> QED BY <1>4, <1>5, KeygenStep

LEMMA KeygenRecoverStep ==
  ASSUME KeysInv, NEW kind \in Kinds, KeygenRecover(kind)
  PROVE  KeysInv'
<1> DEFINE flag == PassphraseFlag(Paper(kind).pass)
           usual == KeygenUsual("recover") ++ ("entropy" := <<>>) ++ flag
<1>1. PICK o \in {<<>>} \cup KeygenOthers({}) : Keygen(kind, "recover", Paper(kind).words, o ++ usual)
  BY DEF KeygenRecover, With
<1>2. PICK x : x = o ++ usual
  OBVIOUS
<1>3. Plain(o)
  BY KeygenInputs
<1>4. Plain(flag)
  BY PlainInputs DEF PassphraseFlag
<1>5. Plain(x) /\ "without" \in DOMAIN x
  <2> HIDE DEF flag
  <2> QED BY <1>2, <1>3, <1>4, UsualPlain
<1>6. Keygen(kind, "recover", Paper(kind).words, x) /\ "recover" \in Hows
  BY <1>1, <1>2 DEF Hows
<1> QED BY <1>5, <1>6, KeygenStep

(* Every file of every run is the key of its seed and index, and opens with  *)
(* the run's password if it was read back or nothing damaged it: what the    *)
(* keygen commands of validator_cmd.rs and account_cmd.rs leave behind.      *)
THEOREM KeysWell == Spec => []KeysInv
<1>1. Init => KeysInv
  BY DEF Init, KeysInv, None
<1>2. KeysInv /\ [Next]_vars => KeysInv'
  <2> SUFFICES ASSUME KeysInv, [Next]_vars PROVE KeysInv'
    OBVIOUS
  <2>1. CASE UNCHANGED keys
    BY <2>1 DEF KeysInv
  <2>2. CASE \E k \in Kinds : KeygenNew(k) \/ KeygenRecover(k)
    BY <2>2, KeygenNewStep, KeygenRecoverStep
  <2> QED BY <2>1, <2>2, KeysKept DEF vars
<1> QED BY <1>1, <1>2, PTL DEF Spec

(* A keystore that keygen reported, or that nothing damaged, opens with the  *)
(* password the operator gave, to the key of its name: encrypt and decrypt   *)
(* of ethernal-keystore agree on normalization, salt, cost and checksum.     *)
THEOREM KeystoresOpen == Spec => []KeystoresOpenForOwner
<1>1. KeysInv => KeystoresOpenForOwner
  <2> SUFFICES ASSUME KeysInv, NEW k \in Kinds, NEW h \in Hows, keys[k][h] # None,
                      NEW i \in DOMAIN keys[k][h][1].written,
                      LET run == keys[k][h][1] IN run.sound \/ (run.checked /\ run.whole)
               PROVE  LET run == keys[k][h][1] IN Opens(k, run.written[i], run.pw)
    BY Zenon DEF KeystoresOpenForOwner, Opens
  <2> QED BY DEF KeysInv, RunInv, WrittenWell
<1> QED BY <1>1, KeysWell, PTL

-----------------------------------------------------------------------------
(* Derivation paths. *)

(* Paths have five levels: the recursive derivations, unrolled.              *)
LEMMA FivePlaces ==
  ASSUME NEW n \in 0 .. 5
  PROVE  n = 0 \/ n = 1 \/ n = 2 \/ n = 3 \/ n = 4 \/ n = 5
OBVIOUS

LEMMA DerivedPath ==
  ASSUME NEW seed, NEW path, Len(path) = 5
  PROVE  derive_path(seed, path) =
           derive_child(derive_child(derive_child(derive_child(derive_child(
             derive_master(seed), path[1]), path[2]), path[3]), path[4]), path[5])
<1> DEFINE k0 == derive_master(seed)
           k1 == derive_child(k0, path[1])
           k2 == derive_child(k1, path[2])
           k3 == derive_child(k2, path[3])
           k4 == derive_child(k3, path[4])
           k5 == derive_child(k4, path[5])
           g == [n \in 0 .. Len(path) |->
                   IF n = 0 THEN k0 ELSE IF n = 1 THEN k1 ELSE IF n = 2 THEN k2
                   ELSE IF n = 3 THEN k3 ELSE IF n = 4 THEN k4 ELSE k5]
           key == CHOOSE f : f = [n \in 0 .. Len(path) |->
                    IF n = 0 THEN derive_master(seed) ELSE derive_child(f[n - 1], path[n])]
<1>1. g = [n \in 0 .. Len(path) |-> IF n = 0 THEN derive_master(seed) ELSE derive_child(g[n - 1], path[n])]
  <2> SUFFICES ASSUME NEW n \in 0 .. 5
               PROVE  g[n] = IF n = 0 THEN derive_master(seed) ELSE derive_child(g[n - 1], path[n])
    <3> HIDE DEF k0, k1, k2, k3, k4, k5
    <3> QED OBVIOUS
  <2>1. g[0] = k0 /\ g[1] = k1 /\ g[2] = k2 /\ g[3] = k3 /\ g[4] = k4 /\ g[5] = k5
    <3> HIDE DEF k0, k1, k2, k3, k4, k5
    <3> QED OBVIOUS
  <2> HIDE DEF g
  <2> QED BY <2>1, FivePlaces
<1>2. key = [n \in 0 .. Len(path) |-> IF n = 0 THEN derive_master(seed) ELSE derive_child(key[n - 1], path[n])]
  <2> HIDE DEF g
  <2> QED BY <1>1
<1>3. derive_path(seed, path) = key[Len(path)]
  BY Zenon DEF derive_path
<1> QED
  <2> HIDE DEF key
  <2>1. key[0] = k0
    BY <1>2
  <2>2. key[1] = k1
    BY <1>2, <2>1
  <2>3. key[2] = k2
    <3> HIDE DEF k1
    <3> QED BY <1>2, <2>2
  <2>4. key[3] = k3
    <3> HIDE DEF k2
    <3> QED BY <1>2, <2>3
  <2>5. key[4] = k4
    <3> HIDE DEF k3
    <3> QED BY <1>2, <2>4
  <2>6. key[5] = k5
    <3> HIDE DEF k4
    <3> QED BY <1>2, <2>5
  <2> QED BY <1>3, <2>6

(* A child of a BLS key has one more level in its path.                      *)
LEMMA ChildKey ==
  ASSUME NEW seed, NEW p, NEW i
  PROVE  derive_child(Scalar([seed |-> seed, path |-> p]), i) = Scalar([seed |-> seed, path |-> Append(p, i)])
<1>1. Scalar([seed |-> seed, path |-> p]).key = [seed |-> seed, path |-> p]
  BY DEF Scalar
<1>2. [[seed |-> seed, path |-> p] EXCEPT !.path = Append(@, i)] = [seed |-> seed, path |-> Append(p, i)]
  <2>1. PICK q : q = Append(p, i)
    OBVIOUS
  <2>2. [[seed |-> seed, path |-> p] EXCEPT !.path = q] = [seed |-> seed, path |-> q]
    OBVIOUS
  <2> QED BY <2>1, <2>2
<1> QED BY <1>1, <1>2 DEF derive_child

(* Five times Append.                                                        *)
LEMMA AppendOne ==
  ASSUME NEW S, NEW s \in Seq(S), NEW e \in S, NEW t, t = Append(s, e)
  PROVE  t \in Seq(S) /\ Len(t) = Len(s) + 1 /\ t[Len(s) + 1] = e /\ \A i \in 1 .. Len(s) : t[i] = s[i]
OBVIOUS

LEMMA Appended ==
  ASSUME NEW a, NEW b, NEW c, NEW d, NEW e
  PROVE  Append(Append(Append(Append(Append(<<>>, a), b), c), d), e) = <<a, b, c, d, e>>
<1>1. PICK S : S = {a, b, c, d, e}
  OBVIOUS
<1>2. a \in S /\ b \in S /\ c \in S /\ d \in S /\ e \in S
  BY <1>1
<1>3. PICK p0 : p0 = <<>>
  OBVIOUS
<1>4. p0 \in Seq(S) /\ Len(p0) = 0
  BY <1>3
<1>5. PICK p1 : p1 = Append(p0, a)
  OBVIOUS
<1>6. p1 \in Seq(S) /\ Len(p1) = 1 /\ p1[1] = a
  <2>1. /\ p1 \in Seq(S) /\ Len(p1) = Len(p0) + 1 /\ p1[Len(p0) + 1] = a
        /\ \A i \in 1 .. Len(p0) : p1[i] = p0[i]
    BY <1>2, <1>4, <1>5, AppendOne
  <2> QED BY <1>4, <2>1
<1>7. PICK p2 : p2 = Append(p1, b)
  OBVIOUS
<1>8. p2 \in Seq(S) /\ Len(p2) = 2 /\ p2[1] = a /\ p2[2] = b
  <2>1. /\ p2 \in Seq(S) /\ Len(p2) = Len(p1) + 1 /\ p2[Len(p1) + 1] = b
        /\ \A i \in 1 .. Len(p1) : p2[i] = p1[i]
    BY <1>2, <1>6, <1>7, AppendOne
  <2> QED BY <1>6, <2>1
<1>9. PICK p3 : p3 = Append(p2, c)
  OBVIOUS
<1>10. p3 \in Seq(S) /\ Len(p3) = 3 /\ p3[1] = a /\ p3[2] = b /\ p3[3] = c
  <2>1. /\ p3 \in Seq(S) /\ Len(p3) = Len(p2) + 1 /\ p3[Len(p2) + 1] = c
        /\ \A i \in 1 .. Len(p2) : p3[i] = p2[i]
    BY <1>2, <1>8, <1>9, AppendOne
  <2> QED BY <1>8, <2>1
<1>11. PICK p4 : p4 = Append(p3, d)
  OBVIOUS
<1>12. p4 \in Seq(S) /\ Len(p4) = 4 /\ p4[1] = a /\ p4[2] = b /\ p4[3] = c /\ p4[4] = d
  <2>1. /\ p4 \in Seq(S) /\ Len(p4) = Len(p3) + 1 /\ p4[Len(p3) + 1] = d
        /\ \A i \in 1 .. Len(p3) : p4[i] = p3[i]
    BY <1>2, <1>10, <1>11, AppendOne
  <2> QED BY <1>10, <2>1
<1>13. PICK p5 : p5 = Append(p4, e)
  OBVIOUS
<1>14. p5 \in Seq(S) /\ Len(p5) = 5 /\ p5[1] = a /\ p5[2] = b /\ p5[3] = c /\ p5[4] = d /\ p5[5] = e
  <2>1. /\ p5 \in Seq(S) /\ Len(p5) = Len(p4) + 1 /\ p5[Len(p4) + 1] = e
        /\ \A i \in 1 .. Len(p4) : p5[i] = p4[i]
    BY <1>2, <1>12, <1>13, AppendOne
  <2> QED BY <1>12, <2>1
<1>15. PICK t : t = <<a, b, c, d, e>>
  OBVIOUS
<1>16. t \in Seq(S) /\ Len(t) = 5 /\ t[1] = a /\ t[2] = b /\ t[3] = c /\ t[4] = d /\ t[5] = e
  BY <1>2, <1>15
<1>17. p5 = t
  <2>1. ASSUME NEW i \in 1 .. Len(p5)
        PROVE  p5[i] = t[i]
    <3>1. i \in 0 .. 5 /\ i # 0
      BY <1>14, <2>1
    <3> QED BY <1>14, <1>16, <3>1, FivePlaces
  <2> QED BY <1>14, <1>16, <2>1, SeqEqual
<1> QED BY <1>3, <1>5, <1>7, <1>9, <1>11, <1>13, <1>15, <1>17, Zenon

(* A signing key is the term of its seed and path, so no two are the same.   *)
LEMMA SigningKey ==
  ASSUME NEW seed, NEW n
  PROVE  derive_path(seed, signing(n)) = Scalar([seed |-> seed, path |-> signing(n)])
<1> DEFINE path == signing(n)
           At(p) == Scalar([seed |-> seed, path |-> p])
<1>1. /\ Len(path) = 5 /\ path[1] = 12381 /\ path[2] = 3600 /\ path[3] = n
      /\ path[4] = 0 /\ path[5] = 0
  BY DEF signing
<1>2. derive_master(seed) = At(<<>>)
  BY DEF derive_master
<1>3. ASSUME NEW p, NEW i
      PROVE  derive_child(At(p), i) = At(Append(p, i))
  BY ChildKey
<1>4. derive_path(seed, path) =
        derive_child(derive_child(derive_child(derive_child(derive_child(
          derive_master(seed), 12381), 3600), n), 0), 0)
  <2> HIDE DEF path
  <2> QED BY <1>1, DerivedPath
<1>5. derive_path(seed, path) =
        At(Append(Append(Append(Append(Append(<<>>, 12381), 3600), n), 0), 0))
  <2> HIDE DEF At, path
  <2> DEFINE p1 == Append(<<>>, 12381)
             p2 == Append(p1, 3600)
             p3 == Append(p2, n)
             p4 == Append(p3, 0)
  <2>1. derive_child(derive_master(seed), 12381) = At(p1)
    <3>1. PICK p0 : p0 = <<>>
      OBVIOUS
    <3>2. derive_child(At(p0), 12381) = At(Append(p0, 12381))
      BY <1>3
    <3> QED BY <1>2, <3>1, <3>2
  <2>2. derive_child(At(p1), 3600) = At(p2)
    BY <1>3
  <2>3. derive_child(At(p2), n) = At(p3)
    BY <1>3
  <2>4. derive_child(At(p3), 0) = At(p4)
    BY <1>3
  <2>5. derive_child(At(p4), 0) = At(Append(p4, 0))
    BY <1>3
  <2> HIDE DEF p1, p2, p3, p4
  <2>6. derive_path(seed, path) = At(Append(p4, 0))
    BY <1>4, <2>1, <2>2, <2>3, <2>4, <2>5
  <2> QED BY <2>6 DEF p1, p2, p3, p4
<1>6. path = <<12381, 3600, n, 0, 0>>
  BY DEF signing
<1>7. Append(Append(Append(Append(Append(<<>>, 12381), 3600), n), 0), 0) = path
  BY <1>6, Appended
<1> HIDE DEF path, At
<1> QED BY <1>5, <1>7 DEF path, At

LEMMA SigningKeysDiffer ==
  ASSUME NEW s, NEW t, NEW m, NEW n,
         PublicKey(derive_path(s, signing(m))) = PublicKey(derive_path(t, signing(n)))
  PROVE  s = t /\ m = n
<1>1. [seed |-> s, path |-> signing(m)] = [seed |-> t, path |-> signing(n)]
  <2>1. \A k : PublicKey(Scalar(k)).pub = k
    BY DEF PublicKey, Scalar
  <2> QED BY <2>1, SigningKey
<1>2. s = t /\ signing(m) = signing(n)
  BY <1>1
<1>3. signing(m)[3] = m /\ signing(n)[3] = n
  BY DEF signing
<1> QED BY <1>2, <1>3

(* An index of 32 bits is a number below HARDENED, or such a number hardened. *)
LEMMA ModOfIndex ==
  ASSUME NEW n \in Nat, NEW H \in Nat \ {0}, n < 2 * H
  PROVE  n % H = IF n < H THEN n ELSE n - H
<1>1. PICK q \in Nat, r \in 0 .. H - 1 : q = n \div H /\ r = n % H /\ n = H * q + r
  OBVIOUS
<1>2. CASE q = 0
  BY <1>1, <1>2
<1>3. CASE q = 1
  BY <1>1, <1>3
<1>4. q < 2
  BY <1>1
<1> QED BY <1>2, <1>3, <1>4

(* An account that was derived: each of the five steps had a key.            *)
LEMMA DerivedAccount ==
  ASSUME NEW seed, NEW path, Len(path) = 5, DeriveAccount(seed, path).ok
  PROVE  LET r0 == Master(seed)
             r1 == Child(r0.value, path[1])
             r2 == Child(r1.value, path[2])
             r3 == Child(r2.value, path[3])
             r4 == Child(r3.value, path[4])
             r5 == Child(r4.value, path[5])
         IN  /\ r0.ok /\ r1.ok /\ r2.ok /\ r3.ok /\ r4.ok /\ r5.ok
             /\ DeriveAccount(seed, path) = r5
<1> DEFINE next(r, i) == IF r.ok THEN Child(r.value, path[i]) ELSE r
           k0 == Master(seed)
           k1 == next(k0, 1)
           k2 == next(k1, 2)
           k3 == next(k2, 3)
           k4 == next(k3, 4)
           k5 == next(k4, 5)
           g == [n \in 0 .. Len(path) |->
                   IF n = 0 THEN k0 ELSE IF n = 1 THEN k1 ELSE IF n = 2 THEN k2
                   ELSE IF n = 3 THEN k3 ELSE IF n = 4 THEN k4 ELSE k5]
           key == CHOOSE f : f = [n \in 0 .. Len(path) |->
                    IF n = 0 THEN Master(seed)
                    ELSE IF f[n - 1].ok THEN Child(f[n - 1].value, path[n]) ELSE f[n - 1]]
<1>1. g = [n \in 0 .. Len(path) |->
             IF n = 0 THEN Master(seed)
             ELSE IF g[n - 1].ok THEN Child(g[n - 1].value, path[n]) ELSE g[n - 1]]
  <2> SUFFICES ASSUME NEW n \in 0 .. 5
               PROVE  g[n] = IF n = 0 THEN Master(seed)
                             ELSE IF g[n - 1].ok THEN Child(g[n - 1].value, path[n]) ELSE g[n - 1]
    <3> HIDE DEF k0, k1, k2, k3, k4, k5
    <3> QED OBVIOUS
  <2>1. g[0] = k0 /\ g[1] = k1 /\ g[2] = k2 /\ g[3] = k3 /\ g[4] = k4 /\ g[5] = k5
    <3> HIDE DEF k0, k1, k2, k3, k4, k5
    <3> QED OBVIOUS
  <2>2. /\ k0 = Master(seed) /\ k1 = next(k0, 1) /\ k2 = next(k1, 2) /\ k3 = next(k2, 3)
        /\ k4 = next(k3, 4) /\ k5 = next(k4, 5)
    <3> HIDE DEF next
    <3> QED OBVIOUS
  <2>3. g[n] = IF n = 0 THEN Master(seed) ELSE next(g[n - 1], n)
    <3> HIDE DEF g, k0, k1, k2, k3, k4, k5, next
    <3>1. g[0] = Master(seed) /\ \A i \in 1 .. 5 : g[i] = next(g[i - 1], i)
      BY <2>1, <2>2, FivePlaces
    <3>2. n = 0 \/ (n \in 1 .. 5 /\ n # 0)
      BY ONLY n \in 0 .. 5
    <3> QED BY <3>1, <3>2, Zenon
  <2> HIDE DEF g
  <2> QED BY <2>3
<1>2. key = [n \in 0 .. Len(path) |->
               IF n = 0 THEN Master(seed)
               ELSE IF key[n - 1].ok THEN Child(key[n - 1].value, path[n]) ELSE key[n - 1]]
  <2> HIDE DEF g
  <2> QED BY <1>1
<1>3. DeriveAccount(seed, path) = key[Len(path)]
  BY Zenon DEF DeriveAccount
<1>4. /\ key[0] = Master(seed) /\ key[1] = next(key[0], 1) /\ key[2] = next(key[1], 2)
      /\ key[3] = next(key[2], 3) /\ key[4] = next(key[3], 4) /\ key[5] = next(key[4], 5)
  <2> HIDE DEF key
  <2> QED BY <1>2
<1>5. key[5].ok
  <2> HIDE DEF key
  <2> QED BY <1>3
<1> QED
  <2> HIDE DEF key
  <2>1. key[4].ok /\ key[5] = Child(key[4].value, path[5])
    BY <1>4, <1>5, Zenon
  <2>2. key[3].ok /\ key[4] = Child(key[3].value, path[4])
    BY <1>4, <2>1, Zenon
  <2>3. key[2].ok /\ key[3] = Child(key[2].value, path[3])
    BY <1>4, <2>2, Zenon
  <2>4. key[1].ok /\ key[2] = Child(key[1].value, path[2])
    BY <1>4, <2>3, Zenon
  <2>5. key[0].ok /\ key[1] = Child(key[0].value, path[1])
    BY <1>4, <2>4
  <2> QED BY <1>3, <1>4, <1>5, <2>1, <2>2, <2>3, <2>4, <2>5, Zenon

(* A level of a path as wallets have it, and the number the code has. *)
Marked(n, marked) == [n |-> n, marked |-> marked]
WalletStep(p, l) ==
  LET I == ChildHalves(p.c, IF l.marked THEN [sk |-> p.k, index |-> HARDENED + l.n]
                                        ELSE [point |-> p.k, index |-> l.n])
  IN  [k |-> (I.L + p.k) % Order, c |-> I.R]

(* The same of a wallet's derivation, which knows no refusal.                *)
LEMMA WalletUnrolled ==
  ASSUME NEW seed, NEW index
  PROVE  LET w0 == [k |-> MasterHalves(seed).L, c |-> MasterHalves(seed).R]
             w1 == WalletStep(w0, Marked(44, TRUE))
             w2 == WalletStep(w1, Marked(60, TRUE))
             w3 == WalletStep(w2, Marked(0, TRUE))
             w4 == WalletStep(w3, Marked(0, FALSE))
             w5 == WalletStep(w4, Marked(index % HARDENED, index >= HARDENED))
         IN  WalletAccount(seed, index) = pubkey_address(w5.k)
<1> DEFINE Mark(n, marked) == [n |-> n, marked |-> marked]
           path == <<Mark(44, TRUE), Mark(60, TRUE), Mark(0, TRUE), Mark(0, FALSE),
                     Mark(index % HARDENED, index >= HARDENED)>>
           w0 == [k |-> MasterHalves(seed).L, c |-> MasterHalves(seed).R]
           w1 == WalletStep(w0, path[1])
           w2 == WalletStep(w1, path[2])
           w3 == WalletStep(w2, path[3])
           w4 == WalletStep(w3, path[4])
           w5 == WalletStep(w4, path[5])
           g == [n \in 0 .. Len(path) |->
                   IF n = 0 THEN w0 ELSE IF n = 1 THEN w1 ELSE IF n = 2 THEN w2
                   ELSE IF n = 3 THEN w3 ELSE IF n = 4 THEN w4 ELSE w5]
           I(k, c, l) == ChildHalves(c, IF l.marked THEN [sk |-> k, index |-> HARDENED + l.n]
                                                    ELSE [point |-> k, index |-> l.n])
           key == CHOOSE f : f = [n \in 0 .. Len(path) |->
                    IF n = 0 THEN [k |-> MasterHalves(seed).L, c |-> MasterHalves(seed).R]
                    ELSE LET p == f[n - 1]
                         IN  [k |-> (I(p.k, p.c, path[n]).L + p.k) % Order, c |-> I(p.k, p.c, path[n]).R]]
<1>1. Len(path) = 5
  BY DEF Mark
<1>2. WalletAccount(seed, index) = pubkey_address(key[Len(path)].k)
  BY Zenon DEF WalletAccount
<1>3. /\ path[1] = Marked(44, TRUE) /\ path[2] = Marked(60, TRUE) /\ path[3] = Marked(0, TRUE)
      /\ path[4] = Marked(0, FALSE) /\ path[5] = Marked(index % HARDENED, index >= HARDENED)
  BY DEF Marked
<1> HIDE DEF path
<1>4. \A f, n : WalletStep(f[n - 1], path[n]) =
                  LET p == f[n - 1]
                  IN  [k |-> (I(p.k, p.c, path[n]).L + p.k) % Order, c |-> I(p.k, p.c, path[n]).R]
  BY DEF WalletStep
<1>5. g = [n \in 0 .. Len(path) |-> IF n = 0 THEN w0 ELSE WalletStep(g[n - 1], path[n])]
  <2> SUFFICES ASSUME NEW n \in 0 .. 5
               PROVE  g[n] = IF n = 0 THEN w0 ELSE WalletStep(g[n - 1], path[n])
    <3> HIDE DEF w0, w1, w2, w3, w4, w5
    <3> QED BY <1>1
  <2>1. g[0] = w0 /\ g[1] = w1 /\ g[2] = w2 /\ g[3] = w3 /\ g[4] = w4 /\ g[5] = w5
    <3> HIDE DEF w0, w1, w2, w3, w4, w5
    <3> QED BY <1>1
  <2> HIDE DEF g, w0
  <2> QED BY <2>1, FivePlaces
<1>6. key = [n \in 0 .. Len(path) |-> IF n = 0 THEN w0 ELSE WalletStep(key[n - 1], path[n])]
  <2>1. \A f : [n \in 0 .. Len(path) |-> IF n = 0 THEN w0 ELSE WalletStep(f[n - 1], path[n])] =
               [n \in 0 .. Len(path) |->
                    IF n = 0 THEN [k |-> MasterHalves(seed).L, c |-> MasterHalves(seed).R]
                    ELSE LET p == f[n - 1]
                         IN  [k |-> (I(p.k, p.c, path[n]).L + p.k) % Order, c |-> I(p.k, p.c, path[n]).R]]
    <3> HIDE DEF I
    <3> QED BY <1>4
  <2> DEFINE Walk(f) == [n \in 0 .. Len(path) |->
                           IF n = 0 THEN [k |-> MasterHalves(seed).L, c |-> MasterHalves(seed).R]
                           ELSE LET p == f[n - 1]
                                IN  [k |-> (I(p.k, p.c, path[n]).L + p.k) % Order,
                                     c |-> I(p.k, p.c, path[n]).R]]
  <2>2. \A f : Walk(f) = [n \in 0 .. Len(path) |-> IF n = 0 THEN w0 ELSE WalletStep(f[n - 1], path[n])]
    BY <2>1
  <2>3. g = Walk(g)
    <3> HIDE DEF g, w0, Walk
    <3> QED BY <1>5, <2>2
  <2>4. key = CHOOSE f : f = Walk(f)
    BY Zenon
  <2>5. key = Walk(key)
    <3> HIDE DEF g, key, Walk
    <3> QED BY <2>3, <2>4
  <2> HIDE DEF key, Walk, w0
  <2> QED BY <2>2, <2>5
<1> QED
  <2> HIDE DEF key, w0
  <2>1. /\ key[0] = w0 /\ key[1] = WalletStep(key[0], path[1]) /\ key[2] = WalletStep(key[1], path[2])
        /\ key[3] = WalletStep(key[2], path[3]) /\ key[4] = WalletStep(key[3], path[4])
        /\ key[5] = WalletStep(key[4], path[5])
    BY <1>1, <1>6
  <2> QED BY <1>1, <1>2, <1>3, <2>1 DEF w0

(* A child that is not refused.                                              *)
LEMMA ChildMade ==
  ASSUME NEW p, NEW number, Child(p, number).ok
  PROVE  LET I == ChildHalves(p.c, ChildData(p.k, number))
         IN  Child(p, number).value = [k |-> (I.L + p.k) % Order, c |-> I.R]
<1>1. ASSUME NEW I, NEW k, child_from_halves(I, k).ok
      PROVE  child_from_halves(I, k).value = [k |-> (I.L + k) % Order, c |-> I.R]
  <2>1. CASE I.L >= Order \/ (I.L + k) % Order = 0
    <3>1. child_from_halves(I, k) = Failure("InvalidChildKey")
      BY <2>1 DEF child_from_halves
    <3> QED BY <1>1, <3>1, Results
  <2>2. CASE ~(I.L >= Order \/ (I.L + k) % Order = 0)
    <3>1. child_from_halves(I, k) = Success([k |-> (I.L + k) % Order, c |-> I.R])
      BY <2>2 DEF child_from_halves
    <3> QED BY <3>1, Results
  <2> QED BY <2>1, <2>2
<1>2. PICK I : I = ChildHalves(p.c, ChildData(p.k, number))
  OBVIOUS
<1>3. Child(p, number) = child_from_halves(I, p.k)
  BY <1>2 DEF Child
<1>4. Child(p, number).value = [k |-> (I.L + p.k) % Order, c |-> I.R]
  BY <1>1, <1>3
<1> QED BY <1>2, <1>4

(* A step of the code is a wallet's: the hardened ones, and the others.      *)
LEMMA HardenedStep ==
  ASSUME NEW p, NEW n, NEW number, Child(p, number).ok, number >= HARDENED, number = HARDENED + n
  PROVE  Child(p, number).value = WalletStep(p, Marked(n, TRUE))
<1>1. ChildData(p.k, number) = [sk |-> p.k, index |-> HARDENED + n]
  BY DEF ChildData
<1>2. Marked(n, TRUE).marked = TRUE /\ Marked(n, TRUE).n = n
  BY DEF Marked
<1>3. PICK h : h = ChildHalves(p.c, [sk |-> p.k, index |-> HARDENED + n])
  OBVIOUS
<1>4. WalletStep(p, Marked(n, TRUE)) = [k |-> (h.L + p.k) % Order, c |-> h.R]
  BY <1>2, <1>3, Zenon DEF WalletStep
<1>5. Child(p, number).value = [k |-> (h.L + p.k) % Order, c |-> h.R]
  BY <1>1, <1>3, ChildMade
<1> QED BY <1>4, <1>5

LEMMA OpenStep ==
  ASSUME NEW p, NEW number, Child(p, number).ok, ~(number >= HARDENED)
  PROVE  Child(p, number).value = WalletStep(p, Marked(number, FALSE))
<1>1. ChildData(p.k, number) = [point |-> p.k, index |-> number]
  BY DEF ChildData
<1>2. Marked(number, FALSE).marked = FALSE /\ Marked(number, FALSE).n = number
  BY DEF Marked
<1>3. PICK h : h = ChildHalves(p.c, [point |-> p.k, index |-> number])
  OBVIOUS
<1>4. WalletStep(p, Marked(number, FALSE)) = [k |-> (h.L + p.k) % Order, c |-> h.R]
  BY <1>2, <1>3, Zenon DEF WalletStep
<1>5. Child(p, number).value = [k |-> (h.L + p.k) % Order, c |-> h.R]
  BY <1>1, <1>3, ChildMade
<1> QED BY <1>4, <1>5

(* The address of an index is the one wallets derive for it.                 *)
LEMMA AccountIsWallets ==
  ASSUME NEW seed, NEW n \in Nat, n < U32, DeriveAccount(seed, eoa(n)).ok
  PROVE  pubkey_address(DeriveAccount(seed, eoa(n)).value.k) = WalletAccount(seed, n)
<1> DEFINE path == eoa(n)
           r0 == Master(seed)
           r1 == Child(r0.value, path[1])
           r2 == Child(r1.value, path[2])
           r3 == Child(r2.value, path[3])
           r4 == Child(r3.value, path[4])
           r5 == Child(r4.value, path[5])
           w0 == [k |-> MasterHalves(seed).L, c |-> MasterHalves(seed).R]
           w1 == WalletStep(w0, Marked(44, TRUE))
           w2 == WalletStep(w1, Marked(60, TRUE))
           w3 == WalletStep(w2, Marked(0, TRUE))
           w4 == WalletStep(w3, Marked(0, FALSE))
           w5 == WalletStep(w4, Marked(n % HARDENED, n >= HARDENED))
<1>1. /\ Len(path) = 5 /\ path[1] = HARDENED + 44 /\ path[2] = HARDENED + 60
      /\ path[3] = HARDENED /\ path[4] = 0 /\ path[5] = n
  BY DEF eoa
<1>2. /\ r0.ok /\ r1.ok /\ r2.ok /\ r3.ok /\ r4.ok /\ r5.ok
      /\ DeriveAccount(seed, path) = r5
  <2> HIDE DEF path
  <2>1. DeriveAccount(seed, path).ok
    BY DEF path
  <2> QED BY <1>1, <2>1, DerivedAccount
<1>3. HARDENED \in Nat \ {0} /\ U32 = 2 * HARDENED
  BY KeyPathsAssumption, FlagsAssumption, Zenon
<1>4. r0.value = w0
  BY <1>2, Results DEF Master
<1> HIDE DEF path
<1>5. r1.value = w1
  <2>1. path[1] >= HARDENED /\ path[1] = HARDENED + 44
    BY <1>1, <1>3
  <2>2. Child(r0.value, path[1]).ok
    BY <1>2
  <2>3. Child(r0.value, path[1]).value = WalletStep(r0.value, Marked(44, TRUE))
    <3> HIDE DEF r0
    <3> QED BY <2>1, <2>2, HardenedStep
  <2> HIDE DEF r0, w0
  <2> QED BY <1>4, <2>3
<1>6. r2.value = w2
  <2>1. path[2] >= HARDENED /\ path[2] = HARDENED + 60
    BY <1>1, <1>3
  <2>2. Child(r1.value, path[2]).ok
    BY <1>2
  <2>3. Child(r1.value, path[2]).value = WalletStep(r1.value, Marked(60, TRUE))
    <3> HIDE DEF r1
    <3> QED BY <2>1, <2>2, HardenedStep
  <2> HIDE DEF r1, w1
  <2> QED BY <1>5, <2>3
<1>7. r3.value = w3
  <2>1. path[3] >= HARDENED /\ path[3] = HARDENED + 0
    BY <1>1, <1>3
  <2>2. Child(r2.value, path[3]).ok
    BY <1>2
  <2>3. Child(r2.value, path[3]).value = WalletStep(r2.value, Marked(0, TRUE))
    <3> HIDE DEF r2
    <3> QED BY <2>1, <2>2, HardenedStep
  <2> HIDE DEF r2, w2
  <2> QED BY <1>6, <2>3
<1>8. r4.value = w4
  <2>1. ~(path[4] >= HARDENED) /\ path[4] = 0
    BY <1>1, <1>3
  <2>2. Child(r3.value, path[4]).ok
    BY <1>2
  <2>3. Child(r3.value, path[4]).value = WalletStep(r3.value, Marked(0, FALSE))
    <3> HIDE DEF r3
    <3> QED BY <2>1, <2>2, OpenStep
  <2> HIDE DEF r3, w3
  <2> QED BY <1>7, <2>3
<1>9. r5.value = w5
  <2>1. n % HARDENED = IF n < HARDENED THEN n ELSE n - HARDENED
    BY <1>3, ModOfIndex
  <2>2. Child(r4.value, path[5]).ok
    BY <1>2
  <2>3. Child(r4.value, path[5]).value = WalletStep(w4, Marked(n % HARDENED, n >= HARDENED))
    <3> HIDE DEF r4, w4
    <3>1. CASE n >= HARDENED
      <4>1. path[5] >= HARDENED /\ path[5] = HARDENED + (n % HARDENED)
        BY <1>1, <1>3, <2>1, <3>1
      <4>2. Child(r4.value, path[5]).value = WalletStep(r4.value, Marked(n % HARDENED, TRUE))
        BY <2>2, <4>1, HardenedStep
      <4>3. (n >= HARDENED) = TRUE
        BY <3>1
      <4> QED BY <1>8, <4>2, <4>3
    <3>2. CASE ~(n >= HARDENED)
      <4>1. ~(path[5] >= HARDENED) /\ path[5] = n % HARDENED
        BY <1>1, <1>3, <2>1, <3>2
      <4>2. Child(r4.value, path[5]).value = WalletStep(r4.value, Marked(path[5], FALSE))
        BY <2>2, <4>1, OpenStep
      <4>3. (n >= HARDENED) = FALSE
        BY <3>2
      <4> QED BY <1>8, <4>1, <4>2, <4>3
    <3> QED BY <3>1, <3>2
  <2> QED BY <2>3
<1>10. WalletAccount(seed, n) = pubkey_address(w5.k)
  BY WalletUnrolled
<1> HIDE DEF r5, w5
<1> QED BY <1>2, <1>9, <1>10 DEF path

(* Recovering a mnemonic makes, index by index, the keys of the run that     *)
(* drew it, no other index has a validator's key, and an account is the one  *)
(* a wallet derives, over the whole range of 32-bit indices.                 *)
THEOREM RecoveryRepeats == Spec => []RecoveryReproduces
<1>1. ASSUME KeysInv, NEW k \in Kinds, keys[k]["new"] # None, keys[k]["recover"] # None
      PROVE  LET n == keys[k]["new"][1]  r == keys[k]["recover"][1]
             IN  \A i \in DOMAIN n.written, j \in DOMAIN r.written :
                   LET same == Seed(n.from) = Seed(r.from) /\ n.start + i = r.start + j
                   IN  /\ same => Public(k, n.written[i]) = Public(k, r.written[j])
                       /\ k = "validator" /\ ~same => Public(k, n.written[i]) # Public(k, r.written[j])
  <2>1. PICK n : n = keys[k]["new"][1]
    OBVIOUS
  <2>2. PICK r : r = keys[k]["recover"][1]
    OBVIOUS
  <2>3. "new" \in Hows /\ "recover" \in Hows
    BY DEF Hows
  <2>4. RunInv(k, n) /\ RunInv(k, r)
    BY <1>1, <2>1, <2>2, <2>3 DEF KeysInv
  <2>5. ASSUME NEW i \in DOMAIN n.written, NEW j \in DOMAIN r.written
        PROVE  LET same == Seed(n.from) = Seed(r.from) /\ n.start + i = r.start + j
               IN  /\ same => Public(k, n.written[i]) = Public(k, r.written[j])
                   /\ k = "validator" /\ ~same => Public(k, n.written[i]) # Public(k, r.written[j])
    <3>1. /\ n.start \in Nat /\ r.start \in Nat /\ i \in Nat /\ j \in Nat
          /\ Public(k, n.written[i]) = KeyAt(k, Seed(n.from), n.start + i - 1)
          /\ Public(k, r.written[j]) = KeyAt(k, Seed(r.from), r.start + j - 1)
      BY <2>4, <2>5 DEF RunInv, WrittenWell
    <3>2. ASSUME Seed(n.from) = Seed(r.from), n.start + i = r.start + j
          PROVE  Public(k, n.written[i]) = Public(k, r.written[j])
      BY <3>1, <3>2
    <3>3. ASSUME k = "validator", Public(k, n.written[i]) = Public(k, r.written[j])
          PROVE  Seed(n.from) = Seed(r.from) /\ n.start + i = r.start + j
      <4>1. PublicKey(derive_path(Seed(n.from), signing(n.start + i - 1))) =
              PublicKey(derive_path(Seed(r.from), signing(r.start + j - 1)))
        BY <3>1, <3>3 DEF KeyAt
      <4>2. Seed(n.from) = Seed(r.from) /\ n.start + i - 1 = r.start + j - 1
        BY <4>1, SigningKeysDiffer
      <4> QED BY <3>1, <4>2
    <3> QED BY <3>2, <3>3
  <2> QED BY <2>1, <2>2, <2>5
<1>2. ASSUME KeysInv, NEW k \in Kinds, k = "account", NEW h \in Hows, keys[k][h] # None
      PROVE  LET run == keys[k][h][1]
             IN  \A i \in DOMAIN run.written :
                   Public(k, run.written[i]) = WalletAccount(Seed(run.from), run.start + i - 1)
  <2>1. PICK run : run = keys[k][h][1]
    OBVIOUS
  <2>2. ASSUME NEW i \in DOMAIN run.written
        PROVE  Public(k, run.written[i]) = WalletAccount(Seed(run.from), run.start + i - 1)
    <3>1. WrittenWell(k, run, i)
      BY <1>2, <2>1, <2>2 DEF KeysInv, RunInv
    <3>2. PICK n : n = run.start + i - 1
      OBVIOUS
    <3>3. /\ n \in Nat /\ n < U32 /\ DeriveAccount(Seed(run.from), eoa(n)).ok
          /\ Public(k, run.written[i]) = KeyAt(k, Seed(run.from), n)
      BY <1>2, <3>1, <3>2 DEF WrittenWell
    <3>4. KeyAt(k, Seed(run.from), n) = WalletAccount(Seed(run.from), n)
      BY <1>2, <3>3, AccountIsWallets DEF KeyAt
    <3> QED BY <3>2, <3>3, <3>4
  <2> QED BY <2>1, <2>2
<1>3. KeysInv => RecoveryReproduces
  BY <1>1, <1>2 DEF RecoveryReproduces
<1> QED BY <1>3, KeysWell, PTL

(* A failure whose exit code is the documented one of its root cause.        *)
Told(e) == exit_code_for(e) = Documented(RootCause(e))
Fine(r) == ~r.ok => Told(r.err)

(* The first position of a set of positions.                                 *)
LEMMA FirstOf ==
  ASSUME NEW S, S \subseteq Nat, NEW n \in S, \A i \in S : n <= i
  PROVE  Min(S) = n
<1>1. PICK m : m = Min(S)
  OBVIOUS
<1>2. m \in S /\ m <= n
  BY <1>1, MinOf
<1>3. m \in Nat /\ n \in Nat /\ n <= m
  BY <1>2
<1> QED BY <1>1, <1>2, <1>3

(* Sequences of one and two put together.                                    *)
LEMMA Joined ==
  ASSUME NEW a, NEW b, NEW c
  PROVE  /\ <<a>> \o <<b>> = <<a, b>> /\ <<>> \o <<a>> = <<a>>
         /\ <<a>> \o <<b, c>> = <<a, b, c>>
<1> DEFINE S == {a, b, c}
<1>1. <<a>> \in Seq(S) /\ <<b>> \in Seq(S) /\ <<b, c>> \in Seq(S) /\ <<>> \in Seq(S)
  OBVIOUS
<1>2. PICK s1, s2, s3, s4 : s1 = <<a>> /\ s2 = <<b>> /\ s3 = <<b, c>> /\ s4 = <<>>
  OBVIOUS
<1>3. /\ s1 \o s2 \in Seq(S) /\ Len(s1 \o s2) = 2 /\ (s1 \o s2)[1] = a /\ (s1 \o s2)[2] = b
  <2> HIDE DEF S
  <2> QED BY <1>1, <1>2, ConcatProperties
<1>4. /\ s1 \o s3 \in Seq(S) /\ Len(s1 \o s3) = 3 /\ (s1 \o s3)[1] = a /\ (s1 \o s3)[2] = b /\ (s1 \o s3)[3] = c
  <2> HIDE DEF S
  <2> QED BY <1>1, <1>2, ConcatProperties
<1>5. s4 \o s1 \in Seq(S) /\ Len(s4 \o s1) = 1 /\ (s4 \o s1)[1] = a
  <2> HIDE DEF S
  <2> QED BY <1>1, <1>2, ConcatProperties
<1>6. PICK x, y, z : x = s1 \o s2 /\ y = s1 \o s3 /\ z = s4 \o s1
  OBVIOUS
<1>7. x = <<a, b>>
  <2>1. x \in Seq(S) /\ Len(x) = 2 /\ x[1] = a /\ x[2] = b
    BY <1>3, <1>6
  <2>2. x \in [1 .. 2 -> S]
    <3> HIDE DEF S
    <3> QED BY <2>1, SeqDef, LenProperties
  <2> QED BY <2>1, <2>2
<1>8. y = <<a, b, c>>
  <2>1. y \in Seq(S) /\ Len(y) = 3 /\ y[1] = a /\ y[2] = b /\ y[3] = c
    BY <1>4, <1>6
  <2>2. y \in [1 .. 3 -> S]
    <3> HIDE DEF S
    <3> QED BY <2>1, SeqDef, LenProperties
  <2> QED BY <2>1, <2>2
<1>9. z = <<a>>
  <2>1. z \in Seq(S) /\ Len(z) = 1 /\ z[1] = a
    BY <1>5, <1>6
  <2>2. z \in [1 .. 1 -> S]
    <3> HIDE DEF S
    <3> QED BY <2>1, SeqDef, LenProperties
  <2> QED BY <2>1, <2>2
<1> QED BY <1>2, <1>6, <1>7, <1>8, <1>9

(* The sentinel of a signer's error is the first that is no context.         *)
LEMMA SentinelBare ==
  ASSUME NEW a, a.err # "Context"
  PROVE  sentinel(<<a>>) = a
<1> DEFINE inside == {i \in DOMAIN <<a>> : <<a>>[i].err # "Context"}
<1>1. inside \subseteq Nat /\ 1 \in inside /\ \A i \in inside : 1 <= i
  OBVIOUS
<1>2. Min(inside) = 1
  <2> HIDE DEF inside
  <2> QED BY <1>1, FirstOf
<1>3. sentinel(<<a>>) = <<a>>[Min(inside)]
  BY DEF sentinel
<1> HIDE DEF inside
<1> QED BY <1>2, <1>3

LEMMA SentinelUnder ==
  ASSUME NEW a, a.err = "Context", NEW b, b.err # "Context"
  PROVE  sentinel(<<a, b>>) = b
<1> DEFINE inside == {i \in DOMAIN <<a, b>> : <<a, b>>[i].err # "Context"}
<1>1. inside \subseteq Nat /\ 2 \in inside /\ \A i \in inside : 2 <= i
  OBVIOUS
<1>2. Min(inside) = 2
  <2> HIDE DEF inside
  <2> QED BY <1>1, FirstOf
<1>3. sentinel(<<a, b>>) = <<a, b>>[Min(inside)]
  BY DEF sentinel
<1> HIDE DEF inside
<1> QED BY <1>2, <1>3

(* The layer an exit code is of is the first that is not a context.          *)
LEMMA BareLayers ==
  ASSUME NEW a, a.kind # "Context", NEW b
  PROVE  unwrap_context(<<a>>) = <<a>> /\ unwrap_context(<<a, b>>) = <<a, b>>
<1>1. unwrap_context(<<a>>) = <<a>>
  <2> DEFINE inside == {i \in DOMAIN <<a>> : <<a>>[i].kind # "Context"}
  <2>1. inside \subseteq Nat /\ 1 \in inside /\ \A i \in inside : 1 <= i
    OBVIOUS
  <2>2. Min(inside) = 1
    <3> HIDE DEF inside
    <3> QED BY <2>1, FirstOf
  <2>3. unwrap_context(<<a>>) = SubSeq(<<a>>, Min(inside), 1)
    BY DEF unwrap_context
  <2> HIDE DEF inside
  <2> QED BY <2>2, <2>3
<1>2. unwrap_context(<<a, b>>) = <<a, b>>
  <2> DEFINE inside == {i \in DOMAIN <<a, b>> : <<a, b>>[i].kind # "Context"}
  <2>1. inside \subseteq Nat /\ 1 \in inside /\ \A i \in inside : 1 <= i
    OBVIOUS
  <2>2. Min(inside) = 1
    <3> HIDE DEF inside
    <3> QED BY <2>1, FirstOf
  <2>3. unwrap_context(<<a, b>>) = SubSeq(<<a, b>>, Min(inside), 2)
    BY DEF unwrap_context
  <2> HIDE DEF inside
  <2> QED BY <2>2, <2>3
<1> QED BY <1>1, <1>2

LEMMA LayersUnder ==
  ASSUME NEW a, a.kind = "Context", NEW b, b.kind # "Context", NEW c
  PROVE  unwrap_context(<<a, b>>) = <<b>> /\ unwrap_context(<<a, b, c>>) = <<b, c>>
<1>1. unwrap_context(<<a, b>>) = <<b>>
  <2> DEFINE inside == {i \in DOMAIN <<a, b>> : <<a, b>>[i].kind # "Context"}
  <2>1. inside \subseteq Nat /\ 2 \in inside /\ \A i \in inside : 2 <= i
    OBVIOUS
  <2>2. Min(inside) = 2
    <3> HIDE DEF inside
    <3> QED BY <2>1, FirstOf
  <2>3. unwrap_context(<<a, b>>) = SubSeq(<<a, b>>, Min(inside), 2)
    BY DEF unwrap_context
  <2> HIDE DEF inside
  <2> QED BY <2>2, <2>3
<1>2. unwrap_context(<<a, b, c>>) = <<b, c>>
  <2> DEFINE inside == {i \in DOMAIN <<a, b, c>> : <<a, b, c>>[i].kind # "Context"}
  <2>1. inside \subseteq Nat /\ 2 \in inside /\ \A i \in inside : 2 <= i
    OBVIOUS
  <2>2. Min(inside) = 2
    <3> HIDE DEF inside
    <3> QED BY <2>1, FirstOf
  <2>3. unwrap_context(<<a, b, c>>) = SubSeq(<<a, b, c>>, Min(inside), 3)
    BY DEF unwrap_context
  <2> HIDE DEF inside
  <2> QED BY <2>2, <2>3
<1> QED BY <1>1, <1>2

(* What the code and the cause of one layer are.                             *)
LEMMA OneLayer ==
  ASSUME NEW a, a.kind # "Context"
  PROVE  /\ Head(unwrap_context(<<a>>)) = a /\ RootCause(<<a>>) = <<a.kind, a.err>>
         /\ a.err # "Context" => sentinel(unwrap_context(<<a>>)) = a
<1>1. unwrap_context(<<a>>) = <<a>>
  BY BareLayers
<1>2. Last(<<a>>) = a
  BY DEF Last
<1> QED BY <1>1, <1>2, SentinelBare DEF RootCause

(* The errors the commands end with, layer by layer.                         *)
LEMMA ExitTold ==
  ASSUME NEW w, NEW c, IF w = "write" THEN c = 3 ELSE c = 2
  PROVE  Told(Exit(c, w))
<1>1. PICK a : a = [kind |-> "Exit", err |-> w, code |-> c]
  OBVIOUS
<1>2. /\ Exit(c, w) = <<a>> /\ a.kind = "Exit" /\ a.err = w /\ a.code = c
  BY <1>1 DEF Exit
<1>3. Head(unwrap_context(<<a>>)) = a /\ RootCause(<<a>>) = <<"Exit", w>>
  BY <1>2, OneLayer
<1>4. exit_code_for(<<a>>) = c
  BY <1>2, <1>3 DEF exit_code_for
<1>6. Documented(<<"Exit", w>>) = c
  BY DEF Documented
<1> QED BY <1>2, <1>3, <1>4, <1>6 DEF Told

LEMMA UsageTold ==
  ASSUME NEW kind \in {"Bip39", "KeystoreNotFoundFor"}, NEW err
  PROVE  Told(Of(kind, err))
<1>1. PICK a : a = Layer(kind, err)
  OBVIOUS
<1>2. Of(kind, err) = <<a>> /\ a.kind = kind /\ a.err = err
  BY <1>1 DEF Of, Layer
<1>3. Head(unwrap_context(<<a>>)) = a /\ RootCause(<<a>>) = <<kind, err>>
  BY <1>2, OneLayer
<1>4. exit_code_for(<<a>>) = 2
  BY <1>2, <1>3 DEF exit_code_for
<1>5. Documented(<<kind, err>>) = 2
  BY DEF Documented
<1> QED BY <1>2, <1>3, <1>4, <1>5 DEF Told

LEMMA CryptoTold ==
  ASSUME NEW kind \in {"Bip32", "KeyVerifyFailed"}, NEW err
  PROVE  Told(Of(kind, err))
<1>1. PICK a : a = Layer(kind, err)
  OBVIOUS
<1>2. Of(kind, err) = <<a>> /\ a.kind = kind /\ a.err = err
  BY <1>1 DEF Of, Layer
<1>3. Head(unwrap_context(<<a>>)) = a /\ RootCause(<<a>>) = <<kind, err>>
  BY <1>2, OneLayer
<1>4. exit_code_for(<<a>>) = 3
  BY <1>2, <1>3 DEF exit_code_for
<1>5. Documented(<<kind, err>>) = 3
  BY DEF Documented
<1> QED BY <1>2, <1>3, <1>4, <1>5 DEF Told

LEMMA KeystoreTold ==
  ASSUME NEW err, err # "SelfVerifyFailed"
  PROVE  Told(Of("Keystore", err))
<1>1. PICK a : a = Layer("Keystore", err)
  OBVIOUS
<1>2. Of("Keystore", err) = <<a>> /\ a.kind = "Keystore" /\ a.err = err
  BY <1>1 DEF Of, Layer
<1>3. Head(unwrap_context(<<a>>)) = a /\ RootCause(<<a>>) = <<"Keystore", err>>
  BY <1>2, OneLayer
<1>4. exit_code_for(<<a>>) = IF err \in {"WrongPassphrase", "Encrypt"} THEN 3 ELSE 2
  BY <1>2, <1>3 DEF exit_code_for
<1>5. Documented(<<"Keystore", err>>) = IF err \in {"WrongPassphrase", "Encrypt"} THEN 3 ELSE 2
  BY DEF Documented
<1> QED BY <1>2, <1>3, <1>4, <1>5 DEF Told

LEMMA DepositTold ==
  ASSUME NEW err \in {"PubkeyMismatch", "SelfVerifyFailed"}
  PROVE  Told(Of("Deposit", err))
<1>1. PICK a : a = Layer("Deposit", err)
  OBVIOUS
<1>2. Of("Deposit", err) = <<a>> /\ a.kind = "Deposit" /\ a.err = err
  BY <1>1 DEF Of, Layer
<1>3. Head(unwrap_context(<<a>>)) = a /\ RootCause(<<a>>) = <<"Deposit", err>>
  BY <1>2, OneLayer
<1>4. exit_code_for(<<a>>) = DepositCode(err)
  BY <1>2, <1>3 DEF exit_code_for
<1>5. DepositCode(err) = IF err = "SelfVerifyFailed" THEN 3 ELSE 2
  BY DEF DepositCode
<1>6. Documented(<<"Deposit", err>>) = IF err = "SelfVerifyFailed" THEN 3 ELSE 2
  BY DEF Documented
<1> QED BY <1>2, <1>3, <1>4, <1>5, <1>6 DEF Told

LEMMA AbortedAndBlsTold ==
  ASSUME NEW err
  PROVE  Told(Aborted) /\ Told(Of("Bls", err))
<1>1. PICK a, b : a = Layer("Aborted", "Aborted") /\ b = Layer("Bls", err)
  OBVIOUS
<1>2. /\ Aborted = <<a>> /\ a.kind = "Aborted" /\ a.err = "Aborted"
      /\ Of("Bls", err) = <<b>> /\ b.kind = "Bls" /\ b.err = err
  BY <1>1 DEF Aborted, Of, Layer
<1>3. /\ Head(unwrap_context(<<a>>)) = a /\ RootCause(<<a>>) = <<"Aborted", "Aborted">>
      /\ Head(unwrap_context(<<b>>)) = b /\ RootCause(<<b>>) = <<"Bls", err>>
  BY <1>2, OneLayer
<1>4. exit_code_for(<<a>>) = 4
  BY <1>2, <1>3 DEF exit_code_for
<1>5. exit_code_for(<<b>>) = 1
  BY <1>2, <1>3 DEF exit_code_for
<1>6. Documented(<<"Aborted", "Aborted">>) = 4
  BY DEF Documented
<1>7. Documented(<<"Bls", err>>) = 1
  BY DEF Documented
<1> QED BY <1>2, <1>3, <1>4, <1>5, <1>6, <1>7 DEF Told

(* The errors of a node and of a broadcast are not wrapped; those of the     *)
(* builder are input errors.                                                 *)
NodeErrors == {"RpcDial", "RpcEstimation", "BroadcastFailed", "BroadcastChainIdMismatch"}

LEMMA NodeTold ==
  ASSUME NEW err \in NodeErrors
  PROVE  Told(Of("Tx", err))
<1>1. PICK a : a = Layer("Tx", err)
  OBVIOUS
<1>2. Of("Tx", err) = <<a>> /\ a.kind = "Tx" /\ a.err = err
  BY <1>1 DEF Of, Layer
<1>3. Head(unwrap_context(<<a>>)) = a /\ RootCause(<<a>>) = <<"Tx", err>>
  BY <1>2, OneLayer
<1>4. exit_code_for(<<a>>) = TxCode(err)
  BY <1>2, <1>3 DEF exit_code_for
<1>5. TxCode(err) = 5
  BY DEF TxCode, NodeErrors
<1>6. Documented(<<"Tx", err>>) = 5
  BY DEF Documented, NodeErrors
<1> QED BY <1>2, <1>3, <1>4, <1>5, <1>6 DEF Told

LEMMA InputTold ==
  ASSUME NEW err, err \notin NodeErrors
  PROVE  Told(input(Of("Tx", err)))
<1>1. PICK a, b : a = Layer("Input", "empty") /\ b = Layer("Tx", err)
  OBVIOUS
<1>2. input(Of("Tx", err)) = <<a, b>> /\ a.kind = "Input" /\ b.kind = "Tx" /\ b.err = err
  <2>1. <<a>> \o <<b>> = <<a, b>>
    BY Joined
  <2>2. input(Of("Tx", err)) = <<a>> \o <<b>>
    BY <1>1 DEF input, Of
  <2> QED BY <1>1, <2>1, <2>2 DEF Layer
<1>3. Head(unwrap_context(<<a, b>>)) = a
  <2>1. unwrap_context(<<a, b>>) = <<a, b>>
    BY <1>2, BareLayers
  <2> QED BY <2>1
<1>4. exit_code_for(<<a, b>>) = 2
  BY <1>2, <1>3 DEF exit_code_for
<1>5. RootCause(<<a, b>>) = <<"Tx", err>>
  BY <1>2 DEF RootCause, Last
<1>6. Documented(<<"Tx", err>>) = 2
  BY DEF Documented, NodeErrors
<1> QED BY <1>2, <1>4, <1>5, <1>6 DEF Told

(* The errors of a signer: whether it wraps them itself or not, the code is *)
(* that of the sentinel.                                                     *)
SignerErrors == {"UserRejected", "KeyFile", "Msg", "NoDevice", "AppNotOpen", "InvalidKey", "InvalidChainId",
                 "ChainIdMismatch", "LedgerNotSupported"}

LEMMA SignerTold ==
  ASSUME NEW err \in SignerErrors
  PROVE  Told(context(FromSigner(err)))
<1>1. PICK a, b, c : /\ a = Layer("Context", "empty") /\ b = Layer("Signer", "Context")
                     /\ c = Layer("Signer", err)
  OBVIOUS
<1>2. /\ a.kind = "Context" /\ b.kind = "Signer" /\ b.err = "Context" /\ c.kind = "Signer" /\ c.err = err
      /\ err # "Context"
  BY <1>1 DEF Layer, SignerErrors
<1>3. context(FromSigner(err)) = <<a, b, c>> \/ context(FromSigner(err)) = <<a, c>>
  <2>1. <<b>> \o <<c>> = <<b, c>> /\ <<>> \o <<c>> = <<c>>
    BY Joined
  <2>2. <<a>> \o <<b, c>> = <<a, b, c>> /\ <<a>> \o <<c>> = <<a, c>>
    BY Joined
  <2>3. FromSigner(err) = <<b>> \o <<c>> \/ FromSigner(err) = <<>> \o <<c>>
    BY <1>1 DEF FromSigner, Of
  <2>4. FromSigner(err) = <<b, c>> \/ FromSigner(err) = <<c>>
    BY <2>1, <2>3
  <2>5. context(FromSigner(err)) = <<a>> \o FromSigner(err)
    BY <1>1 DEF context
  <2> QED BY <2>2, <2>4, <2>5
<1>4. /\ RootCause(<<a, b, c>>) = <<"Signer", err>> /\ RootCause(<<a, c>>) = <<"Signer", err>>
  BY <1>2 DEF RootCause, Last
<1>5. exit_code_for(<<a, b, c>>) = SignerCode(err)
  <2>1. unwrap_context(<<a, b, c>>) = <<b, c>>
    BY <1>2, LayersUnder
  <2>2. Head(unwrap_context(<<a, b, c>>)) = b /\ sentinel(unwrap_context(<<a, b, c>>)).err = err
    BY <1>2, <2>1, SentinelUnder
  <2> QED BY <1>2, <2>2 DEF exit_code_for
<1>6. exit_code_for(<<a, c>>) = SignerCode(err)
  <2>1. unwrap_context(<<a, c>>) = <<c>>
    BY <1>2, LayersUnder
  <2>2. Head(unwrap_context(<<a, c>>)) = c /\ sentinel(unwrap_context(<<a, c>>)).err = err
    BY <1>2, <2>1, SentinelBare
  <2> QED BY <1>2, <2>2 DEF exit_code_for
<1>7. SignerCode(err) = IF err = "UserRejected" THEN 4 ELSE IF err = "KeyFile" THEN 2
                        ELSE IF err = "Msg" THEN 1 ELSE 3
  BY DEF SignerCode, SignerErrors
<1>8. Documented(<<"Signer", err>>) = IF err = "UserRejected" THEN 4 ELSE IF err = "KeyFile" THEN 2
                                      ELSE IF err = "Msg" THEN 1 ELSE 3
  BY DEF Documented, SignerErrors
<1> QED BY <1>3, <1>4, <1>5, <1>6, <1>7, <1>8 DEF Told

(* Fine results make fine results.                                           *)
NotWrite(r) == ~r.ok => r.err # "write"

LEMMA FineParts ==
  /\ \A v : Fine(Success(v))
  /\ \A r : NotWrite(r) => Fine(Usage(r))
  /\ \A holds, e : Told(e) => Fine(Require(holds, e))
  /\ \A w : w # "write" => Told(exit2(w))
  /\ \A r : Fine(As("Bip39", r)) /\ Fine(As("KeystoreNotFoundFor", r)) /\ Fine(As("Bip32", r)) /\ Fine(As("Bls", r))
  /\ \A r : (~r.ok => r.err # "SelfVerifyFailed") => Fine(As("Keystore", r))
  /\ \A r : (~r.ok => r.err \in {"PubkeyMismatch", "SelfVerifyFailed"}) => Fine(As("Deposit", r))
  /\ \A r : (~r.ok => r.err \in NodeErrors) => Fine(As("Tx", r))
<1>1. \A w : w # "write" => Told(exit2(w))
  BY ExitTold DEF exit2
<1>2. \A v : Fine(Success(v))
  BY DEF Fine, Success
<1>3. \A e : (Told(e) => Fine(Failure(e))) /\ Failure(e).err = e
  BY DEF Fine, Failure
<1>4. ASSUME NEW r, NotWrite(r) PROVE Fine(Usage(r))
  <2>1. CASE r.ok
    BY <2>1 DEF Usage, Fine
  <2>2. CASE ~r.ok
    <3>1. Told(exit2(r.err))
      BY <1>1, <1>4, <2>2 DEF NotWrite
    <3> QED BY <1>3, <2>2, <3>1 DEF Usage
  <2> QED BY <2>1, <2>2
<1>5. ASSUME NEW holds, NEW e, Told(e) PROVE Fine(Require(holds, e))
  BY <1>2, <1>3, <1>5 DEF Require
<1>6. ASSUME NEW kind, NEW r, ~r.ok => Told(Of(kind, r.err)) PROVE Fine(As(kind, r))
  <2>1. CASE r.ok
    BY <2>1 DEF As, Fine
  <2>2. CASE ~r.ok
    BY <1>3, <1>6, <2>2 DEF As
  <2> QED BY <2>1, <2>2
<1>7. \A r : Fine(As("Bip39", r)) /\ Fine(As("KeystoreNotFoundFor", r)) /\ Fine(As("Bip32", r)) /\ Fine(As("Bls", r))
  BY <1>6, UsageTold, CryptoTold, AbortedAndBlsTold
<1>8. \A r : (~r.ok => r.err # "SelfVerifyFailed") => Fine(As("Keystore", r))
  BY <1>6, KeystoreTold
<1>9. \A r : (~r.ok => r.err \in {"PubkeyMismatch", "SelfVerifyFailed"}) => Fine(As("Deposit", r))
  BY <1>6, DepositTold
<1>10. \A r : (~r.ok => r.err \in NodeErrors) => Fine(As("Tx", r))
  BY <1>6, NodeTold
<1> QED BY <1>1, <1>2, <1>4, <1>5, <1>7, <1>8, <1>9, <1>10

(* No flag is called write: the only exit with another code than 2.          *)
LEMMA CheckedFlag ==
  ASSUME NEW checks, DOMAIN checks \subseteq Nat, NEW config, \A i \in DOMAIN checks : checks[i].flag # "write"
  PROVE  NotWrite(Checked(checks, config))
<1> DEFINE bad == {i \in DOMAIN checks : ~checks[i].holds}
<1>1. Checked(checks, config) = IF bad = {} THEN Success(config) ELSE Failure(checks[Min(bad)].flag)
  BY Zenon DEF Checked
<1>2. bad # {} => Min(bad) \in DOMAIN checks
  <2>1. bad \subseteq Nat /\ bad \subseteq DOMAIN checks
    OBVIOUS
  <2> HIDE DEF bad
  <2> QED BY <2>1, MinOf
<1> HIDE DEF bad
<1>3. CASE bad = {}
  BY <1>1, <1>3 DEF NotWrite, Success
<1>4. CASE bad # {}
  BY <1>1, <1>2, <1>4 DEF NotWrite, Failure
<1> QED BY <1>3, <1>4

LEMMA SeedFine ==
  ASSUME NEW text, NEW pass, NEW deps, ~deps.keystore_pw.ok => deps.keystore_pw.err # "SelfVerifyFailed"
  PROVE  Fine(SeedAndPassword(text, pass, deps))
<1> DEFINE a == As("Keystore", deps.keystore_pw)
           b == As("Bip39", to_seed(text, pass))
<1>1. Fine(a) /\ Fine(b)
  BY FineParts
<1>2. SeedAndPassword(text, pass, deps) =
        IF a.ok THEN IF b.ok THEN Success([seed |-> b.value, password |-> a.value]) ELSE b ELSE a
  BY DEF SeedAndPassword, Then
<1> HIDE DEF a, b
<1> QED BY <1>1, <1>2, FineParts

LEMMA MakeKeyFine ==
  ASSUME NEW kind, NEW c, NEW start, NEW i, NEW deps
  PROVE  Fine(MakeKey(kind, c, start, i, deps))
<1>1. \A secret, pw, pk, salt, iv, cost :
        /\ LET r == encrypt(secret, pw, pk, salt, iv, cost) IN ~r.ok => r.err = "Encrypt"
        /\ LET r == encrypt_v3(secret, pw, pk, salt, iv, cost) IN ~r.ok => r.err = "Encrypt"
  BY DEF encrypt, encrypt_v3, Success, Failure
<1>2. \A seed, pw, n : Fine(ValidatorKeystore(seed, pw, n, deps))
  <2> SUFFICES ASSUME NEW seed, NEW pw, NEW n
               PROVE  Fine(ValidatorKeystore(seed, pw, n, deps))
    OBVIOUS
  <2> DEFINE sk == derive_path(seed, signing(n))
             pk == PublicKey(sk)
             file == encrypt(sk, pw, pk, [n |-> n, run |-> deps.run],
                             [len |-> 16, n |-> n, run |-> deps.run], STANDARD)
             a == As("Keystore", file)
             made == Success([entry |-> Listed([path |-> signing(n)], a.value), secret |-> sk, public |-> pk])
  <2>1. ValidatorKeystore(seed, pw, n, deps) =
          IF ~verify_derived_key(sk, pk) THEN Failure(Of("KeyVerifyFailed", "C1-C3"))
          ELSE IF a.ok THEN made ELSE a
    BY Zenon DEF ValidatorKeystore, Then
  <2>2. Fine(a)
    <3>1. ~file.ok => file.err # "SelfVerifyFailed"
      BY <1>1
    <3> HIDE DEF file
    <3> QED BY <3>1, FineParts
  <2>3. Fine(Failure(Of("KeyVerifyFailed", "C1-C3"))) /\ Fine(made)
    BY CryptoTold, FineParts DEF Fine, Failure
  <2> HIDE DEF a, made, sk, pk
  <2> QED BY <2>1, <2>2, <2>3
<1>3. \A seed, pw, n : Fine(AccountKeystore(seed, pw, n, deps))
  <2> SUFFICES ASSUME NEW seed, NEW pw, NEW n
               PROVE  Fine(AccountKeystore(seed, pw, n, deps))
    OBVIOUS
  <2> DEFINE d == As("Bip32", DeriveAccount(seed, eoa(n)))
             secret == Scalar(d.value.k)
             addr == secret_to_address(d.value.k)
             file == encrypt_v3(secret, pw, addr, [n |-> n, run |-> deps.run],
                                [len |-> 16, n |-> n, run |-> deps.run], STANDARD)
             a == As("Keystore", file)
             made == Success([entry |-> Listed([utc |-> v3_filename(addr, deps.now, 0)], a.value),
                              secret |-> secret, public |-> addr])
  <2>1. AccountKeystore(seed, pw, n, deps) = IF d.ok THEN IF a.ok THEN made ELSE a ELSE d
    BY Zenon DEF AccountKeystore, Then
  <2>2. Fine(a) /\ Fine(d) /\ Fine(made)
    <3>1. ~file.ok => file.err # "SelfVerifyFailed"
      BY <1>1
    <3> HIDE DEF file
    <3> QED BY <3>1, FineParts
  <2> HIDE DEF a, made, d
  <2> QED BY <2>1, <2>2
<1> QED BY <1>2, <1>3 DEF MakeKey

LEMMA WriteKeyFine ==
  ASSUME NEW c, NEW made, Fine(made), NEW i, NEW deps
  PROVE  Fine(WriteKey(c, made, i, deps))
<1> DEFINE q == Require(ReadBack(c, made.value, i, deps), Of("KeyVerifyFailed", "C4"))
<1>1. Fine(q) /\ Fine(Failure(Exit(3, "write")))
  <2>1. Told(Of("KeyVerifyFailed", "C4")) /\ Told(Exit(3, "write"))
    BY CryptoTold, ExitTold
  <2>2. Fine(q)
    BY <2>1, FineParts
  <2> HIDE DEF q
  <2> QED BY <2>1, <2>2 DEF Fine, Failure
<1>2. CASE ~made.ok
  <2>1. WriteKey(c, made, i, deps) = made
    BY <1>2, Zenon DEF WriteKey
  <2> QED BY <2>1
<1>3. CASE made.ok /\ deps.refused = i
  <2>1. WriteKey(c, made, i, deps) = Failure(Exit(3, "write"))
    BY <1>3, Zenon DEF WriteKey
  <2> QED BY <1>1, <2>1
<1>4. CASE made.ok /\ deps.refused # i
  <2>1. WriteKey(c, made, i, deps) = IF q.ok THEN made ELSE q
    BY <1>4, Zenon DEF WriteKey, Then
  <2> HIDE DEF q
  <2> QED BY <1>1, <2>1
<1> QED BY <1>2, <1>3, <1>4

LEMMA FinishFine ==
  ASSUME NEW kind, NEW c, NEW text, NEW pass, NEW deps,
         ~deps.keystore_pw.ok => deps.keystore_pw.err # "SelfVerifyFailed"
  PROVE  Fine(finish_from_mnemonic(kind, c, text, pass, deps).result)
<1> DEFINE out   == finish_from_mnemonic(kind, c, text, pass, deps)
           start == SeedAndPassword(text, pass, deps)
           made  == [n \in 1 .. c.count |-> MakeKey(kind, c, start.value, n, deps)]
           done  == [n \in 1 .. c.count |-> WriteKey(c, made[n], n, deps)]
           bad   == {n \in 1 .. c.count : ~done[n].ok}
           first == Min(bad)
           final == IF bad = {} THEN c.count
                    ELSE IF made[first].ok /\ deps.refused # first THEN first ELSE first - 1
           written == [n \in 1 .. final |-> OnDisk(made[n].value.entry, n, deps)]
<1>1. out = IF ~start.ok THEN [written |-> <<>>, result |-> start]
            ELSE [written |-> written, result |-> IF bad = {} THEN start ELSE done[first]]
  BY Zenon DEF finish_from_mnemonic
<1>2. out.result = start \/ (bad # {} /\ out.result = done[first])
  <2> HIDE DEF out, start, bad, written, done, first
  <2> QED BY <1>1
<1>3. Fine(start)
  BY SeedFine
<1>4. ASSUME bad # {} PROVE Fine(done[first])
  <2>1. first \in 1 .. c.count
    <3>1. bad \subseteq Nat /\ bad \subseteq 1 .. c.count
      OBVIOUS
    <3> HIDE DEF bad
    <3> QED BY <1>4, <3>1, MinOf
  <2> HIDE DEF first, start
  <2>2. done[first] = WriteKey(c, MakeKey(kind, c, start.value, first, deps), first, deps)
    BY <2>1
  <2>3. Fine(MakeKey(kind, c, start.value, first, deps))
    BY MakeKeyFine
  <2> HIDE DEF done
  <2> QED BY <2>2, <2>3, WriteKeyFine
<1> QED
  <2> HIDE DEF out, start, bad, done, first
  <2>1. Fine(out.result)
    BY <1>2, <1>3, <1>4
  <2> QED BY <2>1 DEF out

LEMMA MatchesFine ==
  ASSUME NEW args, NEW typed, NEW env
  PROVE  Fine(Usage(try_get_matches(args, typed, env)))
<1> DEFINE m == [f \in DOMAIN args |->
                   IF f \in DOMAIN typed THEN <<typed[f]>>
                   ELSE IF args[f].env /\ f \in DOMAIN env THEN <<env[f]>> ELSE args[f].default]
           h1 == DOMAIN typed \subseteq DOMAIN args
           h2 == \A f \in DOMAIN args : args[f].required => m[f] # Absent
           h3 == ~{"mnemonic-passphrase", "mnemonic-passphrase-file"} \subseteq DOMAIN typed
           checks == <<Check("usage", h1), Check("usage", h2), Check("usage", h3)>>
<1>1. try_get_matches(args, typed, env) = Checked(checks, m)
  BY Zenon DEF try_get_matches
<1>2. DOMAIN checks \subseteq Nat /\ \A i \in DOMAIN checks : checks[i].flag # "write"
  <2> HIDE DEF h1, h2, h3
  <2> QED BY DEF Check
<1>3. NotWrite(Checked(checks, m))
  <2> HIDE DEF checks, m
  <2> QED BY <1>2, CheckedFlag
<1> QED BY <1>1, <1>3, FineParts

LEMMA KeygenConfigFine ==
  ASSUME NEW m, NEW start
  PROVE  Fine(Usage(keygen_config(m, start)))
<1> DEFINE file == m["mnemonic-passphrase-file"]
           h1 == m["count"][1] # 0
           h2 == IndicesFit(start, m["count"][1])
           h3 == OutputDirGiven(m["output-dir"])
           h4 == \A i \in DOMAIN file : file[i].ok
           h5 == \A i \in DOMAIN m["passphrase-file"] : secret_file_arg(m["passphrase-file"][i])
           checks == <<Check("--count", h1), Check("--start-index", h2), Check("--output-dir", h3),
                       Check("--mnemonic-passphrase-file", h4), Check("--passphrase-file", h5)>>
           config == [count |-> m["count"][1], start_index |-> start,
                      mnemonic_passphrase |-> parse_mnemonic_passphrase_form(m),
                      passphrase_file |-> m["passphrase-file"]]
<1>1. keygen_config(m, start) = Checked(checks, config)
  BY Zenon DEF keygen_config, SecretFileCheck
<1>2. DOMAIN checks \subseteq Nat /\ \A i \in DOMAIN checks : checks[i].flag # "write"
  <2> HIDE DEF h1, h2, h3, h4, h5
  <2> QED BY DEF Check
<1>3. NotWrite(Checked(checks, config))
  <2> HIDE DEF checks, config
  <2> QED BY <1>2, CheckedFlag
<1> QED BY <1>1, <1>3, FineParts

LEMMA PassphraseFine ==
  ASSUME NEW c, NEW asked, NEW confirm
  PROVE  Fine(resolve_mnemonic_passphrase(c, asked, confirm))
<1>1. Told(exit2("mnemonic-passphrases-do-not-match"))
  BY FineParts
<1>2. /\ Fine(Success(Bytes("empty", "plain"))) /\ Fine(Success(c.mnemonic_passphrase.value))
      /\ Fine(Success(asked[1])) /\ Fine(Failure(exit2("mnemonic-passphrases-do-not-match")))
  BY <1>1, FineParts DEF Fine, Failure
<1>3. PICK form : form = c.mnemonic_passphrase
  OBVIOUS
<1>4. PICK a, b, d, e : /\ a = Success(Bytes("empty", "plain")) /\ b = Success(form.value)
                        /\ d = Success(asked[1]) /\ e = Failure(exit2("mnemonic-passphrases-do-not-match"))
  OBVIOUS
<1>5. resolve_mnemonic_passphrase(c, asked, confirm) \in {a, b, d, e}
  <2>1. CASE form.form = "empty"
    BY <1>3, <1>4, <2>1, Zenon DEF resolve_mnemonic_passphrase
  <2>2. CASE form.form \in {"raw", "file"}
    <3>1. form.form # "empty"
      BY <2>2
    <3> QED BY <1>3, <1>4, <2>2, <3>1, Zenon DEF resolve_mnemonic_passphrase
  <2>3. CASE form.form \notin {"empty", "raw", "file"} /\ confirm /\ asked[1] # asked[2]
    BY <1>3, <1>4, <2>3, Zenon DEF resolve_mnemonic_passphrase
  <2>4. CASE form.form \notin {"empty", "raw", "file"} /\ ~(confirm /\ asked[1] # asked[2])
    BY <1>3, <1>4, <2>4, Zenon DEF resolve_mnemonic_passphrase
  <2> QED BY <2>1, <2>2, <2>3, <2>4
<1> QED BY <1>2, <1>3, <1>4, <1>5

(* Entropy of the longest mnemonic: what run_new draws.                      *)
LongestWords(entropy) ==
  LET words == entropy_to_mnemonic(entropy) IN words.ok => \A n \in WordCounts : n <= Len(words.value)

LEMMA FreshFine ==
  ASSUME NEW c, NEW deps, LongestWords(deps.entropy)
  PROVE  Fine(Fresh(c, deps))
<1> DEFINE words == As("Bip39", entropy_to_mnemonic(deps.entropy))
           long  == Require(\A n \in WordCounts : n <= Len(words.value), Internal)
           pass  == resolve_mnemonic_passphrase(c, deps.asked, TRUE)
           same  == Require(mnemonics_match(words.value, deps.typed), Aborted)
           made  == Success([text |-> Typed(words.value), pass |-> pass.value])
<1>1. Fresh(c, deps) = IF words.ok THEN IF long.ok THEN IF pass.ok THEN IF same.ok THEN made ELSE same
                                                        ELSE pass ELSE long ELSE words
  BY Zenon DEF Fresh, Then
<1>2. Fine(words) /\ Fine(pass) /\ Fine(same) /\ Fine(made)
  BY FineParts, PassphraseFine, AbortedAndBlsTold
<1>3. words.ok => long.ok
  <2>1. words.ok => words = entropy_to_mnemonic(deps.entropy)
    BY DEF As, Failure
  <2> HIDE DEF words
  <2> QED BY <2>1 DEF LongestWords, Require, Success
<1> HIDE DEF words, pass, same, made, long
<1> QED BY <1>1, <1>2, <1>3

LEMMA RecoveredFine ==
  ASSUME NEW c, NEW deps
  PROVE  Fine(Recovered(c, deps))
<1> DEFINE words == As("Bip39", validate_mnemonic(deps.typed))
           pass  == resolve_mnemonic_passphrase(c, deps.asked, FALSE)
           made  == Success([text |-> deps.typed, pass |-> pass.value])
<1>1. Recovered(c, deps) = IF words.ok THEN IF pass.ok THEN made ELSE pass ELSE words
  BY Zenon DEF Recovered, Then
<1>2. Fine(words) /\ Fine(pass) /\ Fine(made)
  BY FineParts, PassphraseFine
<1> HIDE DEF words, pass, made
<1> QED BY <1>1, <1>2

LEMMA KeygenFine ==
  ASSUME NEW kind, NEW new \in BOOLEAN, NEW args, NEW deps,
         ~deps.keystore_pw.ok => deps.keystore_pw.err # "SelfVerifyFailed",
         new => LongestWords(deps.entropy)
  PROVE  Fine(keygen(kind, new, args, deps).result)
<1> DEFINE out   == keygen(kind, new, args, deps)
           m     == Usage(try_get_matches(RunFlags(kind, new), args, <<>>))
           tty   == Require(new => require_tty_for_new(deps.tty), exit2("not-a-tty"))
           k     == Usage(keygen_config(m.value, IF new THEN 0 ELSE m.value["start-index"][1]))
           given == Success([verify_keystore |-> kind = "validator" /\ ~m.value["no-verify"][1],
                             count |-> k.value.count, start_index |-> k.value.start_index,
                             mnemonic_passphrase |-> k.value.mnemonic_passphrase])
           c     == IF m.ok THEN IF tty.ok THEN IF k.ok THEN given ELSE k ELSE tty ELSE m
           from  == IF c.ok THEN IF new THEN Fresh(c.value, deps) ELSE Recovered(c.value, deps) ELSE c
           keys_ == finish_from_mnemonic(kind, c.value, from.value.text, from.value.pass, deps)
<1>1. out = IF ~from.ok THEN NoKeys(from.err)
            ELSE [from |-> from, written |-> keys_.written, result |-> keys_.result]
  BY Zenon DEF keygen, RunFlags, Then
<1>2. Fine(m) /\ Fine(tty) /\ Fine(k) /\ Fine(given)
  BY MatchesFine, KeygenConfigFine, FineParts
<1>3. Fine(c)
  <2> HIDE DEF m, tty, k, given
  <2> QED BY <1>2
<1>4. Fine(from)
  <2> HIDE DEF c
  <2> QED BY <1>3, FreshFine, RecoveredFine
<1>5. Fine(keys_.result)
  <2> HIDE DEF c, from
  <2> QED BY FinishFine
<1>6. Fine(out.result)
  <2> HIDE DEF from, keys_, out
  <2>1. CASE from.ok
    <3>1. out.result = keys_.result
      BY <1>1, <2>1
    <3> QED BY <1>5, <3>1
  <2>2. CASE ~from.ok
    <3>1. out.result = Failure(from.err)
      BY <1>1, <2>2 DEF NoKeys
    <3> QED BY <1>4, <2>2, <3>1 DEF Fine, Failure
  <2> QED BY <2>1, <2>2
<1> HIDE DEF out
<1> QED BY <1>6 DEF out

LEMMA GenConfigFine ==
  ASSUME NEW m
  PROVE  Fine(Usage(gen_config(m)))
<1> DEFINE net  == m["network"][1]
           keys_ == parse_pubkeys(m["pubkeys"][1])
           wd   == m["withdrawal-address"]
           h1 == parse_flag(net).ok /\ net \in {"mainnet", "hoodi"}
           h2 == net = "mainnet" => m["i-understand-this-is-mainnet"][1]
           h3 == keys_.ok
           h4 == validate_keystore_dir(m["keystore-dir"][1])
           h5 == m["dry-run"][1] \/ OutputDirGiven(m["output-dir"])
           h6 == m["parallel"][1] \in 1 .. MaxParallel
           h7 == wd # Absent /\ validate_eip55_address(wd[1])
           h8 == wd # Absent /\ wd[1].address # ZeroAddress
           h9 == \A i \in DOMAIN m["passphrase-file"] : secret_file_arg(m["passphrase-file"][i])
           checks == <<Check("--network", h1), Check("mainnet", h2), Check("--pubkeys", h3),
                       Check("--keystore-dir", h4), Check("--output-dir", h5), Check("--parallel", h6),
                       Check("--withdrawal-address", h7), Check("--withdrawal-address", h8),
                       Check("--passphrase-file", h9)>>
           config == [network |-> net, pubkeys |-> keys_.value, dry_run |-> m["dry-run"][1],
                      withdrawal_credentials |-> eth1_withdrawal_credentials(wd[1].address),
                      passphrase_file |-> m["passphrase-file"]]
<1>1. gen_config(m) = Checked(checks, config)
  BY Zenon DEF gen_config, SecretFileCheck
<1>2. DOMAIN checks \subseteq Nat /\ \A i \in DOMAIN checks : checks[i].flag # "write"
  <2> HIDE DEF h1, h2, h3, h4, h5, h6, h7, h8, h9
  <2> QED BY DEF Check
<1>3. NotWrite(Checked(checks, config))
  <2> HIDE DEF checks, config
  <2> QED BY <1>2, CheckedFlag
<1> QED BY <1>1, <1>3, FineParts

LEMMA DecryptErrors ==
  ASSUME NEW f, NEW pass, ~decrypt(f, pass).ok
  PROVE  decrypt(f, pass).err \in {"KeystoreMalformed", "WrongPassphrase"}
<1> DEFINE bad   == Failure("KeystoreMalformed")
           wrong == Failure("WrongPassphrase")
           good  == Success(Decipher(derive_key(f, normalize_passphrase(pass)).value, f.iv, f.cipher))
<1>1. PICK S : S = {bad, wrong, good}
  OBVIOUS
<1>2. bad \in S /\ wrong \in S /\ good \in S
  BY <1>1
<1>3. decrypt(f, pass) \in S
  BY <1>2, Zenon DEF decrypt
<1>4. good.ok /\ bad.err = "KeystoreMalformed" /\ wrong.err = "WrongPassphrase"
  BY DEF Success, Failure
<1> HIDE DEF bad, wrong, good
<1> QED BY <1>1, <1>3, <1>4

LEMMA LoadErrors ==
  ASSUME NEW entry, NEW pass
  PROVE  ~load(entry, pass).ok => load(entry, pass).err # "SelfVerifyFailed"
<1> DEFINE e1 == Failure("KeystoreMissing")
           e2 == Failure("ReadFile")
           e3 == Failure("KeystoreMalformed")
           e4 == Failure("KeystoreVersion")
           e5 == Failure("PassphraseSource")
           secret == decrypt(entry.body, pass.value)
           good == Success([secret |-> secret.value, pubkey |-> normalize_pubkey(entry.body.pubkey)])
           rest == IF entry.body.crypto = "missing" THEN e3 ELSE IF ~pass.ok THEN e5
                   ELSE IF ~secret.ok THEN secret ELSE good
<1>1. load(entry, pass) \in {e1, e2, e3, e4, rest}
  <2> HIDE DEF e1, e2, e3, e4, rest
  <2>1. load(entry, pass) =
          CASE entry.access = "missing" -> e1
            [] entry.access = "denied" -> e2
            [] entry.access = "ok" /\ ~entry.json -> e3
            [] entry.access = "ok" /\ entry.json /\ entry.body.version # 4 -> e4
            [] OTHER -> rest
    BY Zenon DEF load, e1, e2, e3, e4, rest
  <2>2. CASE entry.access = "missing"
    BY <2>1, <2>2, Zenon
  <2>3. CASE entry.access = "denied"
    BY <2>1, <2>3, Zenon
  <2>4. CASE entry.access = "ok" /\ ~entry.json
    BY <2>1, <2>4, Zenon
  <2>5. CASE entry.access = "ok" /\ entry.json /\ entry.body.version # 4
    BY <2>1, <2>5, Zenon
  <2>6. CASE /\ entry.access # "missing" /\ entry.access # "denied" /\ ~(entry.access = "ok" /\ ~entry.json)
             /\ ~(entry.access = "ok" /\ entry.json /\ entry.body.version # 4)
    BY <2>1, <2>6, Zenon
  <2> QED BY <2>2, <2>3, <2>4, <2>5, <2>6, Zenon
<1>2. \A e \in {e1, e2, e3, e4, e5} : e.err # "SelfVerifyFailed"
  BY DEF Failure
<1>3. ~secret.ok => secret.err # "SelfVerifyFailed"
  BY DecryptErrors
<1>4. good.ok
  BY DEF Success
<1>5. rest \in {e3, e5, good} \/ (rest = secret /\ ~secret.ok)
  <2> HIDE DEF e3, e5, secret, good
  <2> QED OBVIOUS
<1> HIDE DEF e1, e2, e3, e4, e5, rest, secret, good
<1> QED BY <1>1, <1>2, <1>3, <1>4, <1>5

LEMMA GenerateErrors ==
  ASSUME NEW sk, NEW pubkey, NEW network, NEW wc, ~Generate(sk, pubkey, network, wc).ok
  PROVE  Generate(sk, pubkey, network, wc).err \in {"PubkeyMismatch", "SelfVerifyFailed"}
<1> DEFINE p    == lookup_network[network]
           msg  == [pubkey |-> pubkey, withdrawal_credentials |-> wc, amount |-> Amount]
           root == compute_signing_root(DepositMessageRoot(msg),
                                        compute_domain(DOMAIN_DEPOSIT, p.genesis_fork_version))
           sig  == Signature(sk, root)
           made == Success(
             [pubkey |-> pubkey, withdrawal_credentials |-> wc, amount |-> Amount, signature |-> sig,
              deposit_message_root |-> DepositMessageRoot(msg),
              deposit_data_root |->
                DepositDataRoot([pubkey |-> pubkey, withdrawal_credentials |-> wc, amount |-> Amount,
                                 signature |-> sig]),
              fork_version |-> p.genesis_fork_version, network_name |-> p.name])
           g1 == PublicKey(sk) # pubkey
           g2 == verify(pubkey, root, sig) # Success(TRUE)
           e1 == Failure("PubkeyMismatch")
           e2 == Failure("SelfVerifyFailed")
<1>1. Generate(sk, pubkey, network, wc) = CASE g1 -> e1 [] g2 -> e2 [] OTHER -> made
  BY Zenon DEF Generate
<1>2. made.ok /\ e1.err = "PubkeyMismatch" /\ e2.err = "SelfVerifyFailed"
  BY Results DEF Failure
<1> HIDE DEF g1, g2, e1, e2, made
<1>3. (g1 \/ g2) => Generate(sk, pubkey, network, wc) \in {e1, e2}
  <2>1. CASE g1 \/ g2
    <3>1. Generate(sk, pubkey, network, wc) = e1 \/ Generate(sk, pubkey, network, wc) = e2
      BY <1>1, <2>1, Zenon
    <3> QED BY <3>1
  <2> QED BY <2>1
<1>4. ~(g1 \/ g2) => Generate(sk, pubkey, network, wc) = made
  BY <1>1, Zenon
<1> QED BY <1>2, <1>3, <1>4

LEMMA PubkeyFine ==
  ASSUME NEW c, NEW listing, NEW pass, NEW pubkey
  PROVE  Fine(process_pubkey(c, listing, pass, pubkey))
<1> DEFINE found == As("KeystoreNotFoundFor", lookup(listing, [key |-> pubkey, form |-> "bare"]))
           key   == As("Keystore", load(found.value, pass))
           sk    == As("Bls", new_signer(key.value.secret))
           made  == As("Deposit", Generate(sk.value, pubkey, c.network, c.withdrawal_credentials))
<1>1. process_pubkey(c, listing, pass, pubkey) =
        IF found.ok THEN IF key.ok THEN IF sk.ok THEN made ELSE sk ELSE key ELSE found
  BY Zenon DEF process_pubkey, Then
<1>2. Fine(found) /\ Fine(sk)
  BY FineParts
<1>3. Fine(key)
  <2> HIDE DEF found
  <2> QED BY LoadErrors, FineParts
<1>4. Fine(made)
  <2> HIDE DEF sk
  <2> QED BY GenerateErrors, FineParts
<1> HIDE DEF found, key, sk, made
<1> QED BY <1>1, <1>2, <1>3, <1>4

(* A flag that must be given is. *)
LEMMA RequiredGiven ==
  ASSUME NEW args, NEW typed, NEW env, try_get_matches(args, typed, env).ok, NEW f \in DOMAIN args, args[f].required
  PROVE  try_get_matches(args, typed, env).value[f] # Absent
<1> DEFINE m == [g \in DOMAIN args |->
                   IF g \in DOMAIN typed THEN <<typed[g]>>
                   ELSE IF args[g].env /\ g \in DOMAIN env THEN <<env[g]>> ELSE args[g].default]
           h1 == DOMAIN typed \subseteq DOMAIN args
           h2 == \A g \in DOMAIN args : args[g].required => m[g] # Absent
           h3 == ~{"mnemonic-passphrase", "mnemonic-passphrase-file"} \subseteq DOMAIN typed
           checks == <<Check("usage", h1), Check("usage", h2), Check("usage", h3)>>
           r == try_get_matches(args, typed, env)
<1>1. r = Checked(checks, m)
  BY Zenon DEF try_get_matches
<1>2. r.value = m /\ \A i \in DOMAIN checks : checks[i].holds
  <2> HIDE DEF checks, m
  <2> QED BY <1>1, CheckedOk
<1>3. h2
  <2>1. 2 \in DOMAIN checks /\ checks[2] = Check("usage", h2)
    <3> HIDE DEF h1, h2, h3
    <3> QED OBVIOUS
  <2> HIDE DEF checks, h2
  <2> QED BY <1>2, <2>1 DEF Check
<1> HIDE DEF m, checks, r
<1>4. r.value[f] # Absent
  BY <1>2, <1>3
<1> QED BY <1>4 DEF r

(* A list of pubkeys as gen was given it: what is refused is the first.      *)
LEMMA ErrorFine ==
  ASSUME NEW made, DOMAIN made \subseteq Nat, \A i \in DOMAIN made : Fine(made[i])
  PROVE  Fine(FirstErrorOr(made))
<1> DEFINE bad == {i \in DOMAIN made : ~made[i].ok}
<1>1. FirstErrorOr(made) = IF bad # {} THEN Failure(made[Min(bad)].err) ELSE Success([i \in DOMAIN made |-> made[i].value])
  BY Zenon DEF FirstErrorOr
<1>2. bad # {} => Told(made[Min(bad)].err)
  <2>1. bad \subseteq Nat /\ \A i \in bad : Told(made[i].err)
    BY DEF Fine
  <2> HIDE DEF bad
  <2> QED BY <2>1, MinOf
<1> HIDE DEF bad
<1>3. CASE bad = {}
  BY <1>1, <1>3, FineParts
<1>4. CASE bad # {}
  BY <1>1, <1>2, <1>4 DEF Fine, Failure
<1> QED BY <1>3, <1>4

LEMMA RunGenFine ==
  ASSUME NEW c, NEW listing, NEW pass, DOMAIN c.pubkeys \subseteq Nat
  PROVE  Fine(run_gen(c, listing, pass))
<1> DEFINE made == [i \in DOMAIN c.pubkeys |-> process_pubkey(c, listing, pass, c.pubkeys[i])]
<1>1. run_gen(c, listing, pass) = FirstErrorOr(made)
  BY DEF run_gen
<1>2. DOMAIN made = DOMAIN c.pubkeys /\ \A i \in DOMAIN made : made[i] = process_pubkey(c, listing, pass, c.pubkeys[i])
  OBVIOUS
<1> HIDE DEF made
<1>3. \A i \in DOMAIN made : Fine(made[i])
  BY <1>2, PubkeyFine
<1> QED BY <1>1, <1>2, <1>3, ErrorFine

LEMMA PubkeysOfGen ==
  ASSUME NEW m, gen_config(m).ok
  PROVE  DOMAIN gen_config(m).value.pubkeys = DOMAIN m["pubkeys"][1]
<1> DEFINE net  == m["network"][1]
           list == m["pubkeys"][1]
           keys_ == parse_pubkeys(list)
           wd   == m["withdrawal-address"]
           h1 == parse_flag(net).ok /\ net \in {"mainnet", "hoodi"}
           h2 == net = "mainnet" => m["i-understand-this-is-mainnet"][1]
           h3 == keys_.ok
           h4 == validate_keystore_dir(m["keystore-dir"][1])
           h5 == m["dry-run"][1] \/ OutputDirGiven(m["output-dir"])
           h6 == m["parallel"][1] \in 1 .. MaxParallel
           h7 == wd # Absent /\ validate_eip55_address(wd[1])
           h8 == wd # Absent /\ wd[1].address # ZeroAddress
           h9 == \A i \in DOMAIN m["passphrase-file"] : secret_file_arg(m["passphrase-file"][i])
           checks == <<Check("--network", h1), Check("mainnet", h2), Check("--pubkeys", h3),
                       Check("--keystore-dir", h4), Check("--output-dir", h5), Check("--parallel", h6),
                       Check("--withdrawal-address", h7), Check("--withdrawal-address", h8),
                       Check("--passphrase-file", h9)>>
           config == [network |-> net, pubkeys |-> keys_.value, dry_run |-> m["dry-run"][1],
                      withdrawal_credentials |-> eth1_withdrawal_credentials(wd[1].address),
                      passphrase_file |-> m["passphrase-file"]]
<1>1. gen_config(m) = Checked(checks, config)
  BY Zenon DEF gen_config, SecretFileCheck
<1>2. gen_config(m).value = config /\ \A i \in DOMAIN checks : checks[i].holds
  <2> HIDE DEF checks, config
  <2> QED BY <1>1, CheckedOk
<1>3. h3
  <2>1. 3 \in DOMAIN checks /\ checks[3] = Check("--pubkeys", h3)
    <3> HIDE DEF h1, h2, h3, h4, h5, h6, h7, h8, h9
    <3> QED OBVIOUS
  <2> HIDE DEF checks, h3
  <2> QED BY <1>2, <2>1 DEF Check
<1>4. keys_.value = [i \in DOMAIN list |-> list[i].key]
  <2>1. \E checks_ : keys_ = Checked(checks_, [i \in DOMAIN list |-> list[i].key])
    BY Zenon DEF parse_pubkeys
  <2> QED BY <1>3, <2>1, CheckedOk
<1>5. config.pubkeys = keys_.value
  <2> HIDE DEF keys_
  <2> QED OBVIOUS
<1> HIDE DEF config, keys_
<1> QED BY <1>2, <1>4, <1>5

LEMMA GenFine ==
  ASSUME NEW args, NEW listing, NEW pass, ~pass.ok => pass.err # "SelfVerifyFailed",
         "pubkeys" \in DOMAIN args => DOMAIN args["pubkeys"] \subseteq Nat
  PROVE  Fine(deposit_gen(args, listing, pass))
<1> DEFINE got == try_get_matches(gen_args, args, <<>>)
           m == Usage(got)
           c == Usage(gen_config(m.value))
           read == IF c.value.passphrase_file # Absent THEN As("Keystore", pass) ELSE Success("asked-for")
           entries == run_gen(c.value, listing, pass)
           made == Success([dry_run |-> c.value.dry_run, json |-> TRUE, entries |-> entries.value])
<1>1. deposit_gen(args, listing, pass) =
        IF m.ok THEN IF c.ok THEN IF read.ok THEN IF entries.ok THEN made ELSE entries
                                  ELSE read ELSE c ELSE m
  BY Zenon DEF deposit_gen, Then
<1>2. Fine(m) /\ Fine(c) /\ Fine(read) /\ Fine(made)
  <2>1. Fine(m) /\ Fine(c) /\ Fine(made)
    BY MatchesFine, GenConfigFine, FineParts
  <2>2. Fine(As("Keystore", pass)) /\ Fine(Success("asked-for"))
    BY FineParts
  <2>3. Fine(read)
    <3> HIDE DEF c
    <3> QED BY <2>2
  <2> QED BY <2>1, <2>3
<1>3. ASSUME m.ok, c.ok
      PROVE  DOMAIN c.value.pubkeys \subseteq Nat
  <2>1. got.ok /\ m.value = got.value
    <3> HIDE DEF got
    <3> QED BY <1>3, Results DEF Usage
  <2>2. PICK v : v = got.value
    OBVIOUS
  <2>3. /\ gen_args["pubkeys"] = Flag(TRUE, FALSE, Absent) /\ "pubkeys" \in DOMAIN gen_args
    BY DEF gen_args, :=, ++
  <2>4. /\ gen_args["pubkeys"].required /\ ~gen_args["pubkeys"].env /\ gen_args["pubkeys"].default = Absent
    BY <2>3 DEF Flag
  <2>5. v["pubkeys"] = IF "pubkeys" \in DOMAIN args THEN <<args["pubkeys"]>> ELSE Absent
    <3>1. v = [f \in DOMAIN gen_args |->
                IF f \in DOMAIN args THEN <<args[f]>>
                ELSE IF gen_args[f].env /\ f \in DOMAIN <<>> THEN <<<<>>[f]>> ELSE gen_args[f].default]
      BY <2>1, <2>2, Matched
    <3> QED BY <2>3, <2>4, <3>1
  <2>6. v["pubkeys"] # Absent
    BY <2>1, <2>2, <2>3, <2>4, RequiredGiven
  <2>7. DOMAIN v["pubkeys"][1] \subseteq Nat
    BY <2>5, <2>6
  <2>8. c.ok /\ c = Usage(gen_config(v))
    BY <1>3, <2>1, <2>2
  <2>9. gen_config(v).ok /\ c.value = gen_config(v).value
    <3> HIDE DEF c
    <3> QED BY <2>8, Results DEF Usage
  <2> HIDE DEF c
  <2> QED BY <2>7, <2>9, PubkeysOfGen
<1>4. m.ok /\ c.ok => Fine(entries)
  <2> HIDE DEF m, c
  <2> QED BY <1>3, RunGenFine
<1> HIDE DEF m, c, read, entries, made
<1> QED BY <1>1, <1>2, <1>4

(* What is not a quantity of the node, and what is wrong with the input of   *)
(* the builder.                                                              *)
CallErrors  == {"transport", "body", "rpc-error", "quantity"}
BuildErrors == CallErrors \cup {"MissingFromForNonce", "ChainIdMismatch", "MissingStatic", "InvalidEntry"}
FailsIn(r, errors) == ~r.ok => r.err \in errors

LEMMA QuantityErrors ==
  ASSUME NEW answer, NEW modulus
  PROVE  FailsIn(Quantities(answer, modulus), CallErrors)
<1> DEFINE r == call(answer)
           q == parse_hex(r.value, modulus)
<1>1. FailsIn(r, CallErrors)
  <2> DEFINE a == Failure("transport")
             b == Failure("body")
             c == Failure("rpc-error")
             d == Success(answer.result)
  <2>1. PICK S : S = {a, b, c, d}
    OBVIOUS
  <2>2. a \in S /\ b \in S /\ c \in S /\ d \in S
    BY <2>1
  <2>3. r \in S
    BY <2>2, Zenon DEF call
  <2>4. a.err = "transport" /\ b.err = "body" /\ c.err = "rpc-error" /\ d.ok
    BY DEF Success, Failure
  <2> HIDE DEF a, b, c, d, r
  <2> QED BY <2>1, <2>3, <2>4 DEF FailsIn, CallErrors
<1>2. FailsIn(q, CallErrors)
  <2> HIDE DEF r
  <2> QED BY Results DEF parse_hex, FailsIn, CallErrors, Failure
<1>3. Quantities(answer, modulus) = IF r.ok THEN q ELSE r
  BY Zenon DEF Quantities
<1> HIDE DEF r, q
<1> QED BY <1>1, <1>2, <1>3

LEMMA AnswerErrors ==
  ASSUME NEW node
  PROVE  LET n == Answers(node)
         IN  /\ FailsIn(n.chain_id, CallErrors) /\ FailsIn(n.tip, CallErrors) /\ FailsIn(n.base_fee, CallErrors)
             /\ FailsIn(n.nonce, CallErrors) /\ FailsIn(n.estimate, CallErrors)
BY QuantityErrors DEF Answers, chain_id, suggest_gas_tip_cap, block_base_fee, pending_nonce_at, estimate_gas

LEMMA ResolveErrors ==
  ASSUME NEW c, NEW node
  PROVE  FailsIn(resolve_rpc(c, Answers(node)), BuildErrors)
<1> DEFINE n     == Answers(node)
           chain_ == n.chain_id
           tip   == IF c.tip # Unset THEN Success(c.tip) ELSE n.tip
           base  == IF c.max_fee # Unset THEN Success(0) ELSE n.base_fee
           sent  == IF c.from = NoSender THEN Failure("MissingFromForNonce") ELSE n.nonce
           nonce == IF c.nonce # Unset THEN Success(c.nonce) ELSE sent
           gas   == IF c.gas # 0 THEN Success(0) ELSE n.estimate
           asked == <<tip, base, nonce, gas>>
           bad   == {i \in DOMAIN asked : ~asked[i].ok}
           first == asked[Min(bad)]
           other == Failure("ChainIdMismatch")
           good  == Success(Resolved(IF c.gas # 0 THEN c.gas ELSE gas_limit(gas.value),
                                     IF c.max_fee # Unset THEN c.max_fee ELSE max_fee(base.value, tip.value),
                                     tip.value, nonce.value))
           g1    == chain_.ok /\ chain_.value # 0 /\ chain_.value # c.params.chain_id
<1>1. resolve_rpc(c, n) = CASE g1 -> other [] bad # {} -> first [] OTHER -> good
  BY Zenon DEF resolve_rpc
<1>2. /\ FailsIn(tip, BuildErrors) /\ FailsIn(base, BuildErrors) /\ FailsIn(nonce, BuildErrors)
      /\ FailsIn(gas, BuildErrors)
  <2>1. \A v : FailsIn(Success(v), BuildErrors)
    BY DEF FailsIn, Success
  <2>2. /\ FailsIn(n.tip, BuildErrors) /\ FailsIn(n.base_fee, BuildErrors) /\ FailsIn(n.nonce, BuildErrors)
        /\ FailsIn(n.estimate, BuildErrors)
    BY AnswerErrors DEF FailsIn, BuildErrors
  <2>3. FailsIn(sent, BuildErrors)
    <3> HIDE DEF n
    <3> QED BY <2>2 DEF FailsIn, BuildErrors, Failure
  <2> HIDE DEF n, sent
  <2> QED BY <2>1, <2>2, <2>3
<1>3. bad # {} => first.err \in BuildErrors
  <2> HIDE DEF tip, base, nonce, gas
  <2>1. bad \subseteq Nat /\ bad \subseteq 1 .. 4 /\ \A i \in bad : ~asked[i].ok
    OBVIOUS
  <2>2. \A i \in 1 .. 4 : FailsIn(asked[i], BuildErrors)
    BY <1>2
  <2> HIDE DEF bad, asked
  <2>3. bad # {} => Min(bad) \in bad
    BY <2>1, MinOf
  <2> QED BY <2>1, <2>2, <2>3 DEF FailsIn
<1>4. other.err = "ChainIdMismatch" /\ good.ok
  BY DEF Success, Failure
<1>5. PICK S : S = {other, good} \cup (IF bad # {} THEN {first} ELSE {})
  OBVIOUS
<1>6. other \in S /\ good \in S /\ (bad # {} => first \in S)
  <2> HIDE DEF bad, first, other, good
  <2> QED BY <1>5
<1>7. resolve_rpc(c, n) \in S
  <2> HIDE DEF bad, first, other, good, g1
  <2>1. CASE bad # {}
    <3>1. first \in S
      BY <1>6, <2>1
    <3>2. (CASE g1 -> other [] bad # {} -> first [] OTHER -> good) \in S
      BY <1>6, <3>1, Zenon
    <3> QED BY <1>1, <3>2, Zenon
  <2>2. CASE ~(bad # {})
    <3>2. (CASE g1 -> other [] bad # {} -> first [] OTHER -> good) \in S
      BY <1>6, <2>2, Zenon
    <3> QED BY <1>1, <3>2, Zenon
  <2> QED BY <2>1, <2>2
<1> HIDE DEF bad, first, other, good
<1> QED BY <1>3, <1>4, <1>5, <1>7 DEF FailsIn, BuildErrors

LEMMA BuilderErrors ==
  ASSUME NEW entry, NEW c, NEW node
  PROVE  FailsIn(build_unsigned(entry, c, Answers(node)), BuildErrors)
<1> DEFINE r    == resolve_fields(c, Answers(node))
           g    == ValidEntry(entry)
           bad  == Failure("InvalidEntry")
           good == Success(
             [chain_id |-> c.params.chain_id, to |-> Address(c.params.deposit_contract_address),
              value |-> Quantity(32), data |-> Quantity(pack_deposit(entry)),
              gas |-> r.value.gas, maxFeePerGas |-> Quantity(r.value.max_fee),
              maxPriorityFeePerGas |-> Quantity(r.value.tip), nonce |-> r.value.nonce])
<1>1. build_unsigned(entry, c, Answers(node)) = CASE ~g -> bad [] g /\ ~r.ok -> r [] OTHER -> good
  BY Zenon DEF build_unsigned
<1>2. FailsIn(r, BuildErrors)
  <2>1. FailsIn(resolve_static(c), BuildErrors)
    BY Results DEF resolve_static, FailsIn, BuildErrors, Failure
  <2> QED BY <2>1, ResolveErrors DEF resolve_fields
<1>3. bad.err = "InvalidEntry" /\ good.ok
  BY DEF Success, Failure
<1> HIDE DEF r, g, bad, good
<1>4. CASE ~g
  BY <1>1, <1>3, <1>4, Zenon DEF FailsIn, BuildErrors
<1>5. CASE g /\ ~r.ok
  BY <1>1, <1>2, <1>5, Zenon
<1>6. CASE g /\ r.ok
  BY <1>1, <1>3, <1>6, Zenon DEF FailsIn
<1> QED BY <1>4, <1>5, <1>6

LEMMA EntriesErrors ==
  ASSUME NEW file
  PROVE  FailsIn(entries_from_json(file), {"UnmarshalEntries", "EntryAt"})
<1> DEFINE read == [i \in DOMAIN file.entries |-> entry_from_raw(file.entries[i])]
           a == Failure("UnmarshalEntries")
           b == Failure("EntryAt")
           d == Success([i \in DOMAIN read |-> read[i].value])
<1>1. PICK S : S = {a, b, d}
  OBVIOUS
<1>2. a \in S /\ b \in S /\ d \in S
  BY <1>1
<1>3. entries_from_json(file) \in S
  BY <1>2, Zenon DEF entries_from_json
<1>4. a.err = "UnmarshalEntries" /\ b.err = "EntryAt" /\ d.ok
  BY DEF Success, Failure
<1> HIDE DEF a, b, d
<1> QED BY <1>1, <1>3, <1>4 DEF FailsIn

LEMMA BuildContextFine ==
  ASSUME NEW r, FailsIn(r, BuildErrors)
  PROVE  Fine(BuildContext(r))
<1>1. CASE r.ok
  BY <1>1 DEF BuildContext, Fine
<1>2. CASE ~r.ok
  <2>1. r.err \in BuildErrors
    BY <1>2 DEF FailsIn
  <2>2. Told(BuildError(r.err))
    <3>1. CASE r.err \in CallErrors
      <4>1. BuildError(r.err) = Of("Tx", "RpcEstimation")
        BY <3>1 DEF BuildError, CallErrors
      <4> QED BY <4>1, NodeTold DEF NodeErrors
    <3>2. CASE r.err \notin CallErrors
      <4>1. BuildError(r.err) = input(Of("Tx", r.err))
        BY <3>2 DEF BuildError, CallErrors
      <4>2. r.err \notin NodeErrors
        BY <2>1, <3>2 DEF BuildErrors, NodeErrors
      <4> QED BY <4>1, <4>2, InputTold
    <3> QED BY <3>1, <3>2
  <2>3. BuildContext(r) = Failure(BuildError(r.err))
    BY <1>2 DEF BuildContext
  <2> QED BY <2>2, <2>3 DEF Fine, Failure
<1> QED BY <1>1, <1>2

LEMMA UnsignedFine ==
  ASSUME NEW c, NEW file, NEW node
  PROVE  Fine(build_unsigned_tx(c, file, node))
<1> DEFINE entries == Usage(entries_from_json(file))
           some    == Require(entries.value # <<>>, exit2("no-entries"))
           at      == Require(c.index \in 0 .. Len(entries.value) - 1, exit2("--index"))
           entry   == entries.value[c.index + 1]
           online  == c.rpc # Absent
           full    == IF online THEN [c EXCEPT !.rpc = TRUE] ELSE [OfflineDefaults(c) EXCEPT !.rpc = FALSE]
           valid   == Require(validate(entry), exit2("entry"))
           url     == IF online THEN As("Tx", NewEthClient(c.rpc[1])) ELSE Success("no-node")
           made    == BuildContext(build_unsigned(entry, full, Answers(node)))
<1>1. build_unsigned_tx(c, file, node) =
        IF entries.ok THEN IF some.ok THEN IF at.ok THEN IF valid.ok THEN IF url.ok THEN made ELSE url
                                                         ELSE valid ELSE at ELSE some ELSE entries
  BY Zenon DEF build_unsigned_tx, Then
<1>2. Fine(entries)
  <2>1. NotWrite(entries_from_json(file))
    BY EntriesErrors DEF FailsIn, NotWrite
  <2> QED BY <2>1, FineParts
<1>3. Fine(some) /\ Fine(at) /\ Fine(valid)
  BY FineParts
<1>4. Fine(url)
  <2>1. FailsIn(NewEthClient(c.rpc[1]), {"RpcDial"})
    BY Results DEF NewEthClient, FailsIn, Failure
  <2>2. Fine(As("Tx", NewEthClient(c.rpc[1]))) /\ Fine(Success("no-node"))
    BY <2>1, FineParts DEF FailsIn, NodeErrors
  <2> QED BY <2>2
<1>5. Fine(made)
  <2> HIDE DEF entry, full
  <2> QED BY BuilderErrors, BuildContextFine
<1> HIDE DEF entries, some, at, valid, url, made
<1> QED BY <1>1, <1>2, <1>3, <1>4, <1>5

LEMMA BuildConfigErrors ==
  ASSUME NEW m
  PROVE  NotWrite(build_config(m))
<1> DEFINE net == parse_flag(m["network"][1])
           h1 == net.ok
           h2 == Parsed(m["gas-limit"]) /\ ValueOr(m["gas-limit"], 1) # 0
           h3 == Parsed(m["max-fee-per-gas"])
           h4 == Parsed(m["max-priority-fee-per-gas"])
           h5 == Parsed(m["nonce"])
           checks == <<Check("--network", h1), Check("--gas-limit", h2), Check("--max-fee-per-gas", h3),
                       Check("--max-priority-fee-per-gas", h4), Check("--nonce", h5)>>
           config == [params |-> lookup_network[net.value], rpc |-> m["rpc-url"], index |-> m["index"][1],
                      gas |-> ValueOr(m["gas-limit"], 0), max_fee |-> ValueOr(m["max-fee-per-gas"], Unset),
                      tip |-> ValueOr(m["max-priority-fee-per-gas"], Unset),
                      nonce |-> ValueOr(m["nonce"], Unset), from |-> NoSender]
<1>1. build_config(m) = Checked(checks, config)
  BY Zenon DEF build_config
<1>2. DOMAIN checks \subseteq Nat /\ \A i \in DOMAIN checks : checks[i].flag # "write"
  <2> HIDE DEF h1, h2, h3, h4, h5
  <2> QED BY DEF Check
<1> HIDE DEF checks, config
<1> QED BY <1>1, <1>2, CheckedFlag

LEMMA BuildFine ==
  ASSUME NEW args, NEW env, NEW file, NotWrite(file), NEW node
  PROVE  Fine(deposit_build(args, env, file, node))
<1> DEFINE m       == Usage(try_get_matches(build_args, args, env))
           c0      == Usage(build_config(m.value))
           parsed  == Require(parse_from_flag(m.value["from"]), exit2("--from"))
           c       == [c0.value EXCEPT !.from = SenderOf(m.value["from"])]
           known   == Require(require_from_for_rpc(c), exit2("--from"))
           content == Usage(file)
           made    == build_unsigned_tx(c, content.value, node)
<1>1. deposit_build(args, env, file, node) =
        IF m.ok THEN IF c0.ok THEN IF parsed.ok THEN IF known.ok THEN IF content.ok THEN made ELSE content
                                                     ELSE known ELSE parsed ELSE c0 ELSE m
  BY Zenon DEF deposit_build, Then
<1>2. Fine(m) /\ Fine(c0) /\ Fine(parsed) /\ Fine(known) /\ Fine(content)
  BY MatchesFine, BuildConfigErrors, FineParts
<1>3. Fine(made)
  BY UnsignedFine
<1> HIDE DEF m, c0, parsed, known, content, made
<1> QED BY <1>1, <1>2, <1>3

(* What a signer can fail with. *)
LEMMA KeyErrors ==
  ASSUME NEW file
  PROVE  FailsIn(new_local_signer_from_file(file), {"KeyGivenAsPath", "KeyFile", "InvalidKey"})
<1> DEFINE a == Failure("KeyGivenAsPath")
           b == Failure("KeyFile")
           d == new_local_signer_from_hex(file.read.value)
<1>1. FailsIn(d, {"InvalidKey"})
  <2> DEFINE e == Failure("InvalidKey")
             f == Success(file.read.value.key)
  <2>1. PICK S : S = {e, f}
    OBVIOUS
  <2>2. e \in S /\ f \in S
    BY <2>1
  <2>3. d \in S
    BY <2>2, Zenon DEF new_local_signer_from_hex
  <2>4. e.err = "InvalidKey" /\ f.ok
    BY DEF Success, Failure
  <2> HIDE DEF d, e, f
  <2> QED BY <2>1, <2>3, <2>4 DEF FailsIn
<1>2. PICK S : S = {a, b, d}
  OBVIOUS
<1>3. a \in S /\ b \in S /\ d \in S
  BY <1>2
<1>4. new_local_signer_from_file(file) \in S
  BY <1>3, Zenon DEF new_local_signer_from_file
<1>5. a.err = "KeyGivenAsPath" /\ b.err = "KeyFile"
  BY DEF Failure
<1> HIDE DEF a, b, d
<1> QED BY <1>1, <1>2, <1>4, <1>5 DEF FailsIn

LEMMA LocalFine ==
  ASSUME NEW signer, NEW file
  PROVE  Fine(Local(signer, file))
<1> DEFINE s == new_local_signer_from_file(file)
           a == Failure(exit2("key-given-as-a-path"))
           b == Failure(context(FromSigner(s.err)))
<1>1. local_signer_from_file(file) =
        CASE s.ok -> s [] ~s.ok /\ s.err = "KeyGivenAsPath" -> a [] OTHER -> b
  BY Zenon DEF local_signer_from_file
<1>2. FailsIn(s, {"KeyGivenAsPath", "KeyFile", "InvalidKey"})
  BY KeyErrors
<1>3. Fine(a)
  BY FineParts DEF Fine, Failure
<1>4. ~s.ok /\ s.err # "KeyGivenAsPath" => Fine(b)
  <2> HIDE DEF s
  <2>1. ~s.ok /\ s.err # "KeyGivenAsPath" => s.err \in SignerErrors
    BY <1>2 DEF FailsIn, SignerErrors
  <2> QED BY <2>1, SignerTold DEF Fine, Failure
<1>5. Fine(local_signer_from_file(file))
  <2> HIDE DEF s, a, b
  <2>1. CASE s.ok
    <3>1. local_signer_from_file(file) = s
      BY <1>1, <2>1, Zenon
    <3> QED BY <2>1, <3>1 DEF Fine
  <2>2. CASE ~s.ok /\ s.err = "KeyGivenAsPath"
    <3>1. local_signer_from_file(file) = a
      BY <1>1, <2>2, Zenon
    <3> QED BY <1>3, <3>1
  <2>3. CASE ~s.ok /\ s.err # "KeyGivenAsPath"
    <3>1. local_signer_from_file(file) = b
      BY <1>1, <2>3, Zenon
    <3> QED BY <1>4, <2>3, <3>1
  <2> QED BY <2>1, <2>2, <2>3
<1>6. Fine(Success("none"))
  BY FineParts
<1> QED BY <1>5, <1>6 DEF Local

LEMMA ParsedErrors ==
  ASSUME NEW u
  PROVE  FailsIn(parse_unsigned_tx(u), {"InvalidChainId", "Msg"})
<1> DEFINE a == Failure("InvalidChainId")
           b == Failure("Msg")
           d == Success([chain_id |-> u.chain_id, value |-> u.value.value,
                         max_fee |-> u.maxFeePerGas.value, tip |-> u.maxPriorityFeePerGas.value,
                         to |-> hex_to_address(u.to),
                         data |-> IF u.data.text = "empty" THEN <<>> ELSE u.data.value])
<1>1. PICK S : S = {a, b, d}
  OBVIOUS
<1>2. a \in S /\ b \in S /\ d \in S
  BY <1>1
<1>3. parse_unsigned_tx(u) \in S
  BY <1>2, Zenon DEF parse_unsigned_tx
<1>4. a.err = "InvalidChainId" /\ b.err = "Msg" /\ d.ok
  BY DEF Success, Failure
<1> HIDE DEF a, b, d
<1> QED BY <1>1, <1>3, <1>4 DEF FailsIn

LEMMA LocalSignErrors ==
  ASSUME NEW u, NEW key
  PROVE  FailsIn(sign_local(u, key), SignerErrors)
<1> DEFINE p    == parse_unsigned_tx(u)
           hash == SigHash(p.value, u)
           low  == normalize_low_s(Sig(key, hash, FALSE), OddY(key, hash))
           bad  == Failure("Msg")
           good == SignedTx(u, p.value, pubkey_address(key), low)
<1>1. sign_local(u, key) = IF p.ok THEN IF recover_address(hash, low.sig, low.v) # pubkey_address(key) THEN bad
                                        ELSE good ELSE p
  BY Zenon DEF sign_local
<1>2. FailsIn(p, SignerErrors)
  BY ParsedErrors DEF FailsIn, SignerErrors
<1>3. bad.err = "Msg" /\ good.ok
  BY DEF Failure, SignedTx, Success
<1> HIDE DEF p, hash, low, bad, good
<1> QED BY <1>1, <1>2, <1>3 DEF FailsIn, SignerErrors

LEMMA WalletErrors ==
  ASSUME NEW device
  PROVE  FailsIn(new_ledger_signer(device), SignerErrors)
<1> DEFINE a == Failure("LedgerNotSupported")
           b == Failure("NoDevice")
           c == Failure("AppNotOpen")
           d == Failure("Msg")
           e == Success("wallet")
<1>1. PICK S : S = {a, b, c, d, e}
  OBVIOUS
<1>2. a \in S /\ b \in S /\ c \in S /\ d \in S /\ e \in S
  BY <1>1
<1>3. NoDeviceUnlessApp(device.open.err) \in S /\ NoDeviceUnlessApp(device.status.err) \in S
  BY <1>2, Zenon DEF NoDeviceUnlessApp
<1>4. PICK s, o : s = NoDeviceUnlessApp(device.status.err) /\ o = NoDeviceUnlessApp(device.open.err)
  OBVIOUS
<1>5. (IF ~device.status.ok THEN s ELSE IF ~device.derive.ok THEN d ELSE e) \in S
  BY <1>2, <1>3, <1>4
<1>6. new_ledger_signer(device) \in S
  <2> DEFINE rest == IF ~device.status.ok THEN NoDeviceUnlessApp(device.status.err) ELSE IF ~device.derive.ok THEN d ELSE e
  <2>1. rest \in S
    BY <1>4, <1>5
  <2>2. new_ledger_signer(device) =
          CASE ~device.supported -> a
            [] device.supported /\ ~device.present -> b
            [] device.supported /\ device.present /\ ~device.open.ok -> NoDeviceUnlessApp(device.open.err)
            [] OTHER -> rest
    BY Zenon DEF new_ledger_signer
  <2> HIDE DEF rest, a, b, d, e
  <2>3. (CASE ~device.supported -> a
           [] device.supported /\ ~device.present -> b
           [] device.supported /\ device.present /\ ~device.open.ok -> NoDeviceUnlessApp(device.open.err)
           [] OTHER -> rest) \in S
    BY <1>2, <1>3, <2>1, Zenon
  <2> QED BY <2>2, <2>3, Zenon
<1>7. a.err = "LedgerNotSupported" /\ b.err = "NoDevice" /\ c.err = "AppNotOpen" /\ d.err = "Msg" /\ e.ok
  BY DEF Success, Failure
<1> HIDE DEF a, b, c, d, e
<1> QED BY <1>1, <1>6, <1>7 DEF FailsIn, SignerErrors

LEMMA LedgerSignErrors ==
  ASSUME NEW u, NEW device
  PROVE  FailsIn(sign_ledger(u, device), SignerErrors)
<1> DEFINE p    == parse_unsigned_tx(u)
           key  == device.sign.value
           hash == SigHash(p.value, u)
           sig  == Sig(key, hash, SIsHigh(key, hash))
           v    == OddY(key, hash) # sig.neg
           bad  == LedgerError(device.sign.err)
           good == SignedTx(u, p.value, recover_address(hash, sig, v), [sig |-> sig, v |-> v])
<1>1. sign_ledger(u, device) = CASE ~p.ok -> p [] p.ok /\ ~device.sign.ok -> bad [] OTHER -> good
  BY Zenon DEF sign_ledger
<1>2. FailsIn(p, SignerErrors)
  BY ParsedErrors DEF FailsIn, SignerErrors
<1>3. good.ok
  BY DEF SignedTx, Success
<1>4. FailsIn(bad, SignerErrors)
  <2> DEFINE a == Failure("ChainIdMismatch")
             b == Failure("UserRejected")
             c == Failure("Msg")
  <2>1. PICK S : S = {a, b, c}
    OBVIOUS
  <2>2. a \in S /\ b \in S /\ c \in S
    BY <2>1
  <2>3. bad \in S
    BY <2>2, Zenon DEF LedgerError
  <2>4. a.err = "ChainIdMismatch" /\ b.err = "UserRejected" /\ c.err = "Msg"
    BY DEF Failure
  <2> HIDE DEF a, b, c, bad
  <2> QED BY <2>1, <2>3, <2>4 DEF FailsIn, SignerErrors
<1> HIDE DEF p, good, bad
<1>5. CASE ~p.ok
  BY <1>1, <1>2, <1>5, Zenon
<1>6. CASE p.ok /\ ~device.sign.ok
  BY <1>1, <1>4, <1>6, Zenon
<1>7. CASE p.ok /\ device.sign.ok
  BY <1>1, <1>3, <1>7, Zenon DEF FailsIn
<1> QED BY <1>5, <1>6, <1>7

LEMMA SignedFine ==
  ASSUME NEW signer, NEW local, NEW u, NEW device
  PROVE  Fine(sign_unsigned_tx(signer, local, u, device))
<1> DEFINE own    == sign_local(u, local)
           wallet == new_ledger_signer(device)
           far    == sign_ledger(u, device)
           r      == IF signer = <<"local">> THEN own ELSE IF wallet.ok THEN far ELSE wallet
<1>1. sign_unsigned_tx(signer, local, u, device) = SignerContext(r)
  BY Zenon DEF sign_unsigned_tx, Then
<1>2. FailsIn(own, SignerErrors) /\ FailsIn(wallet, SignerErrors) /\ FailsIn(far, SignerErrors)
  BY LocalSignErrors, WalletErrors, LedgerSignErrors
<1>3. FailsIn(r, SignerErrors)
  <2> HIDE DEF own, wallet, far
  <2> QED BY <1>2
<1> HIDE DEF r
<1>4. Fine(SignerContext(r))
  <2>1. CASE r.ok
    BY <2>1 DEF SignerContext, Fine
  <2>2. CASE ~r.ok
    <3>1. Told(context(FromSigner(r.err)))
      BY <1>3, <2>2, SignerTold DEF FailsIn
    <3>2. SignerContext(r) = Failure(context(FromSigner(r.err)))
      BY <2>2 DEF SignerContext
    <3> QED BY <3>1, <3>2 DEF Fine, Failure
  <2> QED BY <2>1, <2>2
<1> QED BY <1>1, <1>4

LEMMA SignConfigErrors ==
  ASSUME NEW m
  PROVE  NotWrite(sign_config(m))
<1>1. PICK a, b, c, d :
        /\ a = Check("--signer", m["signer"] # Absent /\ m["signer"][1] \in {"local", "ledger"})
        /\ b = SecretFileCheck("--private-key-file", m["private-key-file"])
        /\ c = Check("--private-key-file", m["signer"] = <<"local">> => m["private-key-file"] # Absent)
        /\ d = Check("--input", m["input"] # Absent)
  OBVIOUS
<1>2. PICK s, t, u : s = <<a, b, c>> /\ t = <<a, d>> /\ u = <<b, c>>
  OBVIOUS
<1>3. SignerChecks(m) = s
  BY <1>1, <1>2, Zenon DEF SignerChecks
<1>4. Head(s) = a /\ Tail(s) = u
  BY <1>2
<1>5. sign_config(m) = Checked(t \o u, [signer |-> m["signer"], key |-> m["private-key-file"]])
  <2>1. sign_config(m) = Checked(<<Head(s), d>> \o Tail(s), [signer |-> m["signer"], key |-> m["private-key-file"]])
    BY <1>1, <1>3, Zenon DEF sign_config
  <2> QED BY <1>2, <1>4, <2>1
<1>6. PICK S : S = {a, b, c, d}
  OBVIOUS
<1>7. \A e \in S : e.flag # "write"
  BY <1>1, <1>6 DEF Check, SecretFileCheck
<1>8. t \in Seq(S) /\ u \in Seq(S)
  BY <1>2, <1>6
<1>9. PICK j : j = t \o u
  OBVIOUS
<1>10. j \in Seq(S)
  BY <1>8, <1>9, ConcatProperties
<1>11. DOMAIN j \subseteq Nat /\ \A i \in DOMAIN j : j[i] \in S
  BY <1>10
<1> QED BY <1>5, <1>7, <1>9, <1>11, CheckedFlag

LEMMA RunConfigErrors ==
  ASSUME NEW m
  PROVE  NotWrite(run_config(m))
<1> DEFINE h1 == m["signer"] # Absent /\ m["signer"][1] \in {"local", "ledger"}
           h2 == \A i \in DOMAIN m["private-key-file"] : secret_file_arg(m["private-key-file"][i])
           h3 == m["signer"] = <<"local">> => m["private-key-file"] # Absent
           checks == <<Check("--signer", h1), Check("--private-key-file", h2), Check("--private-key-file", h3)>>
           build  == build_config(m)
           config == [build |-> build.value, signer |-> m["signer"], key |-> m["private-key-file"]]
<1>1. run_config(m) = IF ~build.ok THEN build ELSE Checked(checks, config)
  BY Zenon DEF run_config, SignerChecks, SecretFileCheck
<1>2. DOMAIN checks \subseteq Nat /\ \A i \in DOMAIN checks : checks[i].flag # "write"
  <2> HIDE DEF h1, h2, h3
  <2> QED BY DEF Check
<1>3. NotWrite(build)
  BY BuildConfigErrors
<1> HIDE DEF checks, config, build
<1>4. NotWrite(Checked(checks, config))
  BY <1>2, CheckedFlag
<1> QED BY <1>1, <1>3, <1>4

LEMMA SignFine ==
  ASSUME NEW args, NEW file, NotWrite(file), NEW key_file, NEW device
  PROVE  Fine(tx_sign(args, file, key_file, device))
<1> DEFINE m     == Usage(try_get_matches(sign_args, args, <<>>))
           c     == Usage(sign_config(m.value))
           u     == Usage(file)
           local == Local(c.value.signer, key_file)
           made  == sign_unsigned_tx(c.value.signer, local.value, u.value, device)
<1>1. tx_sign(args, file, key_file, device) =
        IF m.ok THEN IF c.ok THEN IF u.ok THEN IF local.ok THEN made ELSE local ELSE u ELSE c ELSE m
  BY Zenon DEF tx_sign, Then
<1>2. Fine(m) /\ Fine(c) /\ Fine(u)
  BY MatchesFine, SignConfigErrors, FineParts
<1>3. Fine(local) /\ Fine(made)
  BY LocalFine, SignedFine
<1> HIDE DEF m, c, u, local, made
<1> QED BY <1>1, <1>2, <1>3

LEMMA RunFine ==
  ASSUME NEW args, NEW env, NEW file, NotWrite(file), NEW key_file, NEW device, NEW node
  PROVE  Fine(tx_run(args, env, file, key_file, device, node))
<1> DEFINE m       == Usage(try_get_matches(run_args ++ run_sign_args, args, env))
           c       == Usage(run_config(m.value))
           given   == Require(require_ledger_flags_for_rpc(c.value.signer[1], c.value.build), exit2("--signer-ledger"))
           content == Usage(file)
           local   == Local(c.value.signer, key_file)
           known   == c.value.signer = <<"local">> /\ c.value.build.rpc # Absent
           b       == IF known THEN [c.value.build EXCEPT !.from = secret_to_address(local.value)] ELSE c.value.build
           u       == build_unsigned_tx(b, content.value, node)
           made    == sign_unsigned_tx(c.value.signer, local.value, u.value, device)
<1>1. tx_run(args, env, file, key_file, device, node) =
        IF m.ok THEN IF c.ok THEN IF given.ok THEN IF content.ok THEN IF local.ok THEN IF u.ok THEN made ELSE u
                                                   ELSE local ELSE content ELSE given ELSE c ELSE m
  BY Zenon DEF tx_run, Then
<1>2. Fine(m) /\ Fine(c) /\ Fine(given) /\ Fine(content)
  BY MatchesFine, RunConfigErrors, FineParts
<1>3. Fine(local) /\ Fine(u) /\ Fine(made)
  BY LocalFine, SignedFine, UnsignedFine
<1> HIDE DEF m, c, given, content, local, u, made
<1> QED BY <1>1, <1>2, <1>3

LEMMA SendFine ==
  ASSUME NEW args, NEW file, NotWrite(file), NEW node, NEW typed
  PROVE  Fine(tx_send(args, file, node, typed))
<1> DEFINE m      == Usage(try_get_matches(send_args, args, <<>>))
           signed_ == Usage(file)
           url    == As("Tx", NewEthClient(m.value["rpc-url"][1]))
           id     == chain_id(node.chain_id)
           asked  == Require(id.ok, Of("Tx", "BroadcastFailed"))
           same   == Require(id.value = signed_.value.unsigned.chain_id, Of("Tx", "BroadcastChainIdMismatch"))
           agreed == Require(\/ m.value["yes"][1]
                             \/ typed = NetworkName(id.value, lookup_by_chain_id(id.value)), Aborted)
           sent   == As("Tx", send_raw_transaction(signed_.value.rawRLP, node.sent))
<1>1. tx_send(args, file, node, typed) =
        IF m.ok THEN IF signed_.ok THEN IF url.ok THEN IF asked.ok THEN IF same.ok THEN IF agreed.ok THEN sent
                                        ELSE agreed ELSE same ELSE asked ELSE url ELSE signed_ ELSE m
  BY Zenon DEF tx_send, Then
<1>2. Fine(m) /\ Fine(signed_)
  BY MatchesFine, FineParts
<1>3. Fine(url)
  <2>1. FailsIn(NewEthClient(m.value["rpc-url"][1]), {"RpcDial"})
    BY Results DEF NewEthClient, FailsIn, Failure
  <2> HIDE DEF m
  <2> QED BY <2>1, FineParts DEF FailsIn, NodeErrors
<1>4. Fine(asked) /\ Fine(same) /\ Fine(agreed)
  <2>1. Told(Of("Tx", "BroadcastFailed")) /\ Told(Of("Tx", "BroadcastChainIdMismatch")) /\ Told(Aborted)
    BY NodeTold, AbortedAndBlsTold DEF NodeErrors
  <2> HIDE DEF id, m, signed_
  <2> QED BY <2>1, FineParts
<1>5. Fine(sent)
  <2> DEFINE raw == signed_.value.rawRLP
             r   == call(node.sent)
             bad == Failure("BroadcastFailed")
             end == IF r.ok /\ r.value.json = "hash" THEN Success(r.value.hash) ELSE bad
             out == send_raw_transaction(raw, node.sent)
  <2>1. PICK S : S = {bad, end}
    OBVIOUS
  <2>2. bad \in S /\ end \in S
    BY <2>1
  <2>3. out \in S
    <3> HIDE DEF raw
    <3> QED BY <2>2, Zenon DEF send_raw_transaction
  <2>4. bad.err = "BroadcastFailed" /\ FailsIn(end, {"BroadcastFailed"})
    <3> HIDE DEF r
    <3> QED BY Results DEF Failure, FailsIn
  <2>5. FailsIn(out, {"BroadcastFailed"})
    <3> HIDE DEF bad, end, out
    <3> QED BY <2>1, <2>3, <2>4 DEF FailsIn
  <2>6. Fine(As("Tx", out))
    <3> HIDE DEF out
    <3> QED BY <2>5, FineParts DEF FailsIn, NodeErrors
  <2> QED BY <2>6
<1> HIDE DEF m, signed_, url, asked, same, agreed, sent
<1> QED BY <1>1, <1>2, <1>3, <1>4, <1>5

(* The lengths of entropy, checksum and mnemonic fit. *)
LEMMA DivOf ==
  ASSUME NEW a \in Nat, NEW b \in Nat \ {0}
  PROVE  (b * a) \div b = a /\ (b * a) % b = 0
OBVIOUS

LEMMA EntropySizes ==
  ASSUME NEW M \in Nat \ {0}, NEW W \in Nat \ {0}, NEW R \in Nat \ {0}, (M * W) % (R + 1) = 0
  PROVE  LET n == (M * W * R) \div (R + 1)
         IN  /\ n \in Nat /\ n \div R \in Nat /\ n + n \div R = M * W /\ (n + n \div R) \div W = M
<1>1. PICK s : s = R + 1 /\ s \in Nat \ {0}
  OBVIOUS
<1>2. PICK p : p = M * W /\ p \in Nat
  OBVIOUS
<1>3. PICK q : q = p \div s /\ q \in Nat
  BY <1>1, <1>2
<1>4. p = s * q
  BY <1>1, <1>2, <1>3
<1>5. M * W * R = s * (q * R)
  <2>1. M * W * R = p * R
    BY <1>2
  <2>2. p * R = (s * q) * R
    BY <1>4
  <2>3. \A x, y, z \in Nat : (x * y) * z = x * (y * z)
    OBVIOUS
  <2> QED BY <1>1, <1>3, <2>1, <2>2, <2>3
<1>6. (M * W * R) \div s = q * R
  <2>1. PICK a : a = q * R /\ a \in Nat
    BY <1>3
  <2> QED BY <1>1, <1>5, <2>1, DivOf
<1>7. (q * R) \div R = q
  BY <1>3, DivOf
<1>8. q * R + q = p
  BY <1>1, <1>3, <1>4
<1>9. (M * W) \div W = M
  BY DivOf
<1> QED BY <1>1, <1>2, <1>3, <1>6, <1>7, <1>8, <1>9

Bits == {0, 1}

(* What entropy and its checksum are together: the words of one word count.  *)
LEMMA BitsOfEntropy ==
  ASSUME NEW e \in Entropies
  PROVE  \E c \in WordCounts :
           /\ Len(e) = ENT(c) /\ e \o Checksum(e) \in Seq(Bits)
           /\ Len(e \o Checksum(e)) = c * WordBits /\ Len(e \o Checksum(e)) \div WordBits = c
<1>1. /\ e \in Seq(Bits) /\ Digest(e) \in Seq(Bits) /\ Len(e) \in EntropyLengths
      /\ Len(e) \div Ratio <= Len(Digest(e))
  BY LifecycleAssumption DEF Bits
<1>2. PICK c \in WordCounts : Len(e) = ENT(c)
  BY <1>1 DEF EntropyLengths
<1>3. c \in Nat \ {0} /\ WordBits \in Nat \ {0} /\ Ratio \in Nat \ {0} /\ (c * WordBits) % (Ratio + 1) = 0
  BY MnemonicAssumption
<1>4. PICK n : n = ENT(c)
  OBVIOUS
<1>5. /\ n \in Nat /\ n \div Ratio \in Nat /\ n + n \div Ratio = c * WordBits
      /\ (n + n \div Ratio) \div WordBits = c
  BY <1>3, <1>4, EntropySizes DEF ENT
<1>6. PICK k : k = n \div Ratio /\ k \in Nat
  BY <1>5
<1>7. Checksum(e) \in Seq(Bits) /\ Len(Checksum(e)) = k
  <2>1. PICK d : d = Digest(e) /\ d \in Seq(Bits) /\ k <= Len(d)
    BY <1>1, <1>2, <1>4, <1>6
  <2>2. \A i \in 1 .. k : d[i] \in Bits
    BY <1>6, <2>1, ElementOfSeq
  <2>3. SubSeq(d, 1, k) \in Seq(Bits) /\ Len(SubSeq(d, 1, k)) = IF 1 <= k THEN k - 1 + 1 ELSE 0
    BY <1>6, <2>2, SubSeqProperties
  <2>4. Checksum(e) = SubSeq(d, 1, k)
    BY <1>2, <1>4, <1>6, <2>1 DEF Checksum
  <2> QED BY <1>6, <2>3, <2>4
<1>8. e \o Checksum(e) \in Seq(Bits) /\ Len(e \o Checksum(e)) = n + k
  BY <1>1, <1>2, <1>4, <1>7, ConcatProperties
<1> QED BY <1>2, <1>4, <1>5, <1>6, <1>8

(* A mnemonic has the words of its entropy.                                  *)
LEMMA DrawnLongest ==
  ASSUME NEW e \in Drawn
  PROVE  LongestWords(e)
<1>1. e \in Entropies /\ Len(e) = ENT(Max(WordCounts))
  BY DEF Drawn
<1>2. PICK M \in WordCounts : \A c \in WordCounts : c <= M
  BY MnemonicAssumption
<1>3. WordCounts \subseteq Nat \ {0}
  BY MnemonicAssumption
<1>4. Max(WordCounts) \in WordCounts /\ \A c \in WordCounts : c <= Max(WordCounts)
  <2>1. \E x \in WordCounts : \A y \in WordCounts : x >= y
    BY <1>2, <1>3
  <2>2. Max(WordCounts) \in WordCounts /\ \A y \in WordCounts : Max(WordCounts) >= y
    BY <2>1, Zenon DEF Max
  <2> QED BY <1>3, <2>2
<1>5. PICK bits, m : bits = e \o Checksum(e) /\ m = Max(WordCounts)
  OBVIOUS
<1>6. PICK c \in WordCounts : Len(e) = ENT(c) /\ Len(bits) \div WordBits = c /\ Len(bits) = c * WordBits
  BY <1>1, <1>5, BitsOfEntropy
<1>7. c = m
  <2>1. /\ c \in Nat \ {0} /\ m \in Nat \ {0} /\ WordBits \in Nat \ {0} /\ Ratio \in Nat \ {0}
        /\ (c * WordBits) % (Ratio + 1) = 0 /\ (m * WordBits) % (Ratio + 1) = 0
    BY <1>4, <1>5, MnemonicAssumption
  <2>2. (ENT(c) + ENT(c) \div Ratio) \div WordBits = c
    BY <2>1, EntropySizes DEF ENT
  <2>3. (ENT(m) + ENT(m) \div Ratio) \div WordBits = m
    BY <2>1, EntropySizes DEF ENT
  <2>4. ENT(c) = ENT(m)
    BY <1>1, <1>5, <1>6
  <2> QED BY <2>2, <2>3, <2>4
<1>8. PICK words : words = [i \in 1 .. c |-> WordOf(SubSeq(bits, (i - 1) * WordBits + 1, i * WordBits))]
  OBVIOUS
<1>9. Len(words) = c
  BY <1>3, <1>8
<1>10. entropy_to_mnemonic(e) = IF Len(e) \notin EntropyLengths THEN Failure("WordCount") ELSE Success(words)
  BY <1>5, <1>6, <1>8, Zenon DEF entropy_to_mnemonic
<1>11. entropy_to_mnemonic(e).ok => entropy_to_mnemonic(e).value = words
  BY <1>10, Results
<1> QED BY <1>4, <1>5, <1>7, <1>9, <1>11 DEF LongestWords

-----------------------------------------------------------------------------
(* The shape of what a run leaves. *)

(* The files of a run are a sequence, no longer than was asked for.          *)
LEMMA WrittenShape ==
  ASSUME NEW kind, NEW c, NEW text, NEW pass, NEW deps, c.count \in Nat
  PROVE  LET w == finish_from_mnemonic(kind, c, text, pass, deps).written
         IN  \E n \in 0 .. c.count : w = [i \in 1 .. n |-> w[i]]
<1> DEFINE out   == finish_from_mnemonic(kind, c, text, pass, deps)
           start == SeedAndPassword(text, pass, deps)
           made  == [n \in 1 .. c.count |-> MakeKey(kind, c, start.value, n, deps)]
           done  == [n \in 1 .. c.count |-> WriteKey(c, made[n], n, deps)]
           bad   == {n \in 1 .. c.count : ~done[n].ok}
           first == Min(bad)
           final == IF bad = {} THEN c.count
                    ELSE IF made[first].ok /\ deps.refused # first THEN first ELSE first - 1
           e(n)  == OnDisk(made[n].value.entry, n, deps)
           result == IF bad = {} THEN start ELSE done[first]
<1>1. out = IF ~start.ok THEN [written |-> <<>>, result |-> start]
            ELSE [written |-> [n \in 1 .. final |-> e(n)], result |-> result]
  BY Zenon DEF finish_from_mnemonic
<1>2. final \in 0 .. c.count
  <2>1. bad # {} => first \in 1 .. c.count
    <3>1. bad \subseteq Nat /\ bad \subseteq 1 .. c.count
      OBVIOUS
    <3> HIDE DEF bad
    <3> QED BY <3>1, MinOf
  <2> HIDE DEF bad, first, made
  <2> QED BY <2>1
<1> HIDE DEF start, final, e, result, out
<1>3. CASE out.written = <<>>
  <2>1. PICK w : w = out.written /\ w = <<>>
    BY <1>3
  <2>2. w = [i \in 1 .. 0 |-> w[i]]
    BY <2>1
  <2>3. 0 \in 0 .. c.count
    OBVIOUS
  <2> QED BY <2>1, <2>2, <2>3 DEF out
<1>4. CASE out.written = [n \in 1 .. final |-> e(n)]
  <2>1. PICK w : w = out.written /\ w = [n \in 1 .. final |-> e(n)]
    BY <1>4
  <2>2. w = [i \in 1 .. final |-> w[i]]
    BY <2>1
  <2> QED BY <1>2, <2>1, <2>2 DEF out
<1> QED BY <1>1, <1>3, <1>4

(* Version 4 is a validator's, 3 an account's, also of a damaged file.       *)
LEMMA VersionMade ==
  ASSUME NEW kind \in Kinds, NEW c, NEW start, NEW i, NEW deps, MakeKey(kind, c, start, i, deps).ok
  PROVE  OnDisk(MakeKey(kind, c, start, i, deps).value.entry, i, deps).body.version =
           IF kind = "validator" THEN 4 ELSE 3
<1> DEFINE n == c.start_index + i - 1
           made == MakeKey(kind, c, start, i, deps)
           Version(e) == e.body.version
<1>1. \A secret, pw, pk, salt, iv, cost :
        LET r == encrypt(secret, pw, pk, salt, iv, cost) IN r.ok => r.value.version = 4
  <2> SUFFICES ASSUME NEW secret, NEW pw, NEW pk, NEW salt, NEW iv, NEW cost,
                      encrypt(secret, pw, pk, salt, iv, cost).ok
               PROVE  encrypt(secret, pw, pk, salt, iv, cost).value.version = 4
    OBVIOUS
  <2> DEFINE r  == derive_scrypt(normalize_passphrase(pw), salt, cost)
             ct == Encipher(r.value, iv, secret)
             f  == [version |-> 4, pubkey |-> [key |-> pk, form |-> "bare"], crypto |-> "object",
                    kdf |-> "scrypt", cost |-> cost, prf |-> "none", salt |-> salt,
                    checksumFn |-> "sha256", checksum |-> checksum_message(r.value, ct),
                    cipherFn |-> "aes-128-ctr", cipher |-> ct, iv |-> iv]
  <2>1. encrypt(secret, pw, pk, salt, iv, cost) =
          IF secret.len # 32 \/ ~r.ok THEN Failure("Encrypt") ELSE Success(f)
    BY Zenon DEF encrypt
  <2>2. f.version = 4
    <3> HIDE DEF r, ct
    <3> QED OBVIOUS
  <2> HIDE DEF r, f
  <2> QED BY <2>1, <2>2, Results
<1>2. \A secret, pw, addr, salt, iv, cost :
        LET r == encrypt_v3(secret, pw, addr, salt, iv, cost) IN r.ok => r.value.version = 3
  <2> SUFFICES ASSUME NEW secret, NEW pw, NEW addr, NEW salt, NEW iv, NEW cost,
                      encrypt_v3(secret, pw, addr, salt, iv, cost).ok
               PROVE  encrypt_v3(secret, pw, addr, salt, iv, cost).value.version = 3
    OBVIOUS
  <2> DEFINE r  == derive_scrypt(pw, salt, cost)
             ct == Encipher(r.value, iv, secret)
             f  == [version |-> 3, address |-> addr, kdf |-> "scrypt", cost |-> cost,
                    salt |-> salt, mac |-> v3_mac(r.value, ct),
                    cipherFn |-> "aes-128-ctr", cipher |-> ct, iv |-> iv]
  <2>1. encrypt_v3(secret, pw, addr, salt, iv, cost) =
          IF secret.len # 32 \/ ~r.ok THEN Failure("Encrypt") ELSE Success(f)
    BY Zenon DEF encrypt_v3
  <2>2. f.version = 3
    <3> HIDE DEF r, ct
    <3> QED OBVIOUS
  <2> HIDE DEF r, f
  <2> QED BY <2>1, <2>2, Results
<1>3. \A e : OnDisk(e, i, deps).body.version = e.body.version
  BY DEF OnDisk
<1>4. CASE kind = "validator"
  <2>1. made = ValidatorKeystore(start.seed, start.password, n, deps)
    BY <1>4 DEF MakeKey
  <2> DEFINE sk   == derive_path(start.seed, signing(n))
             pk   == PublicKey(sk)
             file == encrypt(sk, start.password, pk, [n |-> n, run |-> deps.run],
                             [len |-> 16, n |-> n, run |-> deps.run], STANDARD)
             entry == Listed([path |-> signing(n)], file.value)
             end  == Success([entry |-> entry, secret |-> sk, public |-> pk])
  <2>2. made = IF ~verify_derived_key(sk, pk) THEN Failure(Of("KeyVerifyFailed", "C1-C3"))
               ELSE IF file.ok THEN end ELSE Failure(Of("Keystore", file.err))
    <3>1. ValidatorKeystore(start.seed, start.password, n, deps) =
            IF ~verify_derived_key(sk, pk) THEN Failure(Of("KeyVerifyFailed", "C1-C3"))
            ELSE IF (IF file.ok THEN file ELSE Failure(Of("Keystore", file.err))).ok
                 THEN Success([entry |-> Listed([path |-> signing(n)], (IF file.ok THEN file ELSE Failure(Of("Keystore", file.err))).value),
                               secret |-> sk, public |-> pk])
                 ELSE (IF file.ok THEN file ELSE Failure(Of("Keystore", file.err)))
      BY Zenon DEF ValidatorKeystore, Then, As
    <3>2. PICK r : r = file
      OBVIOUS
    <3> HIDE DEF sk, pk, made, n, file
    <3> QED BY <2>1, <3>1, Results DEF entry, end
  <2>3. file.ok => file.value.version = 4
    <3> HIDE DEF sk, pk, n
    <3> QED BY <1>1
  <2>4. Version(entry) = file.value.version
    <3> HIDE DEF file
    <3> QED BY DEF Listed
  <2>5. end.value.entry = entry
    <3> HIDE DEF entry, sk, pk
    <3> QED BY Results
  <2>6. made.ok
    OBVIOUS
  <2> HIDE DEF made, entry, end, file, sk, pk, n
  <2>7. made.value.entry = entry /\ Version(entry) = 4
    BY <2>2, <2>3, <2>4, <2>5, <2>6, Results
  <2> QED BY <1>3, <1>4, <2>7 DEF made
<1>5. CASE kind = "account"
  <2>1. made = AccountKeystore(start.seed, start.password, n, deps)
    BY <1>5 DEF MakeKey
  <2> DEFINE child == DeriveAccount(start.seed, eoa(n))
             key  == Scalar(child.value.k)
             addr == secret_to_address(child.value.k)
             file == encrypt_v3(key, start.password, addr, [n |-> n, run |-> deps.run],
                                [len |-> 16, n |-> n, run |-> deps.run], STANDARD)
             entry == Listed([utc |-> v3_filename(addr, deps.now, 0)], file.value)
             end   == Success([entry |-> entry, secret |-> key, public |-> addr])
  <2>0. made.ok
    OBVIOUS
  <2>2. child.ok
    <3> HIDE DEF child, n
    <3>1. AccountKeystore(start.seed, start.password, n, deps).ok
      BY <2>0, <2>1
    <3> QED BY <3>1, Results DEF AccountKeystore, Then, As, child
  <2>3. made = Then(As("Keystore", file), LAMBDA f :
                 Success([entry |-> Listed([utc |-> v3_filename(addr, deps.now, 0)], f),
                          secret |-> key, public |-> addr]))
    <3> HIDE DEF child, made, n
    <3> QED BY <2>1, <2>2, Zenon DEF AccountKeystore, Then, As, child
  <2>4. file.ok /\ made = end
    <3> HIDE DEF made, file, child, key, addr
    <3> QED BY <2>0, <2>3, Results DEF Then, As
  <2>5. file.ok => file.value.version = 3
    <3> HIDE DEF key, addr, n
    <3> QED BY <1>2
  <2>6. Version(entry) = file.value.version
    <3> HIDE DEF file
    <3> QED BY DEF Listed
  <2>7. end.value.entry = entry
    <3> HIDE DEF entry, key, addr
    <3> QED BY Results
  <2> HIDE DEF made, entry, end, file, key, addr, n
  <2>8. made.value.entry = entry /\ Version(entry) = 3
    BY <2>4, <2>5, <2>6, <2>7
  <2> QED BY <1>3, <1>5, <2>8, Zenon DEF made
<1> QED BY <1>4, <1>5 DEF Kinds

(* The shape of what a run left: the files are a sequence, their indices are *)
(* within u32, and each is of the version of its kind.                       *)
RunShape(k, run) ==
  \E n \in Nat :
    /\ run.written = [i \in 1 .. n |-> run.written[i]] /\ run.start + n <= U32
    /\ \A i \in 1 .. n : run.written[i].body.version = IF k = "validator" THEN 4 ELSE 3

LEMMA RunShaped ==
  ASSUME NEW kind \in Kinds, NEW how \in Hows, NEW x, Plain(x), "without" \in DOMAIN x, NEW deps,
         keygen(kind, how = "new", Args(x, KeyFlags), deps).from.ok, NEW run,
         LET out == keygen(kind, how = "new", Args(x, KeyFlags), deps)
         IN  run.start = StartOf(how, x) /\ run.written = out.written
  PROVE  RunShape(kind, run)
<1> DEFINE out  == keygen(kind, how = "new", Args(x, KeyFlags), deps)
           text == out.from.value.text
           pass == out.from.value.pass
<1>1. PICK c : /\ c.count \in Nat /\ c.start_index = StartOf(how, x) /\ c.start_index \in Nat
               /\ IndicesFit(c.start_index, c.count)
               /\ out.written = finish_from_mnemonic(kind, c, text, pass, deps).written
  BY KeygenRun
<1>2. run.start = c.start_index /\ run.written = out.written
  BY <1>1
<1> HIDE DEF out
<1> DEFINE done  == finish_from_mnemonic(kind, c, text, pass, deps)
           start == SeedAndPassword(text, pass, deps)
           made(i) == MakeKey(kind, c, start.value, i, deps)
<1>3. PICK n \in 0 .. c.count : done.written = [i \in 1 .. n |-> done.written[i]]
  <2> HIDE DEF text, pass
  <2>1. c.count \in Nat
    BY <1>1
  <2>2. \E n \in 0 .. c.count : done.written = [i \in 1 .. n |-> done.written[i]]
    BY <2>1, WrittenShape
  <2> HIDE DEF done
  <2> QED BY <2>2
<1>4. run.start + n <= U32
  <2>1. U32 \in Nat
    BY KeyPathsAssumption, FlagsAssumption
  <2> QED BY <1>1, <1>2, <1>3, <2>1 DEF IndicesFit
<1>5. ASSUME NEW i \in 1 .. n
      PROVE  run.written[i].body.version = IF kind = "validator" THEN 4 ELSE 3
  <2>1. i \in DOMAIN done.written
    <3> HIDE DEF done
    <3> QED BY <1>3
  <2>2. made(i).ok /\ done.written[i] = OnDisk(made(i).value.entry, i, deps)
    <3> HIDE DEF text, pass
    <3> QED BY <1>1, <2>1, WrittenKeys
  <2>3. OnDisk(made(i).value.entry, i, deps).body.version = IF kind = "validator" THEN 4 ELSE 3
    <3>1. made(i).ok
      BY <2>2, Zenon
    <3> HIDE DEF start
    <3> QED BY <3>1, VersionMade
  <2> HIDE DEF done, made
  <2> QED BY <1>1, <1>2, <2>2, <2>3 DEF done
<1>6. run.written = [i \in 1 .. n |-> run.written[i]]
  BY <1>1, <1>2, <1>3
<1>7. n \in Nat
  OBVIOUS
<1> QED BY <1>4, <1>5, <1>6, <1>7 DEF RunShape

(* Inductive, with KeysInv.                                                  *)
ShapeInv ==
  \A k \in Kinds : \A h \in Hows : keys[k][h] # None => RunShape(k, keys[k][h][1])

LEMMA ShapeStep ==
  ASSUME NEW kind \in Kinds, NEW how \in Hows, NEW words, NEW x, Plain(x), "without" \in DOMAIN x,
         KeysInv, ShapeInv, Keygen(kind, how, words, x)
  PROVE  ShapeInv'
<1> DEFINE deps == [entropy |-> x["entropy"], typed |-> Retyped(words, x["typed"]), tty |-> x["tty"],
                    asked |-> IF "asked" \in DOMAIN x THEN x["asked"] ELSE <<>>, keystore_pw |-> x["pw"],
                    refused |-> x["refused"], damaged |-> x["damaged"], run |-> x["run"], now |-> 0]
           out == keygen(kind, how = "new", Args(x, KeyFlags), deps)
           run == [from |-> [words |-> normalize_mnemonic(out.from.value.text), pass |-> out.from.value.pass],
                   pw |-> x["pw"].value, start |-> StartOf(how, x), whole |-> out.result.ok,
                   checked |-> kind = "validator" /\ "no-verify" \notin DOMAIN x,
                   sound |-> x["damaged"] = 0, written |-> out.written]
<1>1. keys' = IF ~out.from.ok \/ ~x["pw"].ok THEN keys ELSE [keys EXCEPT ![kind][how] = <<run>>]
  BY DEF Keygen, StartOf
<1>2. CASE keys' = keys
  BY <1>2 DEF ShapeInv
<1>3. CASE out.from.ok /\ keys' = [keys EXCEPT ![kind][how] = <<run>>]
  <2>1. RunShape(kind, run)
    <3>1. run.start = StartOf(how, x) /\ run.written = out.written
      <4> HIDE DEF out
      <4> QED OBVIOUS
    <3> HIDE DEF deps, run
    <3> QED BY <1>3, <3>1, RunShaped
  <2> HIDE DEF run
  <2>2. <<run>>[1] = run
    OBVIOUS
  <2> QED BY <1>3, <2>1, <2>2 DEF KeysInv, ShapeInv
<1> QED
  <2> HIDE DEF out, run
  <2> QED BY <1>1, <1>2, <1>3

(* The inputs of a run that makes keys, and the words it was given.          *)
LEMMA NewRun ==
  ASSUME NEW kind \in Kinds, KeygenNew(kind)
  PROVE  \E wish \in Wishes, o \in {<<>>} \cup KeygenOthers(Drawn) :
           LET x == o ++ (wish ++ (KeygenUsual("new") ++ ("entropy" := (CHOOSE e \in Drawn : TRUE))))
               w == entropy_to_mnemonic(x["entropy"])
           IN  /\ Keygen(kind, "new", IF w.ok THEN w.value ELSE <<>>, x)
               /\ Plain(x) /\ "without" \in DOMAIN x
               /\ o # <<>> => slips < MaxSlips
               /\ slips' = IF o = <<>> THEN slips ELSE slips + 1
<1> DEFINE entropy == CHOOSE e \in Drawn : TRUE
           usual == KeygenUsual("new") ++ ("entropy" := entropy)
           Words_(x) == LET w == entropy_to_mnemonic(x["entropy"]) IN IF w.ok THEN w.value ELSE <<>>
<1>1. PICK wish \in Wishes, o \in {<<>>} \cup (IF slips < MaxSlips THEN KeygenOthers(Drawn) ELSE {}) :
        /\ Keygen(kind, "new", Words_(o ++ (wish ++ usual)), o ++ (wish ++ usual))
        /\ slips' = IF o = <<>> THEN slips ELSE slips + 1
  BY DEF KeygenNew, With
<1>2. PICK x : x = o ++ (wish ++ usual)
  OBVIOUS
<1>3. o \in {<<>>} \cup KeygenOthers(Drawn) /\ (o # <<>> => slips < MaxSlips)
  BY <1>1
<1>4. Plain(o) /\ Plain(wish)
  BY <1>3, KeygenInputs
<1>5. Plain(x) /\ "without" \in DOMAIN x
  <2> HIDE DEF entropy
  <2>1. Plain(<<>>)
    BY PlainInputs
  <2> QED BY <1>2, <1>4, <2>1, UsualPlain
<1>6. Keygen(kind, "new", Words_(x), x)
  BY <1>1, <1>2
<1> HIDE DEF usual
<1>7. LET w == entropy_to_mnemonic(x["entropy"])
      IN  Keygen(kind, "new", IF w.ok THEN w.value ELSE <<>>, x)
  BY <1>6
<1> HIDE DEF Words_
<1> QED BY <1>1, <1>2, <1>3, <1>5, <1>7, Zenon DEF usual

LEMMA RecoverRun ==
  ASSUME NEW kind \in Kinds, KeygenRecover(kind)
  PROVE  \E o \in {<<>>} \cup KeygenOthers({}) :
           LET x == o ++ (KeygenUsual("recover") ++ ("entropy" := <<>>) ++ PassphraseFlag(Paper(kind).pass))
           IN  /\ Keygen(kind, "recover", Paper(kind).words, x)
               /\ Plain(x) /\ "without" \in DOMAIN x
               /\ o # <<>> => slips < MaxSlips
               /\ slips' = IF o = <<>> THEN slips ELSE slips + 1
<1> DEFINE flag == PassphraseFlag(Paper(kind).pass)
           usual == KeygenUsual("recover") ++ ("entropy" := <<>>) ++ flag
<1>1. PICK o \in {<<>>} \cup (IF slips < MaxSlips THEN KeygenOthers({}) ELSE {}) :
        /\ Keygen(kind, "recover", Paper(kind).words, o ++ usual)
        /\ slips' = IF o = <<>> THEN slips ELSE slips + 1
  BY DEF KeygenRecover, With
<1>2. PICK x : x = o ++ usual
  OBVIOUS
<1>3. o \in {<<>>} \cup KeygenOthers({}) /\ (o # <<>> => slips < MaxSlips)
  BY <1>1
<1>4. Plain(o)
  BY <1>3, KeygenInputs
<1>5. Plain(flag)
  BY PlainInputs DEF PassphraseFlag
<1>6. Plain(x) /\ "without" \in DOMAIN x
  <2> HIDE DEF flag
  <2> QED BY <1>2, <1>4, <1>5, UsualPlain
<1> HIDE DEF usual
<1> QED BY <1>1, <1>2, <1>3, <1>6, Zenon DEF usual

(* The keys a run writes are numbered within u32 and each of its kind.      *)
THEOREM KeysShaped == Spec => []ShapeInv
<1>1. Init => ShapeInv
  BY DEF Init, ShapeInv, None
<1>2. KeysInv /\ ShapeInv /\ [Next]_vars => ShapeInv'
  <2> SUFFICES ASSUME KeysInv, ShapeInv, [Next]_vars PROVE ShapeInv'
    OBVIOUS
  <2>1. CASE UNCHANGED keys
    BY <2>1 DEF ShapeInv
  <2>2. ASSUME NEW k \in Kinds, KeygenNew(k)
        PROVE  ShapeInv'
    <3>1. PICK x : Plain(x) /\ "without" \in DOMAIN x /\ \E words : Keygen(k, "new", words, x)
      BY <2>2, NewRun
    <3> QED BY <3>1, ShapeStep DEF Hows
  <2>3. ASSUME NEW k \in Kinds, KeygenRecover(k)
        PROVE  ShapeInv'
    <3>1. PICK x : Plain(x) /\ "without" \in DOMAIN x /\ \E words : Keygen(k, "recover", words, x)
      BY <2>3, RecoverRun
    <3> QED BY <3>1, ShapeStep DEF Hows
  <2> QED BY <2>1, <2>2, <2>3, KeysKept DEF vars
<1> QED BY <1>1, <1>2, KeysWell, PTL DEF Spec

-----------------------------------------------------------------------------
(* The inputs of the commands. *)

(* The domain of a sequence. *)
Sized(s) == \E n \in Nat : DOMAIN s = 1 .. n

(* A file is read or not, and its error is not that of a write; nor is that *)
(* of a passphrase one of a keystore's self-check; pubkeys are a sequence.   *)
Mild(o) ==
  /\ "file" \in DOMAIN o => NotWrite(o["file"])
  /\ "pw" \in DOMAIN o /\ ~o["pw"].ok => o["pw"].err # "SelfVerifyFailed"
  /\ "pubkeys" \in DOMAIN o => Sized(o["pubkeys"])

(* Entropy for a new mnemonic is of the longest length. *)
Fresher(o) == "entropy" \in DOMAIN o => o["entropy"] \in Drawn

LEMMA MildInputs ==
  /\ Mild(<<>>)
  /\ \A f, v : f \notin {"file", "pw", "pubkeys"} => Mild(f := v)
  /\ \A v : Mild("file" := Success(v)) /\ Mild("pw" := Success(v))
  /\ Mild("file" := Failure("NotFound"))
  /\ \A r \in Passwords \cup {Failure("PassphraseSource")} : Mild("pw" := r)
  /\ \A p : Sized(p) => Mild("pubkeys" := p)
  /\ \A f, g : Mild(f) /\ Mild(g) => Mild(f ++ g)
<1>1. Mild(<<>>)
  BY DEF Mild
<1>2. ASSUME NEW f, NEW v, f \notin {"file", "pw", "pubkeys"}
      PROVE  Mild(f := v)
  BY <1>2 DEF Mild, :=
<1>3. ASSUME NEW v
      PROVE  Mild("file" := Success(v)) /\ Mild("pw" := Success(v))
  <2>1. PICK r : r = Success(v) /\ r.ok
    BY Results
  <2>2. Mild("file" := r) /\ Mild("pw" := r)
    BY <2>1 DEF Mild, :=, NotWrite
  <2> QED BY <2>1, <2>2
<1>4. Mild("file" := Failure("NotFound"))
  BY DEF Mild, :=, NotWrite, Failure
<1>5. ASSUME NEW r \in Passwords \cup {Failure("PassphraseSource")}
      PROVE  Mild("pw" := r)
  <2>1. ~r.ok => r.err # "SelfVerifyFailed"
    BY Results DEF Passwords, Failure
  <2> QED BY <2>1 DEF Mild, :=
<1>6. ASSUME NEW p, Sized(p)
      PROVE  Mild("pubkeys" := p)
  BY <1>6 DEF Mild, :=
<1>7. ASSUME NEW f, NEW g, Mild(f), Mild(g)
      PROVE  Mild(f ++ g)
  <2> DEFINE h == f ++ g
  <2>1. \A i \in DOMAIN h : h[i] = IF i \in DOMAIN f THEN f[i] ELSE g[i]
    BY DEF ++
  <2>2. DOMAIN h = DOMAIN f \cup DOMAIN g
    BY DEF ++
  <2> HIDE DEF h
  <2>3. Mild(h)
    <3>1. "file" \in DOMAIN h => NotWrite(h["file"])
      BY <1>7, <2>1, <2>2 DEF Mild
    <3>2. "pw" \in DOMAIN h /\ ~h["pw"].ok => h["pw"].err # "SelfVerifyFailed"
      BY <1>7, <2>1, <2>2 DEF Mild
    <3>3. "pubkeys" \in DOMAIN h => Sized(h["pubkeys"])
      BY <1>7, <2>1, <2>2 DEF Mild
    <3> QED BY <3>1, <3>2, <3>3 DEF Mild
  <2> QED BY <2>3 DEF h
<1> QED BY <1>1, <1>2, <1>3, <1>4, <1>5, <1>6, <1>7

LEMMA FresherInputs ==
  /\ Fresher(<<>>)
  /\ \A f, v : f # "entropy" => Fresher(f := v)
  /\ \A e \in Drawn : Fresher("entropy" := e)
  /\ \A f, g : Fresher(f) /\ Fresher(g) => Fresher(f ++ g)
<1>1. Fresher(<<>>)
  BY DEF Fresher
<1>2. ASSUME NEW f, NEW v, f # "entropy"
      PROVE  Fresher(f := v)
  BY <1>2 DEF Fresher, :=
<1>3. ASSUME NEW e \in Drawn
      PROVE  Fresher("entropy" := e)
  BY <1>3 DEF Fresher, :=
<1>4. ASSUME NEW f, NEW g, Fresher(f), Fresher(g)
      PROVE  Fresher(f ++ g)
  <2> DEFINE h == f ++ g
  <2>1. \A i \in DOMAIN h : h[i] = IF i \in DOMAIN f THEN f[i] ELSE g[i]
    BY DEF ++
  <2>2. DOMAIN h = DOMAIN f \cup DOMAIN g
    BY DEF ++
  <2> HIDE DEF h
  <2>3. Fresher(h)
    BY <1>4, <2>1, <2>2 DEF Fresher
  <2> QED BY <2>3 DEF h
<1> QED BY <1>1, <1>2, <1>3, <1>4

LEMMA DrawnThere == (CHOOSE e \in Drawn : TRUE) \in Drawn
<1>1. \E e : e \in Drawn
  BY LifecycleAssumption DEF Drawn
<1> QED BY <1>1

LEMMA KeygenMild ==
  ASSUME NEW entropies, NEW o \in {<<>>} \cup KeygenOthers(entropies)
  PROVE  /\ Mild(o) /\ (entropies \subseteq Drawn => Fresher(o))
         /\ \A how : Mild(KeygenUsual(how)) /\ Fresher(KeygenUsual(how))
         /\ \A wish \in Wishes : Mild(wish) /\ Fresher(wish)
<1>1. Mild(o)
  <2>1. \A r \in Passwords : Mild("pw" := r)
    BY MildInputs
  <2>2. \A v : /\ Mild("count" := v) /\ Mild("start-index" := v) /\ Mild("entropy" := v) /\ Mild("typed" := v)
               /\ Mild("mnemonic-passphrase" := v) /\ Mild("mnemonic-passphrase-file" := v) /\ Mild("asked" := v)
               /\ Mild("no-verify" := v) /\ Mild("tty" := v) /\ Mild("without" := v) /\ Mild("passphrase-file" := v)
               /\ Mild("output-dir" := v) /\ Mild("refused" := v) /\ Mild("damaged" := v)
    BY MildInputs
  <2>3. Mild(<<>>)
    BY MildInputs
  <2>4. \A f, g : Mild(f) /\ Mild(g) => Mild(f ++ g)
    BY MildInputs
  <2> QED BY <2>1, <2>2, <2>3, <2>4, Zenon DEF KeygenOthers
<1>2. ASSUME entropies \subseteq Drawn
      PROVE  Fresher(o)
  <2>1. \A e \in entropies : Fresher("entropy" := e)
    BY <1>2, FresherInputs
  <2> QED BY <2>1, FresherInputs, Zenon DEF KeygenOthers
<1>3. ASSUME NEW how
      PROVE  Mild(KeygenUsual(how)) /\ Fresher(KeygenUsual(how))
  BY MildInputs, FresherInputs DEF KeygenUsual, NoFlags
<1>4. \A wish \in Wishes : Mild(wish) /\ Fresher(wish)
  BY MildInputs, FresherInputs, Zenon DEF Wishes
<1> QED BY <1>1, <1>2, <1>3, <1>4

LEMMA GenMild ==
  ASSUME ShapeInv, keys["validator"]["new"] # None, Pubkeys # <<>>, NEW o \in {<<>>} \cup GenOthers
  PROVE  Mild(o) /\ Mild(GenUsual)
<1>1. PICK run : run = keys["validator"]["new"][1] /\ RunShape("validator", run)
  BY DEF ShapeInv, Kinds, Hows
<1>2. PICK n \in Nat : run.written = [i \in 1 .. n |-> run.written[i]]
  BY <1>1 DEF RunShape
<1>3. PICK p : p = Pubkeys
  OBVIOUS
<1>4. DOMAIN p = 1 .. n
  BY <1>1, <1>2, <1>3 DEF Pubkeys
<1>5. PICK S : S = {p[i] : i \in 1 .. n}
  BY Zenon
<1>6. p \in Seq(S)
  <2>1. p = [i \in 1 .. n |-> p[i]]
    BY <1>1, <1>2, <1>3 DEF Pubkeys
  <2>2. \A i \in 1 .. n : p[i] \in S
    BY <1>5
  <2>3. p \in [1 .. n -> S]
    BY <2>1, <2>2
  <2> QED BY <1>2, <2>3, SeqDef
<1>7. Sized(p \o p)
  <2>1. p \o p \in Seq(S)
    BY <1>6, ConcatProperties
  <2> QED BY <2>1, LenProperties DEF Sized
<1>8. \A e : Sized(Append(p, e))
  <2> SUFFICES ASSUME NEW e PROVE Sized(Append(p, e))
    OBVIOUS
  <2>1. p \in Seq(S \cup {e}) /\ e \in S \cup {e}
    BY <1>6
  <2>2. Append(p, e) \in Seq(S \cup {e})
    BY <2>1, AppendProperties
  <2> QED BY <2>2, LenProperties DEF Sized
<1>9. \A a : Sized(<<a>>)
  <2>1. \A a : DOMAIN <<a>> = 1 .. 1
    OBVIOUS
  <2> QED BY <2>1 DEF Sized
<1>10. Sized(<<>>) /\ Sized(p)
  <2>1. DOMAIN <<>> = 1 .. 0
    OBVIOUS
  <2> QED BY <1>4, <2>1 DEF Sized
<1>11. \A q \in {<<>>, Pubkeys \o Pubkeys, <<PubkeyText(NotAPoint)>>, <<PubkeyText(OtherKey)>>,
                 Append(Pubkeys, [Pubkeys[1] EXCEPT !.prefix = FALSE]), <<[Pubkeys[1] EXCEPT !.digits = 95]>>} :
         Mild("pubkeys" := q)
  <2>1. PICK a, b, c, d : a = PubkeyText(NotAPoint) /\ b = PubkeyText(OtherKey)
                          /\ c = [Pubkeys[1] EXCEPT !.prefix = FALSE] /\ d = [Pubkeys[1] EXCEPT !.digits = 95]
    OBVIOUS
  <2>2. \A q \in {<<>>, p \o p, <<a>>, <<b>>, Append(p, c), <<d>>} : Sized(q)
    BY <1>7, <1>8, <1>9, <1>10
  <2>3. \A q \in {<<>>, p \o p, <<a>>, <<b>>, Append(p, c), <<d>>} : Mild("pubkeys" := q)
    BY <2>2, MildInputs
  <2> QED BY <1>3, <2>1, <2>3
<1>12. \A v : /\ Mild("network" := v) /\ Mild("withdrawal-address" := v) /\ Mild("parallel" := v)
              /\ Mild("without" := v) /\ Mild("i-understand-this-is-mainnet" := v) /\ Mild("dry-run" := v)
              /\ Mild("keystore-dir" := v) /\ Mild("output-dir" := v) /\ Mild("order" := v)
              /\ Mild("passphrase-file" := v) /\ Mild("env" := v)
  BY MildInputs
<1>13. Mild(<<>>) /\ \A f, g : Mild(f) /\ Mild(g) => Mild(f ++ g)
  BY MildInputs
<1>14. \A r \in Passwords \cup {Failure("PassphraseSource")} : Mild("pw" := r)
  BY MildInputs
<1>15. Mild(o)
  BY <1>11, <1>12, <1>13, <1>14, Zenon DEF GenOthers
<1>16. Mild(GenUsual)
  <2>1. Mild("pubkeys" := Pubkeys) /\ Mild("pw" := Success(keys["validator"]["new"][1].pw))
    BY <1>3, <1>10, MildInputs
  <2> QED BY <1>12, <1>13, <2>1, Zenon DEF GenUsual, NoFlags
<1> QED BY <1>15, <1>16

(* No other command is given a passphrase or pubkeys.                        *)
LEMMA NodeMild ==
  ASSUME NEW calls, NEW o \in NodeOthers(calls)
  PROVE  Mild(o)
<1>1. \A n : Mild("node" := n)
  BY MildInputs
<1> QED BY <1>1, Zenon DEF NodeOthers

LEMMA TxMild ==
  /\ \A o \in {<<>>} \cup BuildOthers \cup FromOthers \cup SignOthers : Mild(o)
  /\ Mild(BuildUsual) /\ Mild(SignUsual) /\ Mild(NoFlags)
  /\ \A f \in {"input", "rpc-url", "typed", "yes", "node", "without", "from"} : \A v : Mild(f := v)
<1>1. \A v : /\ Mild("network" := v) /\ Mild("env" := v) /\ Mild("rpc-url" := v) /\ Mild("gas-limit" := v)
             /\ Mild("max-fee-per-gas" := v) /\ Mild("nonce" := v) /\ Mild("max-priority-fee-per-gas" := v)
             /\ Mild("index" := v) /\ Mild("without" := v) /\ Mild("from" := v) /\ Mild("signer" := v)
             /\ Mild("private-key-file" := v) /\ Mild("key_file" := v) /\ Mild("device" := v)
             /\ Mild("input-file" := v) /\ Mild("node" := v) /\ Mild("input" := v) /\ Mild("typed" := v)
             /\ Mild("yes" := v)
  BY MildInputs
<1>2. Mild(<<>>) /\ \A f, g : Mild(f) /\ Mild(g) => Mild(f ++ g)
  BY MildInputs
<1>3. Mild("file" := Failure("NotFound")) /\ Mild("file" := Success(deposit[1]))
  BY MildInputs
<1>4. \A o \in BuildOthers : Mild(o)
  BY <1>1, <1>2, <1>3, NodeMild, Zenon DEF BuildOthers
<1>5. \A o \in FromOthers : Mild(o)
  BY <1>1, Zenon DEF FromOthers
<1>6. \A o \in SignOthers : Mild(o)
  BY <1>1, <1>2, Zenon DEF SignOthers
<1>7. Mild(NoFlags) /\ Mild(SignUsual)
  BY <1>1, <1>2, Zenon DEF NoFlags, SignUsual
<1>8. Mild(BuildUsual)
  <2>1. PICK g : g = IF Chain = "hoodi" THEN <<>> ELSE "network" := Chain
    OBVIOUS
  <2>2. Mild(g)
    BY <1>1, <1>2, <2>1
  <2>3. BuildUsual = NoFlags ++ ("input-file" := "deposit.json") ++ ("rpc-url" := Http)
                     ++ ("file" := Success(deposit[1])) ++ ("node" := NodeUsual) ++ g
    BY <2>1, Zenon DEF BuildUsual
  <2>4. Mild("input-file" := "deposit.json") /\ Mild("rpc-url" := Http) /\ Mild("node" := NodeUsual)
    BY <1>1
  <2> QED BY <1>2, <1>3, <1>7, <2>2, <2>3, <2>4, Zenon
<1>9. \A f \in {"input", "rpc-url", "typed", "yes", "node", "without", "from"} : \A v : Mild(f := v)
  BY <1>1
<1> QED BY <1>2, <1>4, <1>5, <1>6, <1>7, <1>8, <1>9

(* What is given stays given. *)
LEMMA Given ==
  /\ \A f, g, n : n \in DOMAIN f \/ n \in DOMAIN g => n \in DOMAIN (f ++ g)
  /\ \A n, v : n \in DOMAIN (n := v)
BY DEF ++, :=

LEMMA UsualGives ==
  /\ \A how : "pw" \in DOMAIN KeygenUsual(how)
  /\ "pw" \in DOMAIN GenUsual /\ "file" \in DOMAIN BuildUsual
<1>1. \A how : "pw" \in DOMAIN KeygenUsual(how)
  BY Given DEF KeygenUsual
<1>2. "pw" \in DOMAIN GenUsual
  BY Given DEF GenUsual
<1>3. "file" \in DOMAIN BuildUsual
  BY Given DEF BuildUsual
<1> QED BY <1>1, <1>2, <1>3

-----------------------------------------------------------------------------
(* Exit codes. *)

LEMMA EndedTold ==
  ASSUME NEW cmd, NEW r, Fine(r), Ended(cmd, r)
  PROVE  DocumentedExit'
<1>1. PICK cause, exit : /\ cause = IF r.ok THEN <<>> ELSE RootCause(r.err)
                         /\ exit = IF r.ok THEN 0 ELSE exit_code_for(r.err)
  OBVIOUS
<1>2. last'.cause = cause /\ last'.exit = exit
  <2>1. last' = [cmd |-> cmd, cause |-> cause, exit |-> exit]
    BY <1>1 DEF Ended
  <2> QED BY <2>1
<1>3. ~r.ok => RootCause(r.err) # <<>>
  <2>1. PICK a, b : RootCause(r.err) = <<a, b>>
    BY DEF RootCause
  <2> QED BY <2>1
<1>4. exit = IF cause = <<>> THEN 0 ELSE Documented(cause)
  BY <1>1, <1>3 DEF Fine, Told
<1> QED BY <1>2, <1>4, Zenon DEF DocumentedExit, Documented

LEMMA KeygenTold ==
  ASSUME NEW kind \in Kinds, NEW how \in Hows, NEW words, NEW x, Keygen(kind, how, words, x),
         Mild(x), "pw" \in DOMAIN x, how = "new" => x["entropy"] \in Drawn
  PROVE  DocumentedExit'
<1> DEFINE deps == [entropy |-> x["entropy"], typed |-> Retyped(words, x["typed"]), tty |-> x["tty"],
                    asked |-> IF "asked" \in DOMAIN x THEN x["asked"] ELSE <<>>, keystore_pw |-> x["pw"],
                    refused |-> x["refused"], damaged |-> x["damaged"], run |-> x["run"], now |-> 0]
           out == keygen(kind, how = "new", Args(x, KeyFlags), deps)
<1>1. Ended(kind, out.result)
  BY DEF Keygen
<1>2. deps.keystore_pw = x["pw"] /\ deps.entropy = x["entropy"]
  OBVIOUS
<1>3. ~x["pw"].ok => x["pw"].err # "SelfVerifyFailed"
  BY DEF Mild
<1>4. how = "new" => LongestWords(x["entropy"])
  BY DrawnLongest
<1> HIDE DEF deps
<1>5. (how = "new") \in BOOLEAN
  OBVIOUS
<1>6. Fine(out.result)
  BY <1>2, <1>3, <1>4, <1>5, KeygenFine
<1> HIDE DEF out
<1> QED BY <1>1, <1>6, EndedTold

LEMMA KeygenNewTold ==
  ASSUME NEW kind \in Kinds, KeygenNew(kind)
  PROVE  DocumentedExit'
<1> DEFINE g == "entropy" := (CHOOSE e \in Drawn : TRUE)
<1>1. PICK wish \in Wishes, o \in {<<>>} \cup KeygenOthers(Drawn) :
        \E words : Keygen(kind, "new", words, o ++ (wish ++ (KeygenUsual("new") ++ g)))
  BY NewRun, Zenon
<1>2. PICK x : x = o ++ (wish ++ (KeygenUsual("new") ++ g))
  OBVIOUS
<1>3. Mild(g) /\ Fresher(g) /\ "entropy" \in DOMAIN g
  BY DrawnThere, MildInputs, FresherInputs, Given
<1>4. Mild(o) /\ Fresher(o) /\ Mild(wish) /\ Fresher(wish) /\ Mild(KeygenUsual("new")) /\ Fresher(KeygenUsual("new"))
  BY KeygenMild
<1> HIDE DEF g
<1>5. Mild(x) /\ Fresher(x)
  BY <1>2, <1>3, <1>4, MildInputs, FresherInputs
<1>6. "pw" \in DOMAIN x /\ "entropy" \in DOMAIN x
  BY <1>2, <1>3, Given, UsualGives
<1>7. x["entropy"] \in Drawn
  BY <1>5, <1>6 DEF Fresher
<1>8. (\E words : Keygen(kind, "new", words, x)) /\ "new" \in Hows
  BY <1>1, <1>2 DEF Hows
<1> QED BY <1>5, <1>6, <1>7, <1>8, KeygenTold

LEMMA KeygenRecoverTold ==
  ASSUME NEW kind \in Kinds, KeygenRecover(kind)
  PROVE  DocumentedExit'
<1> DEFINE g == "entropy" := <<>>
           flag == PassphraseFlag(Paper(kind).pass)
<1>1. PICK o \in {<<>>} \cup KeygenOthers({}) :
        \E words : Keygen(kind, "recover", words, o ++ (KeygenUsual("recover") ++ g ++ flag))
  BY RecoverRun, Zenon
<1>2. PICK x : x = o ++ (KeygenUsual("recover") ++ g ++ flag)
  OBVIOUS
<1>3. Mild(g) /\ Mild(flag)
  BY MildInputs DEF PassphraseFlag
<1>4. Mild(o) /\ Mild(KeygenUsual("recover"))
  BY KeygenMild
<1> HIDE DEF g, flag
<1>5. Mild(x)
  BY <1>2, <1>3, <1>4, MildInputs
<1>6. "pw" \in DOMAIN x
  BY <1>2, Given, UsualGives
<1>7. (\E words : Keygen(kind, "recover", words, x)) /\ "recover" \in Hows
  BY <1>1, <1>2 DEF Hows
<1> QED BY <1>5, <1>6, <1>7, KeygenTold

LEMMA GenTold ==
  ASSUME ShapeInv, DepositGen
  PROVE  DocumentedExit'
<1>1. PICK o \in {<<>>} \cup GenOthers :
        \E listing : Ended("gen", deposit_gen(Args(o ++ GenUsual, gen_args), listing, (o ++ GenUsual)["pw"]))
  BY DEF DepositGen, With
<1>2. PICK x : x = o ++ GenUsual
  OBVIOUS
<1>3. Mild(o) /\ Mild(GenUsual)
  <2>1. keys["validator"]["new"] # None /\ Pubkeys # <<>>
    BY DEF DepositGen
  <2> QED BY <2>1, GenMild
<1>4. Mild(x) /\ "pw" \in DOMAIN x
  BY <1>2, <1>3, MildInputs, Given, UsualGives
<1>5. PICK args : args = Args(x, gen_args)
  OBVIOUS
<1>6. "pubkeys" \in DOMAIN args => DOMAIN args["pubkeys"] \subseteq Nat
  <2>1. "pubkeys" \in DOMAIN args => "pubkeys" \in DOMAIN x /\ args["pubkeys"] = x["pubkeys"]
    BY <1>5 DEF Args
  <2> QED BY <1>4, <2>1 DEF Mild, Sized
<1>7. ~x["pw"].ok => x["pw"].err # "SelfVerifyFailed"
  BY <1>4 DEF Mild
<1>8. PICK listing, pass : pass = x["pw"] /\ Ended("gen", deposit_gen(args, listing, pass))
  BY <1>1, <1>2, <1>5
<1> QED BY <1>6, <1>7, <1>8, GenFine, EndedTold

LEMMA TxTold ==
  ASSUME DepositBuild \/ TxSign \/ TxRun \/ TxSend
  PROVE  DocumentedExit'
<1>1. CASE DepositBuild
  <2> DEFINE usual == BuildUsual ++ ("from" := AddressText(Sender, "lower-case"))
  <2>1. PICK o \in {<<>>} \cup (BuildOthers \cup FromOthers) :
          \E args, env, node : Ended("build", deposit_build(args, env, (o ++ usual)["file"], node))
    BY <1>1 DEF DepositBuild, With
  <2>2. Mild(o) /\ Mild(usual) /\ "file" \in DOMAIN usual
    BY TxMild, MildInputs, Given, UsualGives
  <2>3. PICK x : x = o ++ usual
    OBVIOUS
  <2> HIDE DEF usual
  <2>4. Mild(x) /\ "file" \in DOMAIN x
    BY <2>2, <2>3, MildInputs, Given
  <2>5. NotWrite(x["file"])
    BY <2>4 DEF Mild
  <2> QED BY <2>1, <2>3, <2>5, BuildFine, EndedTold
<1>2. CASE TxSign
  <2> DEFINE usual == NoFlags ++ SignUsual ++ ("input" := "unsigned.json") ++ ("file" := Success(unsigned[1].tx))
  <2>1. PICK o \in {<<>>} \cup (SignOthers \cup {"file" := Failure("NotFound"), "without" := {"input"}}) :
          \E args, key_file, device : Ended("sign", tx_sign(args, (o ++ usual)["file"], key_file, device))
    BY <1>2 DEF TxSign, With
  <2>2. Mild(o)
    BY <2>1, TxMild, MildInputs
  <2>3. Mild(usual) /\ "file" \in DOMAIN usual
    <3>1. Mild("input" := "unsigned.json") /\ Mild("file" := Success(unsigned[1].tx)) /\ Mild(NoFlags) /\ Mild(SignUsual)
      BY TxMild, MildInputs
    <3> QED BY <3>1, MildInputs, Given
  <2>4. PICK x : x = o ++ usual
    OBVIOUS
  <2> HIDE DEF usual
  <2>5. Mild(x) /\ "file" \in DOMAIN x
    BY <2>2, <2>3, <2>4, MildInputs, Given
  <2>6. NotWrite(x["file"])
    BY <2>5 DEF Mild
  <2> QED BY <2>1, <2>4, <2>6, SignFine, EndedTold, Zenon
<1>3. CASE TxRun
  <2> DEFINE usual == BuildUsual ++ SignUsual
  <2>1. PICK o \in {<<>>} \cup (BuildOthers \cup SignOthers) :
          \E args, env, key_file, device, node :
            Ended("run", tx_run(args, env, (o ++ usual)["file"], key_file, device, node))
    BY <1>3 DEF TxRun, With
  <2>2. Mild(o) /\ Mild(usual) /\ "file" \in DOMAIN usual
    BY TxMild, MildInputs, Given, UsualGives
  <2>3. PICK x : x = o ++ usual
    OBVIOUS
  <2> HIDE DEF usual
  <2>4. Mild(x) /\ "file" \in DOMAIN x
    BY <2>2, <2>3, MildInputs, Given
  <2>5. NotWrite(x["file"])
    BY <2>4 DEF Mild
  <2> QED BY <2>1, <2>3, <2>5, RunFine, EndedTold
<1>4. CASE TxSend
  <2> DEFINE usual == NoFlags ++ ("input" := "signed.json") ++ ("rpc-url" := Http) ++ ("file" := Success(signed[1].tx)) ++
                      ("node" := NodeUsual) ++ ("typed" := <<Chain>>)
             others == NodeOthers({"chain_id", "sent"}) \cup
                       {"typed" := <<"mainnet">>, "yes" := TRUE, "without" := {"rpc-url"},
                        "rpc-url" := [Http EXCEPT !.scheme = "ftp"], "file" := Failure("NotFound")}
  <2>1. PICK o \in {<<>>} \cup others :
          \E args, node, typed : Ended("send", tx_send(args, (o ++ usual)["file"], node, typed))
    BY <1>4 DEF TxSend, With
  <2>2. Mild(o)
    BY <2>1, TxMild, NodeMild, MildInputs
  <2>3. Mild(usual) /\ "file" \in DOMAIN usual
    <3>1. Mild("input" := "signed.json") /\ Mild("file" := Success(signed[1].tx)) /\ Mild("rpc-url" := Http)
          /\ Mild("node" := NodeUsual) /\ Mild("typed" := <<Chain>>) /\ Mild(NoFlags)
      BY TxMild, MildInputs
    <3> QED BY <3>1, MildInputs, Given
  <2>4. PICK x : x = o ++ usual
    OBVIOUS
  <2> HIDE DEF usual
  <2>5. Mild(x) /\ "file" \in DOMAIN x
    BY <2>2, <2>3, <2>4, MildInputs, Given
  <2>6. NotWrite(x["file"])
    BY <2>5 DEF Mild
  <2> QED BY <2>1, <2>4, <2>6, SendFine, EndedTold, Zenon
<1> QED BY <1>1, <1>2, <1>3, <1>4

(* The class of what went wrong, under all that is wrapped around it,        *)
(* decides the exit code, for every command and whatever was out of the     *)
(* ordinary: exit_code_for of errors.rs looks under every context.           *)
THEOREM ExitsDocumented == Spec => []DocumentedExit
<1>1. Init => DocumentedExit
  BY DEF Init, DocumentedExit
<1>2. ShapeInv /\ DocumentedExit /\ [Next]_vars => DocumentedExit'
  <2> SUFFICES ASSUME ShapeInv, DocumentedExit, [Next]_vars PROVE DocumentedExit'
    OBVIOUS
  <2>1. CASE UNCHANGED last
    <3>1. last' = last
      BY <2>1
    <3> QED BY <3>1, Zenon DEF DocumentedExit
  <2>2. CASE Edit \/ Drift \/ Mine
    BY <2>1, <2>2 DEF Edit, EditDeposit, EditUnsigned, EditSigned, EditKeystore, Drift, Mine
  <2> QED BY <2>1, <2>2, KeygenNewTold, KeygenRecoverTold, GenTold, TxTold DEF vars, Next
<1> QED BY <1>1, <1>2, KeysShaped, PTL DEF Spec

-----------------------------------------------------------------------------
(* Words of bits. *)

(* The powers of two, from the number of subsets of a set.                   *)
LEMMA PowerOfTwo ==
  ASSUME NEW n \in Nat
  PROVE  2 ^ n \in Nat /\ 2 ^ (n + 1) = 2 * 2 ^ n
<1> DEFINE A == 1 .. n
           x == n + 1
           Half == {B \cup {x} : B \in SUBSET A}
           f == [B \in SUBSET A |-> B \cup {x}]
<1>1. IsFiniteSet(A) /\ Cardinality(A) = n
  BY FS_Interval
<1>2. x \notin A
  OBVIOUS
<1>3. IsFiniteSet(A \cup {x}) /\ Cardinality(A \cup {x}) = n + 1
  <2> HIDE DEF A, x
  <2>1. Cardinality(A \cup {x}) = Cardinality(A) + 1
    BY <1>1, <1>2, FS_AddElement
  <2> QED BY <1>1, <2>1, FS_AddElement DEF x
<1> HIDE DEF A, x
<1>4. /\ IsFiniteSet(SUBSET A) /\ Cardinality(SUBSET A) = 2 ^ n
      /\ Cardinality(SUBSET (A \cup {x})) = 2 ^ (n + 1)
  BY <1>1, <1>3, FS_SUBSET
<1>5. f \in Bijection(SUBSET A, Half)
  <2>1. f \in [SUBSET A -> Half]
    OBVIOUS
  <2>2. ASSUME NEW B \in SUBSET A, NEW C \in SUBSET A, f[B] = f[C]
        PROVE  B = C
    <3>1. B \cup {x} = C \cup {x}
      BY <2>2
    <3> QED BY <1>2, <3>1
  <2>3. \A t \in Half : \E B \in SUBSET A : f[B] = t
    OBVIOUS
  <2> HIDE DEF f, Half
  <2> QED BY <2>1, <2>2, <2>3, Fun_IsBij
<1>6. IsFiniteSet(Half) /\ Cardinality(Half) = 2 ^ n
  <2> HIDE DEF Half
  <2>1. ExistsBijection(SUBSET A, Half)
    BY <1>5 DEF ExistsBijection
  <2> QED BY <1>4, <2>1, FS_Bijection
<1>7. SUBSET (A \cup {x}) = (SUBSET A) \cup Half
  <2>1. ASSUME NEW B \in SUBSET (A \cup {x}), x \in B
        PROVE  B \in Half
    <3>1. B = (B \ {x}) \cup {x} /\ B \ {x} \in SUBSET A
      BY <2>1
    <3> QED BY <3>1
  <2>2. ASSUME NEW B \in SUBSET (A \cup {x}), x \notin B
        PROVE  B \in SUBSET A
    BY <2>2
  <2>3. (SUBSET A) \cup Half \subseteq SUBSET (A \cup {x})
    OBVIOUS
  <2> HIDE DEF Half
  <2> QED BY <2>1, <2>2, <2>3, Zenon
<1>8. (SUBSET A) \cap Half = {}
  <2>1. \A B \in Half : x \in B
    OBVIOUS
  <2>2. \A B \in SUBSET A : x \notin B
    BY <1>2
  <2> HIDE DEF Half
  <2> QED BY <2>1, <2>2
<1>9. 2 ^ n \in Nat
  BY <1>4, FS_CardinalityType
<1>10. 2 ^ (n + 1) = 2 ^ n + 2 ^ n
  <2> HIDE DEF Half
  <2>1. PICK P : P = SUBSET A
    OBVIOUS
  <2>2. Cardinality(P \cup Half) = Cardinality(P) + Cardinality(Half) - Cardinality(P \cap Half)
    BY <1>4, <1>6, <2>1, FS_Union
  <2>3. Cardinality(P \cap Half) = 0
    BY <1>8, <2>1, FS_EmptySet
  <2>4. PICK u, v : u = 2 ^ n /\ v = 2 ^ (n + 1)
    OBVIOUS
  <2>5. v = u + u - 0
    BY <1>4, <1>6, <1>7, <2>1, <2>2, <2>3, <2>4
  <2> QED BY <1>9, <2>4, <2>5
<1> QED BY <1>9, <1>10

(* The definition by recursion of WordOf, which TLA+ takes as a choice, has  *)
(* a solution: were there a first length without one, the solution for the  *)
(* length before it could be continued.                                      *)
LEMMA WordDefined ==
  ASSUME NEW bits, NEW m \in Nat
  PROVE  \E g : g = [n \in 0 .. m |-> IF n = 0 THEN 0 ELSE 2 * g[n - 1] + bits[n]]
<1> DEFINE Body(g, n) == IF n = 0 THEN 0 ELSE 2 * g[n - 1] + bits[n]
           Solved(k)  == \E g : g = [n \in 0 .. k |-> Body(g, n)]
           none == {k \in Nat : ~Solved(k)}
<1>1. Solved(0)
  <2>1. PICK g : g = [n \in 0 .. 0 |-> 0]
    OBVIOUS
  <2>2. \A n \in 0 .. 0 : Body(g, n) = 0
    OBVIOUS
  <2>3. g = [n \in 0 .. 0 |-> Body(g, n)]
    <3> HIDE DEF Body
    <3> QED BY <2>1, <2>2
  <2> QED BY <2>3
<1>2. ASSUME NEW k \in Nat, Solved(k)
      PROVE  Solved(k + 1)
  <2>1. PICK g : g = [n \in 0 .. k |-> Body(g, n)]
    BY <1>2
  <2>2. PICK h : h = [n \in 0 .. k + 1 |-> IF n = k + 1 THEN 2 * g[k] + bits[k + 1] ELSE g[n]]
    OBVIOUS
  <2>3. ASSUME NEW n \in 0 .. k + 1
        PROVE  h[n] = Body(h, n)
    <3>1. CASE n = k + 1
      <4>1. h[k] = g[k]
        BY <2>2
      <4> QED BY <2>2, <3>1, <4>1
    <3>2. CASE n \in 1 .. k
      <4>1. h[n] = g[n] /\ h[n - 1] = g[n - 1]
        BY <2>2, <3>2
      <4>2. g[n] = Body(g, n)
        <5> HIDE DEF Body
        <5> QED BY <2>1, <3>2
      <4> QED BY <3>2, <4>1, <4>2
    <3>3. CASE n = 0
      <4>1. h[0] = g[0]
        BY <2>2
      <4>2. g[0] = Body(g, 0)
        <5> HIDE DEF Body
        <5> QED BY <2>1
      <4> QED BY <3>3, <4>1, <4>2
    <3> QED BY <3>1, <3>2, <3>3
  <2>4. h = [n \in 0 .. k + 1 |-> Body(h, n)]
    <3> HIDE DEF Body
    <3> QED BY <2>2, <2>3
  <2> QED BY <2>4
<1>3. none = {}
  <2> SUFFICES ASSUME none # {} PROVE FALSE
    OBVIOUS
  <2>1. none \subseteq Nat
    OBVIOUS
  <2>2. PICK k : k = Min(none)
    OBVIOUS
  <2>3. k \in none /\ \A n \in none : k <= n
    <3> HIDE DEF none
    <3> QED BY <2>1, <2>2, MinOf
  <2>4. k \in Nat /\ k # 0 /\ ~Solved(k)
    <3> HIDE DEF Solved
    <3> QED BY <1>1, <2>3
  <2>5. k - 1 \in Nat /\ k - 1 \notin none
    <3> HIDE DEF none
    <3> QED BY <2>3, <2>4
  <2>6. Solved(k - 1)
    <3> HIDE DEF Solved
    <3> QED BY <2>5
  <2>7. Solved((k - 1) + 1)
    <3> HIDE DEF Solved
    <3> QED BY <1>2, <2>5, <2>6
  <2>8. (k - 1) + 1 = k
    BY <2>4
  <2> HIDE DEF Solved
  <2> QED BY <2>4, <2>7, <2>8
<1>4. Solved(m)
  <2> HIDE DEF Solved
  <2> QED BY <1>3
<1> QED BY <1>4

(* A word of n bits is below 2^n. *)
LEMMA WordBound ==
  ASSUME NEW bits \in Seq(Bits)
  PROVE  WordOf(bits) \in 0 .. 2 ^ Len(bits) - 1
<1>1. PICK m : m = Len(bits) /\ m \in Nat /\ DOMAIN bits = 1 .. m /\ \A i \in 1 .. m : bits[i] \in Bits
  OBVIOUS
<1> DEFINE word == CHOOSE g : g = [n \in 0 .. m |-> IF n = 0 THEN 0 ELSE 2 * g[n - 1] + bits[n]]
<1>2. WordOf(bits) = word[m]
  BY <1>1, Zenon DEF WordOf
<1>3. word = [n \in 0 .. m |-> IF n = 0 THEN 0 ELSE 2 * word[n - 1] + bits[n]]
  BY <1>1, WordDefined
<1> HIDE DEF word
<1>4. word[0] = 0 /\ \A n \in 1 .. m : word[n] = 2 * word[n - 1] + bits[n]
  BY <1>1, <1>3
<1> DEFINE Fits(n) == word[n] \in Nat /\ word[n] < 2 ^ n
           wide == {n \in 0 .. m : ~Fits(n)}
<1>5. Fits(0)
  BY <1>4
<1>6. ASSUME NEW n \in 0 .. m, n + 1 \in 0 .. m, Fits(n)
      PROVE  Fits(n + 1)
  <2>1. PICK p, q : p = 2 ^ n /\ q = 2 ^ (n + 1) /\ p \in Nat /\ q = 2 * p
    BY PowerOfTwo
  <2>2. word[n + 1] = 2 * word[n] + bits[n + 1] /\ bits[n + 1] \in Bits
    BY <1>1, <1>4, <1>6
  <2>3. word[n] \in Nat /\ word[n] < p
    BY <1>6, <2>1
  <2>4. word[n + 1] \in Nat /\ word[n + 1] < q
    BY <2>1, <2>2, <2>3 DEF Bits
  <2> QED BY <2>1, <2>4
<1>7. wide = {}
  <2> SUFFICES ASSUME wide # {} PROVE FALSE
    OBVIOUS
  <2>1. wide \subseteq Nat
    BY <1>1
  <2>2. PICK k : k = Min(wide)
    OBVIOUS
  <2>3. k \in wide /\ \A n \in wide : k <= n
    <3> HIDE DEF wide
    <3> QED BY <2>1, <2>2, MinOf
  <2>4. k \in 0 .. m /\ k # 0 /\ ~Fits(k)
    <3> HIDE DEF Fits
    <3> QED BY <1>5, <2>3
  <2>5. k - 1 \in 0 .. m /\ k - 1 \notin wide
    <3> HIDE DEF wide
    <3> QED BY <1>1, <2>3, <2>4
  <2>6. Fits(k - 1)
    <3> HIDE DEF Fits
    <3> QED BY <2>5
  <2>7. (k - 1) + 1 = k
    BY <1>1, <2>4
  <2>8. Fits((k - 1) + 1)
    <3> HIDE DEF Fits
    <3> QED BY <1>6, <2>4, <2>5, <2>6, <2>7
  <2> HIDE DEF Fits
  <2> QED BY <2>4, <2>7, <2>8
<1>8. Fits(m)
  <2> HIDE DEF Fits
  <2> QED BY <1>1, <1>7
<1>9. PICK p, w : p = 2 ^ m /\ w = word[m]
  OBVIOUS
<1>10. p \in Nat /\ w \in Nat /\ w < p
  BY <1>1, <1>8, <1>9, PowerOfTwo
<1>11. w \in 0 .. p - 1
  BY <1>10
<1> QED BY <1>1, <1>2, <1>9, <1>11

(* Entropy makes words of the list. *)
LEMMA WordsOfEntropy ==
  ASSUME NEW e \in Entropies
  PROVE  entropy_to_mnemonic(e).ok /\ entropy_to_mnemonic(e).value \in Seq(Words)
<1>1. PICK bits : bits = e \o Checksum(e)
  OBVIOUS
<1>2. PICK c \in WordCounts : /\ Len(e) = ENT(c) /\ bits \in Seq(Bits)
                              /\ Len(bits) = c * WordBits /\ Len(bits) \div WordBits = c
  BY <1>1, BitsOfEntropy
<1>3. c \in Nat \ {0} /\ WordBits \in Nat \ {0}
  BY MnemonicAssumption
<1>4. ASSUME NEW i \in 1 .. c
      PROVE  WordOf(SubSeq(bits, (i - 1) * WordBits + 1, i * WordBits)) \in Words
  <2>1. PICK a, b : a = (i - 1) * WordBits /\ b = i * WordBits
    OBVIOUS
  <2>2. a \in Nat /\ b \in Nat /\ b = a + WordBits
    BY <1>3, <2>1
  <2>3. b <= Len(bits)
    <3>1. PICK d \in Nat : c = i + d
      <4>1. c = i + (c - i) /\ c - i \in Nat
        BY <1>3
      <4> QED BY <4>1
    <3>2. c * WordBits = i * WordBits + d * WordBits
      BY <1>3, <3>1
    <3>3. d * WordBits \in Nat
      BY <1>3, <3>1
    <3>4. PICK y : y = d * WordBits /\ y \in Nat
      BY <3>3
    <3> QED BY <1>2, <2>1, <2>2, <3>2, <3>4
  <2>4. \A j \in a + 1 .. b : bits[j] \in Bits
    BY <1>2, <2>2, <2>3, ElementOfSeq
  <2>5. PICK s : s = SubSeq(bits, a + 1, b)
    OBVIOUS
  <2>6. s \in Seq(Bits) /\ Len(s) = WordBits
    <3>1. s \in Seq(Bits) /\ Len(s) = IF a + 1 <= b THEN b - (a + 1) + 1 ELSE 0
      BY <2>2, <2>4, <2>5, SubSeqProperties
    <3> QED BY <1>3, <2>2, <3>1
  <2>7. WordOf(s) \in 0 .. 2 ^ WordBits - 1
    BY <2>6, WordBound
  <2> QED BY <2>1, <2>5, <2>7 DEF Words
<1>5. PICK words : words = [i \in 1 .. c |-> WordOf(SubSeq(bits, (i - 1) * WordBits + 1, i * WordBits))]
  OBVIOUS
<1>6. words \in Seq(Words)
  <2>1. words \in [1 .. c -> Words]
    BY <1>4, <1>5
  <2> QED BY <1>3, <2>1, SeqDef
<1>7. entropy_to_mnemonic(e) = IF Len(e) \notin EntropyLengths THEN Failure("WordCount") ELSE Success(words)
  BY <1>1, <1>2, <1>5, Zenon DEF entropy_to_mnemonic
<1>8. Len(e) \in EntropyLengths
  BY LifecycleAssumption
<1> QED BY <1>6, <1>7, <1>8, Results

(* What is typed is a sequence, and the words of it are taken as they are.   *)
LEMMA TypedWords ==
  ASSUME NEW words
  PROVE  /\ DOMAIN Typed(words) = DOMAIN words
         /\ words \in Seq(Words) => normalize_mnemonic(Typed(words)) = words
<1>1. PICK t : t = Typed(words)
  OBVIOUS
<1>2. DOMAIN t = DOMAIN words /\ \A i \in DOMAIN words : t[i].word = words[i]
  BY <1>1 DEF Typed
<1>3. normalize_mnemonic(t) = [i \in DOMAIN words |-> words[i]]
  BY <1>2 DEF normalize_mnemonic
<1>4. words \in Seq(Words) => words = [i \in DOMAIN words |-> words[i]]
  OBVIOUS
<1> QED BY <1>1, <1>2, <1>3, <1>4

LEMMA RetypedSized ==
  ASSUME NEW words \in Seq(Words), NEW how
  PROVE  Sized(Retyped(words, how))
<1> DEFINE n == Len(words)
           a == Typed(words)
           b == [i \in 1 .. n |-> [word |-> words[i], form |-> "upper"]]
           c == Typed([words EXCEPT ![n] = Unlisted])
           d == Typed([words EXCEPT ![n] = (words[n] + 1) % 2 ^ WordBits])
           f == Typed(Foreign)
           g == Typed(SubSeq(words, 1, n - 1))
<1>1. n \in Nat /\ DOMAIN words = 1 .. n
  OBVIOUS
<1>2. Sized(a) /\ Sized(b)
  BY <1>1, TypedWords DEF Sized
<1>3. Sized(c) /\ Sized(d)
  <2>1. \A v : DOMAIN [words EXCEPT ![n] = v] = 1 .. n
    BY <1>1
  <2> HIDE DEF n
  <2> QED BY <1>1, <2>1, TypedWords DEF Sized
<1>4. Sized(f)
  <2>1. (CHOOSE e \in Entropies : e \notin Drawn) \in Entropies
    <3>1. \E e : e \in Entropies /\ e \notin Drawn
      BY LifecycleAssumption DEF Drawn
    <3> QED BY <3>1
  <2>2. Foreign \in Seq(Words)
    BY <2>1, WordsOfEntropy DEF Foreign
  <2> QED BY <2>2, TypedWords DEF Sized
<1>5. Sized(g)
  <2>1. PICK s : s = SubSeq(words, 1, n - 1)
    OBVIOUS
  <2>2. s \in Seq(Words)
    <3>1. \A i \in 1 .. n - 1 : words[i] \in Words
      BY <1>1, ElementOfSeq
    <3> QED BY <1>1, <2>1, <3>1, SubSeqProperties
  <2>3. Sized(Typed(s))
    BY <2>2, TypedWords DEF Sized
  <2> QED BY <2>1, <2>3
<1>6. PICK S : S = {a, b, c, d, f, g}
  OBVIOUS
<1>7. Retyped(words, how) \in S
  <2>1. a \in S /\ b \in S /\ c \in S /\ d \in S /\ f \in S /\ g \in S
    BY <1>6
  <2> QED BY <2>1, Zenon DEF Retyped
<1> HIDE DEF a, b, c, d, f, g
<1> QED BY <1>2, <1>3, <1>4, <1>5, <1>6, <1>7

(* A mnemonic that was taken has words of the list. *)
LEMMA ValidWords ==
  ASSUME NEW text, Sized(text), validate_mnemonic(text).ok
  PROVE  normalize_mnemonic(text) \in Seq(Words)
<1> DEFINE words   == normalize_mnemonic(text)
           unknown == {i \in DOMAIN words : words[i] \notin Words}
           r       == validate_mnemonic(text)
<1>1. unknown = {}
  <2> SUFFICES ASSUME unknown # {} PROVE FALSE
    OBVIOUS
  <2>1. PICK S : S = {Failure("WordCount"), Failure("UnknownWord"), Failure("Checksum")}
    OBVIOUS
  <2>2. Failure("WordCount") \in S /\ Failure("UnknownWord") \in S /\ Failure("Checksum") \in S
    BY <2>1
  <2>3. \A v \in S : ~v.ok
    BY <2>1, Results
  <2>4. unknown # {} => r \in S
    <3> HIDE DEF unknown
    <3> QED BY <2>2, Zenon DEF validate_mnemonic, unknown
  <2> QED BY <2>3, <2>4
<1>2. PICK n \in Nat : DOMAIN text = 1 .. n
  BY DEF Sized
<1>3. words = [i \in 1 .. n |-> words[i]]
  BY <1>2 DEF normalize_mnemonic
<1>4. \A i \in 1 .. n : words[i] \in Words
  <2>1. DOMAIN words = 1 .. n
    BY <1>2 DEF normalize_mnemonic
  <2> HIDE DEF words
  <2> QED BY <1>1, <2>1
<1>5. words \in [1 .. n -> Words]
  <2> HIDE DEF words
  <2> QED BY <1>3, <1>4
<1> QED BY <1>5, SeqDef

(* The mnemonic a run goes by: what was drawn, or what was typed and taken.  *)
LEMMA FromText ==
  ASSUME NEW kind, NEW new \in BOOLEAN, NEW args, NEW deps, keygen(kind, new, args, deps).from.ok
  PROVE  LET text == keygen(kind, new, args, deps).from.value.text
             drawn == entropy_to_mnemonic(deps.entropy)
         IN  /\ new => drawn.ok /\ text = Typed(drawn.value)
             /\ ~new => validate_mnemonic(deps.typed).ok /\ text = deps.typed
<1> DEFINE out   == keygen(kind, new, args, deps)
           m     == Usage(try_get_matches(RunFlags(kind, new), args, <<>>))
           tty   == Require(new => require_tty_for_new(deps.tty), exit2("not-a-tty"))
           k     == Usage(keygen_config(m.value, IF new THEN 0 ELSE m.value["start-index"][1]))
           given == Success([verify_keystore |-> kind = "validator" /\ ~m.value["no-verify"][1],
                             count |-> k.value.count, start_index |-> k.value.start_index,
                             mnemonic_passphrase |-> k.value.mnemonic_passphrase])
           c     == IF m.ok THEN IF tty.ok THEN IF k.ok THEN given ELSE k ELSE tty ELSE m
           from  == IF c.ok THEN IF new THEN Fresh(c.value, deps) ELSE Recovered(c.value, deps) ELSE c
           keys_ == finish_from_mnemonic(kind, c.value, from.value.text, from.value.pass, deps)
<1>1. out = IF ~from.ok THEN NoKeys(from.err)
            ELSE [from |-> from, written |-> keys_.written, result |-> keys_.result]
  BY ONLY Zenon DEF keygen, RunFlags, Then
<1>2. c.ok /\ from.ok /\ out.from = from
  <2>1. out.from.ok
    BY Zenon
  <2>2. ~NoKeys(from.err).from.ok
    BY Results, Zenon DEF NoKeys
  <2>3. from.ok /\ out.from = from
    <3> HIDE DEF out, from, keys_
    <3> QED BY <1>1, <2>1, <2>2
  <2>4. c.ok
    <3> HIDE DEF c
    <3> QED BY <2>3
  <2> QED BY <2>3, <2>4
<1>3. PICK conf, f : conf = c.value /\ f = from
  OBVIOUS
<1>4. f.ok /\ out.from = f /\ f = IF new THEN Fresh(conf, deps) ELSE Recovered(conf, deps)
  <2> HIDE DEF c, out
  <2> QED BY <1>2, <1>3
<1> HIDE DEF out, c, from, m, tty, k, given
<1>5. CASE new
  <2> DEFINE drawn == entropy_to_mnemonic(deps.entropy)
             words == As("Bip39", drawn)
             long  == Require(\A n \in WordCounts : n <= Len(words.value), Internal)
             pass  == resolve_mnemonic_passphrase(conf, deps.asked, TRUE)
             same  == Require(mnemonics_match(words.value, deps.typed), Aborted)
             made  == Success([text |-> Typed(words.value), pass |-> pass.value])
  <2>1. f = IF words.ok THEN IF long.ok THEN IF pass.ok THEN IF same.ok THEN made ELSE same
                             ELSE pass ELSE long ELSE words
    <3>1. Fresh(conf, deps) =
            IF words.ok THEN IF long.ok THEN IF pass.ok THEN IF same.ok THEN made ELSE same
                             ELSE pass ELSE long ELSE words
      BY Zenon DEF Fresh, Then
    <3> HIDE DEF words, long, pass, same, made
    <3> QED BY <1>4, <1>5, <3>1
  <2>2. words.ok => drawn.ok /\ words.value = drawn.value
    <3> HIDE DEF drawn
    <3> QED BY Results DEF As
  <2>3. made.value.text = Typed(words.value)
    <3> HIDE DEF words, pass
    <3> QED BY Results
  <2>4. words.ok /\ f = made
    <3> HIDE DEF words, long, pass, same, made
    <3> QED BY <1>4, <2>1
  <2>5. drawn.ok /\ f.value.text = Typed(drawn.value)
    <3> HIDE DEF words, made, drawn
    <3> QED BY <2>2, <2>3, <2>4
  <2> QED BY <1>4, <1>5, <2>5 DEF out
<1>6. CASE ~new
  <2> DEFINE valid == validate_mnemonic(deps.typed)
             words == As("Bip39", valid)
             pass  == resolve_mnemonic_passphrase(conf, deps.asked, FALSE)
             made  == Success([text |-> deps.typed, pass |-> pass.value])
  <2>1. f = IF words.ok THEN IF pass.ok THEN made ELSE pass ELSE words
    <3>1. Recovered(conf, deps) = IF words.ok THEN IF pass.ok THEN made ELSE pass ELSE words
      BY Zenon DEF Recovered, Then
    <3> HIDE DEF words, pass, made
    <3> QED BY <1>4, <1>6, <3>1
  <2>2. words.ok => valid.ok
    <3> HIDE DEF valid
    <3> QED BY Results DEF As
  <2>3. made.value.text = deps.typed
    <3> HIDE DEF pass
    <3> QED BY Results
  <2>4. words.ok /\ f = made
    <3> HIDE DEF words, pass, made
    <3> QED BY <1>4, <2>1
  <2>5. valid.ok /\ f.value.text = deps.typed
    <3> HIDE DEF words, made, valid
    <3> QED BY <2>2, <2>3, <2>4
  <2> QED BY <1>4, <1>6, <2>5 DEF out
<1> QED BY <1>5, <1>6

(* Inductive: the mnemonic of every run has words of the list. *)
WordsInv ==
  \A k \in Kinds : \A h \in Hows : keys[k][h] # None => keys[k][h][1].from.words \in Seq(Words)

LEMMA WordsStep ==
  ASSUME NEW kind \in Kinds, NEW how \in Hows, NEW words, NEW x, KeysInv, WordsInv,
         Keygen(kind, how, words, x),
         how = "new" => x["entropy"] \in Entropies, how = "recover" => words \in Seq(Words)
  PROVE  WordsInv'
<1> DEFINE deps == [entropy |-> x["entropy"], typed |-> Retyped(words, x["typed"]), tty |-> x["tty"],
                    asked |-> IF "asked" \in DOMAIN x THEN x["asked"] ELSE <<>>, keystore_pw |-> x["pw"],
                    refused |-> x["refused"], damaged |-> x["damaged"], run |-> x["run"], now |-> 0]
           out == keygen(kind, how = "new", Args(x, KeyFlags), deps)
           mnemonic == normalize_mnemonic(out.from.value.text)
           run == [from |-> [words |-> mnemonic, pass |-> out.from.value.pass],
                   pw |-> x["pw"].value, start |-> StartOf(how, x), whole |-> out.result.ok,
                   checked |-> kind = "validator" /\ "no-verify" \notin DOMAIN x,
                   sound |-> x["damaged"] = 0, written |-> out.written]
<1>1. keys' = IF ~out.from.ok \/ ~x["pw"].ok THEN keys ELSE [keys EXCEPT ![kind][how] = <<run>>]
  BY DEF Keygen, StartOf
<1>2. CASE keys' = keys
  BY <1>2 DEF WordsInv
<1>3. CASE out.from.ok /\ keys' = [keys EXCEPT ![kind][how] = <<run>>]
  <2>1. deps.entropy = x["entropy"] /\ deps.typed = Retyped(words, x["typed"])
    OBVIOUS
  <2>2. mnemonic \in Seq(Words)
    <3> HIDE DEF deps
    <3>1. (how = "new") \in BOOLEAN /\ (how = "new" \/ how = "recover")
      BY DEF Hows
    <3>2. PICK text : text = out.from.value.text
      OBVIOUS
    <3>3. PICK drawn : drawn = entropy_to_mnemonic(deps.entropy)
      OBVIOUS
    <3>4. /\ how = "new" => drawn.ok /\ text = Typed(drawn.value)
          /\ how # "new" => validate_mnemonic(deps.typed).ok /\ text = deps.typed
      <4>1. PICK new, args : new \in BOOLEAN /\ (new <=> how = "new") /\ args = Args(x, KeyFlags)
        BY <3>1
      <4>2. PICK r : r = keygen(kind, new, args, deps)
        OBVIOUS
      <4>3. out = r
        BY <4>1, <4>2
      <4> HIDE DEF out
      <4>4. r.from.ok /\ text = r.from.value.text
        BY <1>3, <3>2, <4>3
      <4>5. /\ new => drawn.ok /\ text = Typed(drawn.value)
            /\ ~new => validate_mnemonic(deps.typed).ok /\ text = deps.typed
        BY <3>3, <4>1, <4>2, <4>4, FromText
      <4> QED BY <4>1, <4>5
    <3>5. CASE how = "new"
      <4>1. drawn.value \in Seq(Words)
        BY <2>1, <3>3, <3>5, WordsOfEntropy
      <4>2. text = Typed(drawn.value)
        BY <3>4, <3>5
      <4>3. normalize_mnemonic(text) \in Seq(Words)
        BY <4>1, <4>2, TypedWords
      <4> HIDE DEF out
      <4> QED BY <3>2, <4>3
    <3>6. CASE how = "recover"
      <4>1. Sized(text) /\ validate_mnemonic(text).ok
        <5> HIDE DEF out
        <5> QED BY <2>1, <3>4, <3>6, RetypedSized
      <4> HIDE DEF out
      <4> QED BY <3>2, <4>1, ValidWords
    <3> QED BY <3>1, <3>5, <3>6
  <2>3. run.from.words = mnemonic
    <3> HIDE DEF mnemonic, out
    <3> QED OBVIOUS
  <2> HIDE DEF run, mnemonic
  <2>4. <<run>>[1] = run
    OBVIOUS
  <2> QED BY <1>3, <2>2, <2>3, <2>4 DEF KeysInv, WordsInv
<1> QED
  <2> HIDE DEF out, run
  <2> QED BY <1>1, <1>2, <1>3

(* Every mnemonic of the system has words of the list: what is shown to the  *)
(* operator, and what a recovery took from the paper.                        *)
THEOREM MnemonicsListed == Spec => []WordsInv
<1>1. Init => WordsInv
  BY DEF Init, WordsInv, None
<1>2. KeysInv /\ WordsInv /\ [Next]_vars => WordsInv'
  <2> SUFFICES ASSUME KeysInv, WordsInv, [Next]_vars PROVE WordsInv'
    OBVIOUS
  <2>1. CASE UNCHANGED keys
    BY <2>1 DEF WordsInv
  <2>2. ASSUME NEW k \in Kinds, KeygenNew(k)
        PROVE  WordsInv'
    <3> DEFINE g == "entropy" := (CHOOSE e \in Drawn : TRUE)
    <3>1. PICK wish \in Wishes, o \in {<<>>} \cup KeygenOthers(Drawn) :
            \E words : Keygen(k, "new", words, o ++ (wish ++ (KeygenUsual("new") ++ g)))
      BY <2>2, NewRun, Zenon
    <3>2. PICK x : x = o ++ (wish ++ (KeygenUsual("new") ++ g))
      OBVIOUS
    <3>3. Fresher(g) /\ "entropy" \in DOMAIN g
      BY DrawnThere, FresherInputs, Given
    <3>4. Fresher(o) /\ Fresher(wish) /\ Fresher(KeygenUsual("new"))
      BY KeygenMild
    <3> HIDE DEF g
    <3>5. Fresher(x) /\ "entropy" \in DOMAIN x
      BY <3>2, <3>3, <3>4, FresherInputs, Given
    <3>6. x["entropy"] \in Entropies
      BY <3>5 DEF Fresher, Drawn
    <3> QED BY <3>1, <3>2, <3>6, WordsStep DEF Hows
  <2>3. ASSUME NEW k \in Kinds, KeygenRecover(k)
        PROVE  WordsInv'
    <3>1. PICK x : Keygen(k, "recover", Paper(k).words, x)
      BY <2>3, RecoverRun
    <3>2. Paper(k).words \in Seq(Words)
      BY <2>3 DEF KeygenRecover, Paper, WordsInv, Hows
    <3> QED BY <3>1, <3>2, WordsStep DEF Hows
  <2> QED BY <2>1, <2>2, <2>3, KeysKept DEF vars
<1> QED BY <1>1, <1>2, KeysWell, PTL DEF Spec

-----------------------------------------------------------------------------
(* Types. *)

(* The artifacts, the chain and the slips. *)
ArtifactsInv ==
  /\ {Len(deposit), Len(unsigned), Len(signed), Len(pool), Len(verdict)} \subseteq {0, 1}
  /\ chain.moved \in BOOLEAN /\ {chain.base, chain.gas} \subseteq Nat
  /\ slips \in 0 .. MaxSlips

(* One more of what is out of the ordinary, or not. *)
SlipOnce == slips' = slips \/ (slips < MaxSlips /\ slips' = slips + 1)

(* What a command or an edit does to the artifacts.                          *)
LEMMA ArtifactsStep ==
  ASSUME ArtifactsInv, Next
  PROVE  ArtifactsInv'
<1>1. MaxSlips \in Nat
  BY LifecycleAssumption
<1>2. SlipOnce => slips' \in 0 .. MaxSlips
  BY <1>1 DEF SlipOnce, ArtifactsInv
<1>3. \A a : Len(<<a>>) = 1
  OBVIOUS
<1>4. ASSUME NEW k \in Kinds, KeygenNew(k) \/ KeygenRecover(k)
      PROVE  ArtifactsInv'
  <2>1. UNCHANGED <<deposit, unsigned, signed, pool, verdict, chain>>
    <3>1. \A how, words, x : Keygen(k, how, words, x) => UNCHANGED <<deposit, unsigned, signed, pool, verdict, chain>>
      BY DEF Keygen
    <3> QED BY <1>4, <3>1 DEF KeygenNew, KeygenRecover, With
  <2>2. SlipOnce
    <3>1. CASE KeygenNew(k)
      BY <3>1, NewRun DEF SlipOnce
    <3>2. CASE KeygenRecover(k)
      BY <3>2, RecoverRun DEF SlipOnce
    <3> QED BY <1>4, <3>1, <3>2
  <2> QED BY <1>2, <2>1, <2>2 DEF ArtifactsInv
<1>5. CASE DepositGen
  <2>1. UNCHANGED <<unsigned, signed, pool, verdict, chain>> /\ SlipOnce
    BY <1>5 DEF DepositGen, With, SlipOnce
  <2>2. deposit' = deposit \/ \E a : deposit' = <<a>>
    BY <1>5 DEF DepositGen, With
  <2> QED BY <1>2, <1>3, <2>1, <2>2 DEF ArtifactsInv
<1>6. CASE DepositBuild
  <2>1. UNCHANGED <<deposit, signed, pool, verdict, chain>> /\ SlipOnce
    BY <1>6 DEF DepositBuild, With, SlipOnce
  <2>2. unsigned' = unsigned \/ \E a : unsigned' = <<a>>
    BY <1>6 DEF DepositBuild, With
  <2> QED BY <1>2, <1>3, <2>1, <2>2 DEF ArtifactsInv
<1>7. CASE TxSign
  <2>1. UNCHANGED <<deposit, unsigned, pool, verdict, chain>> /\ SlipOnce
    BY <1>7, Zenon DEF TxSign, With, SlipOnce
  <2>2. signed' = signed \/ \E a : signed' = <<a>>
    BY <1>7 DEF TxSign, With
  <2> QED BY <1>2, <1>3, <2>1, <2>2 DEF ArtifactsInv
<1>8. CASE TxRun
  <2>1. UNCHANGED <<deposit, unsigned, pool, verdict, chain>> /\ SlipOnce
    BY <1>8 DEF TxRun, With, SlipOnce
  <2>2. signed' = signed \/ \E a : signed' = <<a>>
    BY <1>8 DEF TxRun, With
  <2> QED BY <1>2, <1>3, <2>1, <2>2 DEF ArtifactsInv
<1>9. CASE TxSend
  <2>1. UNCHANGED <<deposit, unsigned, signed, verdict, chain>> /\ SlipOnce
    BY <1>9 DEF TxSend, With, SlipOnce
  <2>2. pool' = pool \/ \E a : pool' = <<a>>
    BY <1>9 DEF TxSend, With
  <2> QED BY <1>2, <1>3, <2>1, <2>2 DEF ArtifactsInv
<1>10. CASE Edit
  <2>1. UNCHANGED <<pool, verdict, chain>> /\ SlipOnce
    BY <1>10 DEF Edit, EditDeposit, EditUnsigned, EditSigned, EditKeystore, SlipOnce
  <2>2. /\ deposit' = deposit \/ \E a : deposit' = <<a>>
        /\ unsigned' = unsigned \/ \E a : unsigned' = <<a>>
        /\ signed' = signed \/ \E a : signed' = <<a>>
    BY <1>10 DEF Edit, EditDeposit, EditUnsigned, EditSigned, EditKeystore
  <2> QED BY <1>2, <1>3, <2>1, <2>2 DEF ArtifactsInv
<1>11. CASE Drift
  <2>1. PICK b \in {chain.base, 2 * chain.base} : chain' = [base |-> b, gas |-> (chain.gas * 6) \div 5, moved |-> TRUE]
    BY <1>11 DEF Drift
  <2>2. b \in Nat /\ (chain.gas * 6) \div 5 \in Nat
    BY <2>1 DEF ArtifactsInv
  <2>3. chain'.moved = TRUE /\ {chain'.base, chain'.gas} \subseteq Nat
    BY <2>1, <2>2
  <2> QED BY <1>11, <2>3 DEF Drift, ArtifactsInv
<1>12. CASE Mine
  <2>1. \E a : verdict' = <<a>>
    BY <1>12 DEF Mine
  <2> QED BY <1>3, <1>12, <2>1 DEF Mine, ArtifactsInv
<1> QED BY <1>4, <1>5, <1>6, <1>7, <1>8, <1>9, <1>10, <1>11, <1>12 DEF Next

(* The documented exit codes are among 0 to 5. *)
LEMMA ExitRange ==
  ASSUME DocumentedExit
  PROVE  last.exit \in 0 .. 5
<1>1. PICK S : S = {0, 1, 2, 3, 4, 5}
  OBVIOUS
<1>2. 0 \in S /\ 1 \in S /\ 2 \in S /\ 3 \in S /\ 4 \in S /\ 5 \in S
  BY <1>1
<1>3. Documented(last.cause) \in S
  BY <1>2, Zenon DEF Documented
<1>4. last.exit \in S
  BY <1>2, <1>3 DEF DocumentedExit
<1> QED BY <1>1, <1>4

(* What was made is of its kind, no index of a key is beyond u32, a mnemonic *)
(* has words of the list, and the program ends with a documented exit code.  *)
THEOREM TypesHold == Spec => []TypeOK
<1>1. Init => ArtifactsInv
  <2>1. MaxSlips \in Nat /\ BaseFee \in Nat /\ GasNeeded \in Nat
    BY LifecycleAssumption
  <2> QED BY <2>1 DEF Init, None, ArtifactsInv
<1>2. ArtifactsInv /\ [Next]_vars => ArtifactsInv'
  <2>1. ArtifactsInv /\ UNCHANGED vars => ArtifactsInv'
    BY DEF ArtifactsInv, vars
  <2> QED BY <2>1, ArtifactsStep
<1>3. ArtifactsInv /\ ShapeInv /\ WordsInv /\ DocumentedExit => TypeOK
  <2> SUFFICES ASSUME ArtifactsInv, ShapeInv, WordsInv, DocumentedExit PROVE TypeOK
    OBVIOUS
  <2>1. ASSUME NEW k \in Kinds, NEW h \in Hows, keys[k][h] # None
        PROVE  /\ keys[k][h][1].from.words \in Seq(Words)
               /\ keys[k][h][1].start + Len(keys[k][h][1].written) <= U32
               /\ \A i \in DOMAIN keys[k][h][1].written :
                    keys[k][h][1].written[i].body.version = IF k = "validator" THEN 4 ELSE 3
    <3>1. PICK run : run = keys[k][h][1]
      OBVIOUS
    <3>2. RunShape(k, run) /\ run.from.words \in Seq(Words)
      BY <2>1, <3>1 DEF ShapeInv, WordsInv
    <3>3. PICK n \in Nat : /\ run.written = [i \in 1 .. n |-> run.written[i]] /\ run.start + n <= U32
                           /\ \A i \in 1 .. n : run.written[i].body.version = IF k = "validator" THEN 4 ELSE 3
      BY <3>2 DEF RunShape
    <3>4. PICK w : w = run.written
      OBVIOUS
    <3>5. DOMAIN w = 1 .. n /\ Len(w) = n
      <4>1. w = [i \in 1 .. n |-> w[i]]
        BY <3>3, <3>4
      <4> QED BY <4>1
    <3> QED BY <3>1, <3>2, <3>3, <3>4, <3>5
  <2>2. last.exit \in 0 .. 5
    BY ExitRange
  <2> QED BY <2>1, <2>2 DEF TypeOK, ArtifactsInv
<1>4. Spec => []ArtifactsInv
  BY <1>1, <1>2, PTL DEF Spec
<1> QED BY <1>3, <1>4, KeysShaped, MnemonicsListed, ExitsDocumented, PTL
=============================================================================
