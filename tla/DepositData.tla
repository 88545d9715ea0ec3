----------------------------- MODULE DepositData -----------------------------
(* Networks, SSZ roots, and deposit entries: how an entry is made and       *)
(* signed, written as JSON, and read back by deposit build.  A hash is the  *)
(* pair of what is hashed.  The field of a JSON entry is a value, or what   *)
(* keeps it from being one.                                                  *)
EXTENDS KeyPaths, FiniteSets

CONSTANT Amount              \* 32 ETH in Gwei

-----------------------------------------------------------------------------
(* network.rs.  Two networks have one contract address. *)

ALL == <<"mainnet", "hoodi", "sepolia", "holesky">>

Params(name, version, chain_id, contract) ==
  [name |-> name, genesis_fork_version |-> [fork |-> version],
   chain_id |-> chain_id, deposit_contract_address |-> contract]

lookup_network ==
  [mainnet |-> Params("mainnet", "00000000", 1, "219ab540"),
   hoodi   |-> Params("hoodi",   "10000910", 560048, "219ab540"),
   sepolia |-> Params("sepolia", "90000069", 11155111, "7f02c3e3"),
   holesky |-> Params("holesky", "01017000", 17000, "42424242")]

(* Names are taken as they are written: no other case, no white space.      *)
lookup_name(name) ==
  IF name \in ToSet(ALL) THEN Success(lookup_network[name]) ELSE Failure("UnknownNetwork")
parse_flag(name) ==
  IF name \in ToSet(ALL) THEN Success(name) ELSE Failure("UnsupportedNetwork")

lookup_by_chain_id(id) ==
  LET of == SelectSeq(ALL, LAMBDA n : lookup_network[n].chain_id = id)
  IN  IF of = <<>> THEN Failure("UnknownChainId") ELSE Success(lookup_network[of[1]])

-----------------------------------------------------------------------------
(* ssz.rs. *)

ZeroChunk == [zero |-> 32]
sha256_pair(a, b) == [left |-> a, right |-> b]

(* The leaves are filled up to a power of two with zero chunks, and hashed  *)
(* in pairs, level by level, until one is left.  Bound: a deposit has       *)
(* nothing of more than four leaves.                                         *)
Sizes    == {1, 2, 4}
Level(s) == IF Len(s) = 1 THEN s
            ELSE [i \in 1 .. Len(s) \div 2 |-> sha256_pair(s[2 * i - 1], s[2 * i])]

(* FAULTY: an odd leaf is carried up as it is. *)
merkleize_carried(chunks, limit) ==
  LET Up(s) == IF Len(s) = 3 THEN Append(Level(s), s[3]) ELSE Level(s)
  IN  Up(Up(chunks))[1]

merkleize(chunks, limit) ==
  LET n      == IF limit > Len(chunks) THEN limit ELSE Len(chunks)
      size   == CHOOSE p \in Sizes : p >= n /\ p < 2 * n
      padded == [i \in 1 .. size |-> IF i <= Len(chunks) THEN chunks[i] ELSE ZeroChunk]
  IN  Level(Level(padded))[1]

byte_vector_root(value, length) ==
  LET n == (length + 31) \div 32
  IN  merkleize([i \in 1 .. n |-> [chunk |-> i, of |-> value]], n)
uint64_chunk(v) == [le |-> v]

DepositMessageRoot(e) ==
  merkleize(<<byte_vector_root(e.pubkey, 48), e.withdrawal_credentials, uint64_chunk(e.amount)>>, 3)

DepositDataRoot(e) ==
  merkleize(<<byte_vector_root(e.pubkey, 48), e.withdrawal_credentials,
              uint64_chunk(e.amount), byte_vector_root(e.signature, 96)>>, 4)

DOMAIN_DEPOSIT == "03000000"
compute_domain(type, version) ==
  [type |-> type, first28 |-> merkleize(<<[chunk |-> 1, of |-> version], ZeroChunk>>, 2)]
compute_signing_root(root, domain) == merkleize(<<root, domain>>, 2)

-----------------------------------------------------------------------------
(* deposit.rs: the write side. *)

eth1_withdrawal_credentials(addr) == [prefix |-> "01", address |-> addr]

Generate(sk, pubkey, network, wc) ==
  LET p    == lookup_network[network]
      msg  == [pubkey |-> pubkey, withdrawal_credentials |-> wc, amount |-> Amount]
      root == compute_signing_root(DepositMessageRoot(msg),
                                   compute_domain(DOMAIN_DEPOSIT, p.genesis_fork_version))
      sig  == Signature(sk, root)
  IN  CASE PublicKey(sk) # pubkey -> Failure("PubkeyMismatch")
        [] verify(pubkey, root, sig) # Success(TRUE) -> Failure("SelfVerifyFailed")
        [] OTHER -> Success(
             [pubkey |-> pubkey, withdrawal_credentials |-> wc, amount |-> Amount, signature |-> sig,
              deposit_message_root |-> DepositMessageRoot(msg),
              deposit_data_root |->
                DepositDataRoot([pubkey |-> pubkey, withdrawal_credentials |-> wc, amount |-> Amount,
                                 signature |-> sig]),
              fork_version |-> p.genesis_fork_version, network_name |-> p.name])

-----------------------------------------------------------------------------
(* deposit.rs: the read side. *)

NotHex  == [hex |-> "bad"]
Short   == [hex |-> "of-another-length"]
Zero    == [hex |-> "zeros"]
HexFields == <<"pubkey", "withdrawal_credentials", "signature",
               "deposit_message_root", "deposit_data_root", "fork_version">>

(* The fields are decoded in this order; one that is absent is empty, and   *)
(* so of the wrong length.                                                   *)
entry_from_raw(raw) ==
  LET bad == SelectSeq(HexFields, LAMBDA f : raw[f] \in {NotHex, Short})
  IN  CASE bad = <<>> -> Success(raw)
        [] OTHER -> Failure(IF raw[bad[1]] = NotHex THEN "InvalidHex" ELSE "BadLength")

entries_from_json(file) ==
  LET read == [i \in DOMAIN file.entries |-> entry_from_raw(file.entries[i])]
      bad  == {i \in DOMAIN read : ~read[i].ok}
  IN  CASE ~file.json -> Failure("UnmarshalEntries")
        [] file.json /\ bad # {} -> Failure("EntryAt")
        [] OTHER -> Success([i \in DOMAIN read |-> read[i].value])

(* What is asked of an entry is that it is not empty; neither its roots nor *)
(* its signature are looked at again, nor which network it is for.          *)
validate(e) ==
  /\ Zero \notin {e.pubkey, e.signature, e.deposit_data_root}
  /\ e.amount # 0 /\ lookup_name(e.network_name).ok
=============================================================================
