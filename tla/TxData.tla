------------------------------- MODULE TxData -------------------------------
(* The bytes of a deposit transaction: the fields the builder fills in, the *)
(* call of the deposit contract, what a signer reads of the JSON it is      *)
(* given, and the RLP it signs and sends.  Bytes are pieces of known length *)
(* (a number below 256, or a value of so many bytes), so that a wrong       *)
(* offset, header or length shows in what is decoded from them.              *)
EXTENDS DepositData, Integers

CONSTANTS
  AddressLen,   \* 20
  FeeModulus,   \* 2^128: fees are u128
  GasModulus    \* 2^64: gas is u64

ASSUME TxDataAssumption == {AddressLen, FeeModulus, GasModulus} \subseteq Nat \ {0}

Unset == -1

-----------------------------------------------------------------------------
(* validation.rs and builder.rs. *)

ValidEntry(e) ==
  /\ e.amount = Amount /\ Zero \notin {e.pubkey, e.signature, e.deposit_data_root}
  /\ \/ e.withdrawal_credentials.prefix = "00"
     \/ e.withdrawal_credentials.prefix \in {"01", "02"} /\ "gap" \notin DOMAIN e.withdrawal_credentials

Resolved(gas, fee, tip, nonce) == [gas |-> gas, max_fee |-> fee, tip |-> tip, nonce |-> nonce]

resolve_static(c) ==
  IF Unset \in {c.max_fee, c.tip, c.nonce} \/ c.gas = 0 THEN Failure("MissingStatic")
  ELSE Success(Resolved(c.gas, c.max_fee, c.tip, c.nonce))

(* FAULTY: the margin is left out. *)
gas_limit_bare(estimate) == estimate

(* The sums wrap: a release build does not check them. *)
gas_limit(estimate) == ((estimate * 6) % GasModulus) \div 5
max_fee(base, tip)  == (2 * base + tip) % FeeModulus

(* A field that is given wins; the others are asked for in this order, and  *)
(* the first that fails ends it.  A chain ID that cannot be had, or is zero,*)
(* is let pass.                                                              *)
NoSender == [none |-> "a-sender"]
resolve_rpc(c, node) ==
  LET Asked(v, answer) == IF v # Unset THEN Success(v) ELSE answer
      chain == node.chain_id
      tip   == Asked(c.tip, node.tip)
      base  == IF c.max_fee # Unset THEN Success(0) ELSE node.base_fee
      nonce == Asked(c.nonce, IF c.from = NoSender THEN Failure("MissingFromForNonce") ELSE node.nonce)
      gas   == IF c.gas # 0 THEN Success(0) ELSE node.estimate
      asked == <<tip, base, nonce, gas>>
      bad   == {i \in DOMAIN asked : ~asked[i].ok}
  IN  CASE chain.ok /\ chain.value # 0 /\ chain.value # c.params.chain_id -> Failure("ChainIdMismatch")
        [] bad # {} -> asked[Min(bad)]
        [] OTHER -> Success(Resolved(IF c.gas # 0 THEN c.gas ELSE gas_limit(gas.value),
                                     IF c.max_fee # Unset THEN c.max_fee
                                     ELSE max_fee(base.value, tip.value),
                                     tip.value, nonce.value))

resolve_fields(c, node) == IF c.rpc THEN resolve_rpc(c, node) ELSE resolve_static(c)

-----------------------------------------------------------------------------
(* Pieces of bytes. *)

Byte(n)    == [len |-> 1, byte |-> n]
Blob(x, n) == [len |-> n, blob |-> x]
Length(b) ==
  LET length[n \in 0 .. Len(b)] == IF n = 0 THEN 0 ELSE length[n - 1] + b[n].len
  IN  length[Len(b)]

(* What begins at an offset: the pieces there, or nothing if the offset is  *)
(* inside a piece.                                                           *)
From(b, offset) ==
  LET at == {i \in 1 .. Len(b) + 1 : Length(SubSeq(b, 1, i - 1)) = offset}
  IN  IF at = {} THEN <<>> ELSE SubSeq(b, CHOOSE i \in at : \A j \in at : i <= j, Len(b))

-----------------------------------------------------------------------------
(* abi.rs. *)

DEPOSIT_SELECTOR == Blob("22895118", 4)
put_uint256(n) == [len |-> 32, uint |-> n]
Padding(n) == Blob("pad", n)

(* FAULTY: the offset of the credentials forgets the padding of the key.    *)
pack_deposit_unpadded(e) ==
  <<DEPOSIT_SELECTOR, put_uint256(128), put_uint256(208), put_uint256(288),
    Blob(e.deposit_data_root, 32),
    put_uint256(48), Blob(e.pubkey, 48), Padding(16),
    put_uint256(32), Blob(e.withdrawal_credentials, 32),
    put_uint256(96), Blob(e.signature, 96)>>

pack_deposit(e) ==
  <<DEPOSIT_SELECTOR, put_uint256(128), put_uint256(224), put_uint256(288),
    Blob(e.deposit_data_root, 32),
    put_uint256(48), Blob(e.pubkey, 48), Padding(16),
    put_uint256(32), Blob(e.withdrawal_credentials, 32),
    put_uint256(96), Blob(e.signature, 96)>>

-----------------------------------------------------------------------------
(* types.rs: a field of a transaction in JSON is text.  An address is pairs *)
(* of hex digits, counted from the right.                                    *)

Quantity(v) == [text |-> "hex", value |-> v]
BadText     == [text |-> "bad"]
NoText      == [text |-> "empty"]
ZeroPair    == <<"00", 0>>
BadPair     == <<"??", 0>>
Address(a)  == [i \in 1 .. AddressLen |-> <<a, i>>]

build_unsigned(entry, c, node) ==
  LET r == resolve_fields(c, node)
  IN  CASE ~ValidEntry(entry) -> Failure("InvalidEntry")
        [] ValidEntry(entry) /\ ~r.ok -> r
        [] OTHER -> Success(
             [chain_id |-> c.params.chain_id, to |-> Address(c.params.deposit_contract_address),
              value |-> Quantity(32), data |-> Quantity(pack_deposit(entry)),
              gas |-> r.value.gas, maxFeePerGas |-> Quantity(r.value.max_fee),
              maxPriorityFeePerGas |-> Quantity(r.value.tip), nonce |-> r.value.nonce])

-----------------------------------------------------------------------------
(* parse.rs. *)

(* Pairs are read up to the first that is no hex; the bytes are cut off on  *)
(* the left, or filled up with zeros there.                                  *)
hex_to_address(pairs) ==
  LET stop  == {i \in DOMAIN pairs : pairs[i] = BadPair}
      good  == IF stop = {} THEN pairs
               ELSE SubSeq(pairs, 1, (CHOOSE i \in stop : \A j \in stop : i <= j) - 1)
      all   == [i \in 1 .. AddressLen |-> ZeroPair] \o good
  IN  SubSeq(all, Len(good) + 1, Len(all))

parse_unsigned_tx(u) ==
  CASE u.chain_id = 0 -> Failure("InvalidChainId")
    [] \E q \in {u.value, u.maxFeePerGas, u.maxPriorityFeePerGas} : q.text # "hex" -> Failure("Msg")
    [] u.data.text = "bad" -> Failure("Msg")
    [] OTHER -> Success([chain_id |-> u.chain_id, value |-> u.value.value,
                         max_fee |-> u.maxFeePerGas.value, tip |-> u.maxPriorityFeePerGas.value,
                         to |-> hex_to_address(u.to),
                         data |-> IF u.data.text = "empty" THEN <<>> ELSE u.data.value])

-----------------------------------------------------------------------------
(* rlp.rs. *)

(* Big endian without leading zeros: zero has no bytes. *)
uint_be(v) ==
  LET bytes[n \in 0 .. v] == IF n = 0 THEN <<>> ELSE Append(bytes[n \div 256], Byte(n % 256))
  IN  bytes[v]

trim_leading_zeros(b) ==
  LET kept == {i \in DOMAIN b : \E j \in 1 .. i : b[j] # Byte(0)}
  IN  SubSeq(b, Len(b) - Cardinality(kept) + 1, Len(b))

header(short, long, len) ==
  IF len <= 55 THEN <<Byte(short + len)>>
  ELSE <<Byte(long + Len(uint_be(len)))>> \o uint_be(len)

encode_str(b) ==
  IF Length(b) = 1 /\ b[1] \in {Byte(n) : n \in 0 .. 127} THEN b
  ELSE header(128, 183, Length(b)) \o b
encode_list(payload) == header(192, 247, Length(payload)) \o payload

base_fields(p, nonce, gas) ==
  FlattenSeq(<<encode_str(uint_be(p.chain_id)), encode_str(uint_be(nonce)),
               encode_str(uint_be(p.tip)), encode_str(uint_be(p.max_fee)),
               encode_str(uint_be(gas)), encode_str(<<Blob(p.to, 20)>>),
               encode_str(uint_be(p.value)), encode_str(p.data), encode_list(<<>>)>>)

eip1559_signing_payload(p, nonce, gas) == <<Byte(2)>> \o encode_list(base_fields(p, nonce, gas))

eip1559_envelope(p, nonce, gas, y_parity, r, s) ==
  <<Byte(2)>> \o encode_list(base_fields(p, nonce, gas) \o encode_str(uint_be(y_parity))
                             \o encode_str(trim_leading_zeros(r)) \o encode_str(trim_leading_zeros(s)))
=============================================================================
