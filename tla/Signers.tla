------------------------------- MODULE Signers -------------------------------
(* The signers of tx sign and tx run, and the node that judges what they    *)
(* made.  An ECDSA signature is the term of its key and of what it is over; *)
(* s or its negation makes it valid, with the one parity of y or the other, *)
(* and one of the two is the low one.                                        *)
EXTENDS TxData

CONSTANTS
  OddY(_, _),     \* parity of the nonce point, for a key and what it signs
  SIsHigh(_, _),  \* whether the s that comes out is the high one
  ShortR(_, _)    \* whether r begins with a zero byte

-----------------------------------------------------------------------------
(* A key file's text and what it makes. *)

HexKey(k) == [chars |-> 64, hex |-> TRUE, scalar |-> TRUE, key |-> k]
Stranger  == [none |-> "an-account"]

new_local_signer_from_hex(text) ==
  CASE text.chars # 64 -> Failure("InvalidKey")
    [] text.chars = 64 /\ ~text.hex -> Failure("InvalidKey")
    [] text.chars = 64 /\ text.hex /\ ~text.scalar -> Failure("InvalidKey")
    [] OTHER -> Success(text.key)

(* Only the path is in an error; one that has the form of a key is not      *)
(* shown at all.                                                             *)
new_local_signer_from_file(file) ==
  CASE ~file.read.ok /\ file.read.err = "NotFound" /\ file.pathIsKey -> Failure("KeyGivenAsPath")
    [] ~file.read.ok /\ ~(file.read.err = "NotFound" /\ file.pathIsKey) -> Failure("KeyFile")
    [] OTHER -> new_local_signer_from_hex(file.read.value)

pubkey_address(key) == [address |-> key]
secret_to_address(key) == pubkey_address(key)

-----------------------------------------------------------------------------
(* Signatures. *)

keccak256(b) == [keccak |-> b]
Sig(key, hash, neg) == [key |-> key, over |-> hash, neg |-> neg]
IsHigh(sig) == SIsHigh(sig.key, sig.over) <=> ~sig.neg

normalize_low_s(sig, odd) ==
  IF IsHigh(sig) THEN [sig |-> [sig EXCEPT !.neg = ~@], v |-> ~odd] ELSE [sig |-> sig, v |-> odd]

recover_address(hash, sig, v) ==
  IF hash = sig.over /\ v = (OddY(sig.key, sig.over) # sig.neg) THEN pubkey_address(sig.key)
  ELSE Stranger

Scalars(sig) ==
  [r |-> IF ShortR(sig.key, sig.over) THEN <<Byte(0), Blob([r |-> sig], 31)>> ELSE <<Blob([r |-> sig], 32)>>,
   s |-> <<Blob([s |-> sig], 32)>>]

(* Nothing of the device is between the signature and the JSON: the hash is *)
(* that of the envelope, and the sender the recovered one.                   *)
build_signed_tx(unsigned, from, envelope, sig, v) ==
  [unsigned |-> unsigned, from |-> from, hash |-> keccak256(envelope),
   sig |-> sig, v |-> v, rawRLP |-> Quantity(envelope)]

Envelope(p, u, sig, v) ==
  eip1559_envelope(p, u.nonce, u.gas, IF v THEN 1 ELSE 0, Scalars(sig).r, Scalars(sig).s)

(* LocalSigner::sign_with_cancel. *)
SigHash(p, u) == keccak256(eip1559_signing_payload(p, u.nonce, u.gas))
SignedTx(u, p, from, low) ==
  Success(build_signed_tx(u, from, Envelope(p, u, low.sig, low.v), low.sig, low.v))

sign_local(unsigned, key) ==
  LET Low(p, hash, low) ==
        IF recover_address(hash, low.sig, low.v) # pubkey_address(key) THEN Failure("Msg")
        ELSE SignedTx(unsigned, p, pubkey_address(key), low)
      Over(p, hash) == Low(p, hash, normalize_low_s(Sig(key, hash, FALSE), OddY(key, hash)))
      Read(p) == IF p.ok THEN Over(p.value, SigHash(p.value, unsigned)) ELSE p
  IN  Read(parse_unsigned_tx(unsigned))

-----------------------------------------------------------------------------
(* ledger.rs.  An error of the transport is the set of words in it.         *)

is_app_not_open_err(words) ==
  \/ words \cap {"6e00", "6e01", "6d00"} # {}
  \/ "app" \in words /\ words \cap {"not-open", "open-the"} # {}
is_user_rejected_err(words) == words \cap {"rejected", "denied", "cancel", "6985"} # {}
is_chain_id_mismatch_err(words) ==
  "chain" \in words /\ words \cap {"unknown", "mismatch", "6a80", "6a81"} # {}

(* LedgerSigner::new: the first wallet, opened, asked for its status, and   *)
(* for an address, which is not kept.  A step that fails says why.          *)
NoDeviceUnlessApp(words) == IF is_app_not_open_err(words) THEN Failure("AppNotOpen") ELSE Failure("NoDevice")

new_ledger_signer(device) ==
  CASE ~device.supported -> Failure("LedgerNotSupported")
    [] device.supported /\ ~device.present -> Failure("NoDevice")
    [] device.supported /\ device.present /\ ~device.open.ok -> NoDeviceUnlessApp(device.open.err)
    [] OTHER -> IF ~device.status.ok THEN NoDeviceUnlessApp(device.status.err)
                ELSE IF ~device.derive.ok THEN Failure("Msg") ELSE Success("wallet")

LedgerError(words) ==
  CASE is_chain_id_mismatch_err(words) -> Failure("ChainIdMismatch")
    [] ~is_chain_id_mismatch_err(words) /\ is_user_rejected_err(words) -> Failure("UserRejected")
    [] OTHER -> Failure("Msg")

(* LedgerSigner::sign_with_cancel: what the device signed is recovered, and *)
(* no address is compared.                                                   *)
sign_ledger(unsigned, device) ==
  LET Over(p, key, hash) ==
        LET sig == Sig(key, hash, SIsHigh(key, hash))
            v   == OddY(key, hash) # sig.neg
        IN  SignedTx(unsigned, p, recover_address(hash, sig, v), [sig |-> sig, v |-> v])
      Asked(p) ==
        CASE ~p.ok -> p
          [] p.ok /\ ~device.sign.ok -> LedgerError(device.sign.err)
          [] OTHER -> Over(p.value, device.sign.value, SigHash(p.value, unsigned))
  IN  Asked(parse_unsigned_tx(unsigned))

-----------------------------------------------------------------------------
(* The other side: a node decodes what it is sent, and the deposit contract *)
(* its call.                                                                 *)

Uint(b) ==
  LET uint[n \in 0 .. Len(b)] == IF n = 0 THEN 0 ELSE 256 * uint[n - 1] + b[n].byte
  IN  uint[Len(b)]

(* One item of RLP: what it holds, and what comes after it. *)
Cut(b, n) ==
  LET at == {i \in 0 .. Len(b) : Length(SubSeq(b, 1, i)) = n}
  IN  IF at = {} THEN Failure("cut") ELSE Success(CHOOSE i \in at : \A j \in at : j <= i)

Item(b) ==
  LET h == b[1].byte
      long == IF h < 192 THEN h - 183 ELSE h - 247
      size == IF long > 0 /\ h \notin 128 .. 183 /\ h \notin 192 .. 247
              THEN Uint(SubSeq(b, 2, 1 + long))
              ELSE IF h >= 192 THEN h - 192 ELSE h - 128
      head == IF h \in 184 .. 191 \/ h > 247 THEN 1 + long ELSE 1
      rest == SubSeq(b, head + 1, Len(b))
      cut  == Cut(rest, size)
  IN  CASE "byte" \notin DOMAIN b[1] -> Failure("cut")
        [] OTHER -> IF h < 128 THEN Success([value |-> <<b[1]>>, rest |-> Tail(b)])
                    ELSE IF ~cut.ok THEN cut
                    ELSE Success([value |-> SubSeq(rest, 1, cut.value),
                                  rest |-> SubSeq(rest, cut.value + 1, Len(rest))])

(* The twelve fields of a signed transaction, or nothing. *)
Fields(raw) ==
  LET list == Item(Tail(raw))
      After(acc) ==
        IF ~acc.ok \/ acc.value.rest = <<>> THEN Failure("fields")
        ELSE LET it == Item(acc.value.rest)
             IN  IF ~it.ok THEN it
                 ELSE Success([rest |-> it.value.rest, items |-> Append(acc.value.items, it.value.value)])
      read[n \in 0 .. 12] ==
        IF n = 0 THEN Success([rest |-> list.value.value, items |-> <<>>]) ELSE After(read[n - 1])
  IN  IF raw[1] # Byte(2) \/ ~list.ok \/ list.value.rest # <<>> THEN Failure("envelope")
      ELSE IF read[12].ok /\ read[12].value.rest = <<>> THEN Success(read[12].value.items)
      ELSE Failure("fields")

(* The deposit a call makes, by its offsets. *)
BytesAt(args, head) ==
  LET at == From(args, args[head].uint)
  IN  IF at # <<>> /\ "uint" \in DOMAIN at[1] /\ Len(at) > 1 /\ at[2].len = at[1].uint
      THEN Success(at[2].blob) ELSE Failure("abi")

Call(data) ==
  LET args == Tail(data)
      pk == BytesAt(args, 1)  wc == BytesAt(args, 2)  sg == BytesAt(args, 3)
  IN  IF data = <<>> \/ ~pk.ok \/ ~wc.ok \/ ~sg.ok THEN Failure("abi")
      ELSE Success([pubkey |-> pk.value, withdrawal_credentials |-> wc.value,
                    signature |-> sg.value, deposit_data_root |-> args[4].blob])
=============================================================================
