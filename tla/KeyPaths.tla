------------------------------ MODULE KeyPaths ------------------------------
(* Hierarchical keys.  Validators: EIP-2333 over the EIP-2334 paths, where  *)
(* every step is total.  Accounts: BIP-32 over the BIP-44 path, where the   *)
(* last level is not hardened and a step may have no key.  HMAC is a        *)
(* parameter; what the code does with what it returns is here.  A BLS       *)
(* secret is the term that derives it.                                       *)
EXTENDS Mnemonic

CONSTANTS
  HARDENED,        \* 2^31 in the code: the first hardened index
  Order,           \* n, the order of secp256k1
  MasterHalves(_), \* I_L and I_R of HMAC-SHA512("Bitcoin seed", seed)
  ChildHalves(_, _)\* I_L and I_R of HMAC-SHA512(chain code, data)

ASSUME KeyPathsAssumption == {HARDENED, Order} \subseteq Nat \ {0, 1}

-----------------------------------------------------------------------------
(* EIP-2334. *)

signing(index)    == <<12381, 3600, index, 0, 0>>

Scalar(term) == [len |-> 32, scalar |-> TRUE, key |-> term]
derive_master(seed) == Scalar([seed |-> seed, path |-> <<>>])
derive_child(parent, index) == Scalar([parent.key EXCEPT !.path = Append(@, index)])
derive_path(seed, path) ==
  LET key[n \in 0 .. Len(path)] ==
        IF n = 0 THEN derive_master(seed) ELSE derive_child(key[n - 1], path[n])
  IN  key[Len(path)]

(* A BLS public key, a signature, and its verification. *)
PublicKey(sk) == [pub |-> sk.key]
Signature(sk, root) == [by |-> sk.key, over |-> root]
NotAPoint == [none |-> "a-point"]

new_signer(secret) ==
  CASE secret.len # 32 -> Failure("BadSecretLength")
    [] secret.len = 32 /\ ~secret.scalar -> Failure("BadSecret")
    [] OTHER -> Success(secret)

validate_pubkey_bytes(pubkey) == pubkey # NotAPoint

verify(pubkey, root, sig) ==
  CASE ~validate_pubkey_bytes(pubkey) -> Failure("BadPubkey")
    [] validate_pubkey_bytes(pubkey) /\ sig = NotAPoint -> Failure("BadSignature")
    [] OTHER -> Success(sig # NotAPoint /\ sig = Signature([key |-> pubkey.pub], root))

(* The checks C1 to C3 of a key that was derived. *)
SELFCHECK_ROOT == [root |-> "ethernal/keygen-selfcheck/v1"]
verify_derived_key(sk, pubkey) ==
  /\ new_signer(sk).ok /\ PublicKey(sk) = pubkey
  /\ validate_pubkey_bytes(pubkey)
  /\ verify(pubkey, SELFCHECK_ROOT, Signature(sk, SELFCHECK_ROOT)) = Success(TRUE)

-----------------------------------------------------------------------------
(* BIP-32 and BIP-44. *)

eoa(index) == <<HARDENED + 44, HARDENED + 60, HARDENED, 0, index>>

(* FAULTY: a child with the number 2^31 itself is not taken for hardened.   *)
ChildDataOff(k, index) ==
  IF index > HARDENED THEN [sk |-> k, index |-> index] ELSE [point |-> k, index |-> index]

(* Hardened children come from the secret, others from the public point.    *)
ChildData(k, index) ==
  IF index >= HARDENED THEN [sk |-> k, index |-> index] ELSE [point |-> k, index |-> index]

(* I_L is refused if it is no scalar, and for a master key if it is zero;   *)
(* a child's may be zero, its key not.                                       *)
Master(seed) ==
  LET I == MasterHalves(seed)
  IN  IF I.L >= Order \/ I.L = 0 THEN Failure("Bip32Master") ELSE Success([k |-> I.L, c |-> I.R])

child_from_halves(I, parent) ==
  LET k == (I.L + parent) % Order
  IN  IF I.L >= Order \/ k = 0 THEN Failure("InvalidChildKey") ELSE Success([k |-> k, c |-> I.R])

Child(parent, index) ==
  child_from_halves(ChildHalves(parent.c, ChildData(parent.k, index)), parent.k)

DeriveAccount(seed, path) ==
  LET r[n \in 0 .. Len(path)] ==
        IF n = 0 THEN Master(seed)
        ELSE IF r[n - 1].ok THEN Child(r[n - 1].value, path[n]) ELSE r[n - 1]
  IN  r[Len(path)]
=============================================================================
