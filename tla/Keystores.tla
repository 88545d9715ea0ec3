------------------------------ MODULE Keystores ------------------------------
(* Keystore files: EIP-2335 (version 4, validators) and Web3 Secret Storage *)
(* (version 3, accounts), how they are written, found and opened.  A        *)
(* derived key, a ciphertext and a checksum are the terms they are made     *)
(* from, so that only what was made from the same things is equal; a hex    *)
(* field that is no hex is BadHex.                                          *)
EXTENDS Mnemonic, Integers, FiniteSetsExt

CONSTANTS
  ScryptMaxMem,          \* SCRYPT_MAX_MEM_BYTES
  GarbledIsScalar(_)     \* whether bytes decrypted with that IV are below the BLS order

ASSUME KeystoresAssumption == ScryptMaxMem \in Nat

BadHex == [hex |-> "bad"]
IsHex(v) == v # BadHex

-----------------------------------------------------------------------------
(* crypto.rs. *)

StripControl(p) == IF p.form = "control" THEN Bytes(p.text, "plain") ELSE p

(* NFKD, then control characters go; what is not UTF-8 is replaced.         *)
normalize_passphrase(p) ==
  IF p.form = "invalid" THEN Bytes(p.text, "replaced") ELSE StripControl(NFKD(p))

PowersOfTwo == {2 ^ k : k \in 0 .. 30}
STANDARD == [n |-> 262144, r |-> 8, p |-> 1, dklen |-> 32]

(* 128 * n * r is compared without being formed: an overflow is refused as  *)
(* the excess it is.                                                         *)
derive_scrypt(password, salt, c) ==
  IF \/ c.n \notin PowersOfTwo
     \/ c.r = 0 \/ c.n * c.r > ScryptMaxMem \div 128
     \/ c.p \notin 1 .. 16 \/ c.dklen \notin 32 .. 128
  THEN Failure("KdfParams")
  ELSE Success([password |-> password, salt |-> salt, cost |-> c])

derive_pbkdf2(password, salt, f) ==
  IF f.prf # "hmac-sha256" THEN Failure("KdfParams")
  ELSE Success([password |-> password, salt |-> salt, cost |-> [c |-> f.n, dklen |-> f.dklen]])

checksum_message(dk, ct) == [sha256 |-> dk, of |-> ct]
v3_mac(dk, ct)           == [keccak |-> dk, of |-> ct]

Encipher(dk, iv, secret) == [under |-> dk, iv |-> iv, secret |-> secret]

(* CTR mode: under another key or IV the same bytes are something else, of  *)
(* the same length.                                                          *)
Decipher(dk, iv, ct) ==
  IF ct.under = dk /\ ct.iv = iv THEN ct.secret
  ELSE [len |-> ct.secret.len, scalar |-> GarbledIsScalar(iv), key |-> [garbled |-> iv]]

-----------------------------------------------------------------------------
(* encrypt.rs and encrypt_v3.rs. *)

encrypt(secret, password, pubkey, salt, iv, cost) ==
  LET dk == derive_scrypt(normalize_passphrase(password), salt, cost)
  IN  IF secret.len # 32 \/ ~dk.ok THEN Failure("Encrypt")
      ELSE LET ct == Encipher(dk.value, iv, secret)
           IN  Success(
                 [version |-> 4, pubkey |-> [key |-> pubkey, form |-> "bare"], crypto |-> "object",
                  kdf |-> "scrypt", cost |-> cost, prf |-> "none", salt |-> salt,
                  checksumFn |-> "sha256", checksum |-> checksum_message(dk.value, ct),
                  cipherFn |-> "aes-128-ctr", cipher |-> ct, iv |-> iv])

(* FAULTY: version 3 normalizes as version 4 does. *)
encrypt_v3_normalized(secret, password, address, salt, iv, cost) ==
  LET dk == derive_scrypt(normalize_passphrase(password), salt, cost)
      ct == Encipher(dk.value, iv, secret)
  IN  IF secret.len # 32 \/ ~dk.ok THEN Failure("Encrypt")
      ELSE Success([version |-> 3, address |-> address, kdf |-> "scrypt", cost |-> cost,
                    salt |-> salt, mac |-> v3_mac(dk.value, ct),
                    cipherFn |-> "aes-128-ctr", cipher |-> ct, iv |-> iv])

(* The passphrase goes to scrypt as it is. *)
encrypt_v3(secret, password, address, salt, iv, cost) ==
  LET dk == derive_scrypt(password, salt, cost)
      ct == Encipher(dk.value, iv, secret)
  IN  IF secret.len # 32 \/ ~dk.ok THEN Failure("Encrypt")
      ELSE Success([version |-> 3, address |-> address, kdf |-> "scrypt", cost |-> cost,
                    salt |-> salt, mac |-> v3_mac(dk.value, ct),
                    cipherFn |-> "aes-128-ctr", cipher |-> ct, iv |-> iv])

-----------------------------------------------------------------------------
(* keystore.rs: decrypt, after Loader::load. *)

derive_key(f, password) ==
  CASE f.kdf \notin {"scrypt", "pbkdf2"} \/ ~IsHex(f.salt) -> Failure("KeystoreMalformed")
    [] f.kdf = "scrypt" /\ IsHex(f.salt) -> derive_scrypt(password, f.salt, f.cost)
    [] OTHER -> derive_pbkdf2(password, f.salt, [n |-> f.cost.n, prf |-> f.prf, dklen |-> f.cost.dklen])

decrypt(f, pass) ==
  IF f.crypto # "object" \/ ~IsHex(f.cipher) THEN Failure("KeystoreMalformed")
  ELSE LET dk == derive_key(f, normalize_passphrase(pass))
       IN  IF ~dk.ok THEN Failure("KeystoreMalformed")
           ELSE CASE dk.value.cost.dklen < 32 \/ f.checksumFn # "sha256" \/ ~IsHex(f.checksum) ->
                       Failure("KeystoreMalformed")
                  [] f.checksum # checksum_message(dk.value, f.cipher) -> Failure("WrongPassphrase")
                  [] f.cipherFn # "aes-128-ctr" \/ ~IsHex(f.iv) \/ f.iv.len # 16 ->
                       Failure("KeystoreMalformed")
                  [] OTHER -> Success(Decipher(dk.value, f.iv, f.cipher))

(* FAULTY: 0x is put before what has none. *)
normalize_pubkey_prefixed(p) == [p EXCEPT !.form = "0x"]

(* A pubkey is written with 0x, with 0X, in upper case, or bare; 0x is      *)
(* taken off, and the rest put in lower case.                                *)
normalize_pubkey(p) == IF p.form = "0X" THEN p ELSE [p EXCEPT !.form = "bare"]

(* Loader::load.  A directory entry has what the file system says of it and *)
(* the JSON in it.                                                           *)
load(entry, pass) ==
  CASE entry.access = "missing" -> Failure("KeystoreMissing")
    [] entry.access = "denied"  -> Failure("ReadFile")
    [] entry.access = "ok" /\ ~entry.json -> Failure("KeystoreMalformed")
    [] entry.access = "ok" /\ entry.json /\ entry.body.version # 4 -> Failure("KeystoreVersion")
    [] OTHER ->
         IF entry.body.crypto = "missing" THEN Failure("KeystoreMalformed")
         ELSE IF ~pass.ok THEN Failure("PassphraseSource")
         ELSE LET secret == decrypt(entry.body, pass.value)
              IN  IF ~secret.ok THEN secret
                  ELSE Success([secret |-> secret.value, pubkey |-> normalize_pubkey(entry.body.pubkey)])

(* decrypt_v3, as wallets do it: everything is parsed, then the MAC is      *)
(* compared, and only then is anything deciphered.                           *)
decrypt_v3(f, pass) ==
  IF \/ f.version # 3 \/ f.kdf # "scrypt" \/ f.cipherFn # "aes-128-ctr"
     \/ ~IsHex(f.salt) \/ ~IsHex(f.iv) \/ ~IsHex(f.cipher) \/ ~IsHex(f.mac)
  THEN Failure("KeystoreMalformed")
  ELSE LET dk == derive_scrypt(pass, f.salt, f.cost)
       IN  CASE ~dk.ok -> Failure("KeystoreMalformed")
             [] dk.ok /\ f.mac # v3_mac(dk.value, f.cipher) -> Failure("WrongPassphrase")
             [] OTHER -> IF f.iv.len = 16 THEN Success(Decipher(dk.value, f.iv, f.cipher))
                         ELSE Failure("KeystoreMalformed")

-----------------------------------------------------------------------------
(* scandir.rs: the index of a directory.  What cannot be used is skipped; a *)
(* file is looked at for its pubkey only, which an account's does not have. *)

Indexed(listing) ==
  {i \in DOMAIN listing :
     LET e == listing[i]
     IN  ~e.isDir /\ e.named /\ e.access = "ok" /\ e.json
         /\ "pubkey" \in DOMAIN e.body /\ e.body.pubkey.form # "none"}

(* The entry that was listed last has a pubkey that several declare.        *)
lookup(listing, pubkey) ==
  LET same == {i \in Indexed(listing) :
                 normalize_pubkey(listing[i].body.pubkey) = normalize_pubkey(pubkey)}
  IN  IF same = {} THEN Failure("KeystoreNotFound") ELSE Success(listing[Max(same)])

-----------------------------------------------------------------------------
(* The name of an account's keystore has the date and time it was written. *)

civil_from_days(z0) ==
  LET z   == z0 + 719468
      era == IF z >= 0 THEN z \div 146097 ELSE -((146096 - z) \div 146097)
      doe == z - era * 146097
      yoe == (doe - doe \div 1460 + doe \div 36524 - doe \div 146096) \div 365
      doy == doe - (365 * yoe + yoe \div 4 - yoe \div 100)
      mp  == (5 * doy + 2) \div 153
      m   == IF mp < 10 THEN mp + 3 ELSE mp - 9
  IN  [y |-> yoe + era * 400 + (IF m <= 2 THEN 1 ELSE 0), m |-> m,
       d |-> doy - (153 * mp + 2) \div 5 + 1]

v3_filename(address, unix_secs, nanos) ==
  LET tod == unix_secs % 86400
  IN  [date |-> civil_from_days(unix_secs \div 86400), h |-> tod \div 3600,
       min |-> (tod % 3600) \div 60, s |-> tod % 60, nanos |-> nanos, address |-> address]
=============================================================================
