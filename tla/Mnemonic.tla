------------------------------ MODULE Mnemonic ------------------------------
(* BIP-39 as the program has it: entropy and checksum bits cut into words   *)
(* and back, what is forgiven in a mnemonic that is typed, and the seed.    *)
(* The sizes are parameters: a word stands for 11 bits of the code and one  *)
(* checksum bit for 32 bits of entropy.                                      *)
EXTENDS Naturals, Sequences, SequencesExt

CONSTANTS
  WordBits,    \* 11: bits of a word
  Ratio,       \* 32: bits of entropy for each bit of the checksum
  WordCounts,  \* {12, 15, 18, 21, 24}
  Digest(_)    \* SHA-256 of the entropy, as bits

ASSUME MnemonicAssumption ==
  /\ {WordBits, Ratio} \subseteq Nat \ {0} /\ WordCounts \subseteq Nat \ {0}
  /\ \A c \in WordCounts : (c * WordBits) % (Ratio + 1) = 0
  /\ \E longest \in WordCounts : \A c \in WordCounts : c <= longest

ENT(count) == (count * WordBits * Ratio) \div (Ratio + 1)
EntropyLengths == {ENT(c) : c \in WordCounts}
Words == 0 .. 2 ^ WordBits - 1
Unlisted == 2 ^ WordBits                   \* a token that is not in the list

Failure(e) == [ok |-> FALSE, err |-> e]
Success(v) == [ok |-> TRUE, value |-> v]

(* The bits of a word, first the highest, and the word of as many bits.     *)
BitsOf(w) == [b \in 1 .. WordBits |-> (w \div 2 ^ (WordBits - b)) % 2]
WordOf(bits) ==
  LET word[n \in 0 .. Len(bits)] == IF n = 0 THEN 0 ELSE 2 * word[n - 1] + bits[n]
  IN  word[Len(bits)]

Checksum(entropy) == SubSeq(Digest(entropy), 1, Len(entropy) \div Ratio)

entropy_to_mnemonic(entropy) ==
  IF Len(entropy) \notin EntropyLengths THEN Failure("WordCount")
  ELSE LET bits == entropy \o Checksum(entropy)
       IN  Success([i \in 1 .. Len(bits) \div WordBits |->
                      WordOf(SubSeq(bits, (i - 1) * WordBits + 1, i * WordBits))])

(* What is typed is a sequence of tokens: a word, and whether it is as the  *)
(* list has it.  Another case or compatibility form, and the white space    *)
(* around it, are taken off.                                                 *)
Typed(words) == [i \in DOMAIN words |-> [word |-> words[i], form |-> "plain"]]
normalize_mnemonic(text) == [i \in DOMAIN text |-> text[i].word]

validate_mnemonic(text) ==
  LET words   == normalize_mnemonic(text)
      unknown == {i \in DOMAIN words : words[i] \notin Words}
      bits    == FlattenSeq([i \in DOMAIN words |-> BitsOf(words[i])])
      ent     == ENT(Len(words))
  IN  CASE Len(words) \notin WordCounts -> Failure("WordCount")
        [] unknown # {} -> Failure("UnknownWord")
        [] SubSeq(bits, ent + 1, Len(bits)) # Checksum(SubSeq(bits, 1, ent)) ->
             Failure("Checksum")
        [] OTHER -> Success(words)

-----------------------------------------------------------------------------
(* Passphrases are bytes that spell a text: as it is, in a composed form    *)
(* that NFKD takes apart, with control characters, or not in UTF-8.         *)

Bytes(text, form) == [text |-> text, form |-> form]
NFKD(p) == IF p.form = "composed" THEN Bytes(p.text, "plain") ELSE p

to_seed(text, pass) ==
  IF pass.form = "invalid" THEN Failure("PassphraseNotUtf8")
  ELSE Success([words |-> normalize_mnemonic(text), salt |-> NFKD(pass)])
=============================================================================
