----------------------------- MODULE MCLifecycle -----------------------------
(* Small sizes, and functions in the place of the hashes, for TLC.          *)
EXTENDS Lifecycle, TLC

MCWordCounts == {2, 4}

(* Two of the longest, and a short one.                                      *)
MCEntropies ==
  { <<1, 0, 1, 1, 0, 0, 1, 0, 1, 0>>, <<0, 0, 1, 0, 1, 1, 1, 0, 0, 1>>, <<1, 0, 1, 1, 0>> }

MCDigest(e) ==
  LET weighed == FoldLeft(+, 0, [i \in DOMAIN e |-> i * e[i]]) IN <<weighed % 2, (weighed \div 2) % 2>>

TextNumber(t) == CASE t = "empty" -> 0 [] t = "pass" -> 3 [] OTHER -> 7
MCMasterHalves(seed) ==
  LET h == FoldLeft(LAMBDA n, w : (7 * n + w) % 97, 8, seed.words)
           + TextNumber(seed.salt.text) + (IF seed.salt.form = "plain" THEN 0 ELSE 5)
  IN  [L |-> h % 32, R |-> (3 * h + 1) % 13]

MCChildHalves(c, data) ==
  LET h == 5 * c + 2 * data.index + (IF "sk" \in DOMAIN data THEN 3 * data.sk ELSE 7 * data.point + 1)
  IN  [L |-> h % 32, R |-> (h + c) % 13]

MCGarbledIsScalar(iv) == iv.n % 2 = 0

NumberOf(over) == Len(over.keccak)
MCOddY(key, over)    == (key + NumberOf(over)) % 2 = 1
MCSIsHigh(key, over) == (key + NumberOf(over)) % 3 = 0
MCShortR(key, over)  == key % 2 = 0
=============================================================================
