-------------------------- MODULE TransactionProofs --------------------------
(* Theorems about the transaction of a deposit: in Lifecycle, its way from   *)
(* the file of gen through build, sign and send to the node, whatever the    *)
(* slips of the operator; in TxSend, the last step, with any number of runs  *)
(* of tx send at once.                                                       *)
EXTENDS LifecycleProofs, TxSend

-----------------------------------------------------------------------------
(* Counting up, and functions by recursion. *)

(* Induction for a set of numbers. *)
LEMMA Strongly ==
  ASSUME NEW S, \A n \in Nat : (\A k \in 0 .. n - 1 : k \in S) => n \in S
  PROVE  \A n \in Nat : n \in S
<1> DEFINE out == {n \in Nat : n \notin S}
<1>1. out = {}
  <2> SUFFICES ASSUME out # {} PROVE FALSE
    OBVIOUS
  <2>1. out \subseteq Nat
    OBVIOUS
  <2>2. PICK k : k = Min(out)
    OBVIOUS
  <2>3. k \in out /\ \A n \in out : k <= n
    <3> HIDE DEF out
    <3> QED BY <2>1, <2>2, MinOf
  <2>4. \A n \in 0 .. k - 1 : n \in S
    BY <2>3
  <2> QED BY <2>3, <2>4
<1> QED BY <1>1

(* Counting up: what holds of 0, and of n + 1 if of n, holds up to m. *)
LEMMA Upward ==
  ASSUME NEW m \in Nat, NEW S, 0 \in S, \A n \in 0 .. m - 1 : n \in S => n + 1 \in S
  PROVE  \A n \in 0 .. m : n \in S
<1> DEFINE T == {n \in Nat : n <= m => n \in S}
<1>1. ASSUME NEW n \in Nat, \A k \in 0 .. n - 1 : k \in T
      PROVE  n \in T
  <2>1. CASE n = 0
    BY <2>1
  <2>2. CASE n # 0 /\ n <= m
    <3>1. n - 1 \in T /\ n - 1 \in 0 .. m - 1 /\ (n - 1) + 1 = n
      BY <1>1, <2>2
    <3>2. n - 1 \in S
      BY <3>1
    <3> QED BY <3>1, <3>2
  <2>3. CASE n > m
    BY <2>3
  <2> QED BY <2>1, <2>2, <2>3
<1>2. \A n \in Nat : n \in T
  <2> HIDE DEF T
  <2> QED BY <1>1, Strongly
<1> QED BY <1>2

(* A function by recursion over 0 .. m is there.                             *)
IsBy(g, X, m, F, a) ==
  g \in [0 .. m -> X] /\ g[0] = a /\ \A n \in 1 .. m : g[n] = F[n][g[n - 1]]

(* A recursive function on 0 .. m exists: what no prover here can get from   *)
(* the induction theorems of the library.                                    *)
LEMMA Recursion ==
  ASSUME NEW X, NEW m \in Nat, NEW F \in [1 .. m -> [X -> X]], NEW a \in X
  PROVE  \E g : IsBy(g, X, m, F, a)
<1> DEFINE Solved(k) == \E g \in [0 .. k -> X] : g[0] = a /\ \A n \in 1 .. k : g[n] = F[n][g[n - 1]]
           S == {k \in Nat : Solved(k)}
<1>1. Solved(0)
  <2>1. PICK g : g = [n \in 0 .. 0 |-> a]
    OBVIOUS
  <2>2. g \in [0 .. 0 -> X] /\ g[0] = a
    BY <2>1
  <2> QED BY <2>2
<1>2. ASSUME NEW k \in 0 .. m - 1, Solved(k)
      PROVE  Solved(k + 1)
  <2>1. PICK g \in [0 .. k -> X] : g[0] = a /\ \A n \in 1 .. k : g[n] = F[n][g[n - 1]]
    BY <1>2
  <2>2. PICK x : x = F[k + 1][g[k]]
    OBVIOUS
  <2>3. x \in X
    BY <2>1, <2>2
  <2>4. PICK h : h = [n \in 0 .. k + 1 |-> IF n = k + 1 THEN x ELSE g[n]]
    OBVIOUS
  <2>5. h \in [0 .. k + 1 -> X]
    BY <2>1, <2>3, <2>4
  <2>6. h[0] = a
    BY <2>1, <2>4
  <2>7. ASSUME NEW n \in 1 .. k + 1
        PROVE  h[n] = F[n][h[n - 1]]
    <3>1. CASE n = k + 1
      <4>1. h[n] = x /\ h[n - 1] = g[k]
        BY <2>4, <3>1
      <4> QED BY <2>2, <3>1, <4>1
    <3>2. CASE n \in 1 .. k
      <4>1. h[n] = g[n] /\ h[n - 1] = g[n - 1]
        BY <2>4, <3>2
      <4> QED BY <2>1, <3>2, <4>1
    <3> QED BY <3>1, <3>2
  <2> QED BY <2>5, <2>6, <2>7
<1>3. \A n \in 0 .. m : n \in S
  <2>1. 0 \in S
    <3> HIDE DEF Solved
    <3> QED BY <1>1
  <2>2. \A n \in 0 .. m - 1 : n \in S => n + 1 \in S
    <3> HIDE DEF Solved
    <3> QED BY <1>2
  <2> HIDE DEF S
  <2> QED BY <2>1, <2>2, Upward
<1>4. Solved(m)
  <2> HIDE DEF Solved
  <2> QED BY <1>3
<1> QED BY <1>4 DEF IsBy

-----------------------------------------------------------------------------
(* Bytes: how long they are. *)

(* What has a length that is no zero: what is counted piece by piece.        *)
Pieces(S) == \A p \in S : p.len \in Nat \ {0}

(* The length of bytes is the sum of the lengths of the pieces, added up one *)
(* by one.                                                                   *)
LEMMA LengthSums ==
  ASSUME NEW S, Pieces(S), NEW b \in Seq(S)
  PROVE  \E g \in [0 .. Len(b) -> Nat] :
           /\ g[0] = 0 /\ \A n \in 1 .. Len(b) : g[n] = g[n - 1] + b[n].len
           /\ Length(b) = g[Len(b)]
<1>1. PICK m \in Nat : m = Len(b) /\ \A n \in 1 .. m : b[n] \in S /\ b[n].len \in Nat
  BY DEF Pieces
<1>0. PICK F : F = [n \in 1 .. m |-> [x \in Nat |-> x + b[n].len]]
  OBVIOUS
<1> DEFINE Body(h, n) == IF n = 0 THEN 0 ELSE h[n - 1] + b[n].len
           length == CHOOSE h : h = [n \in 0 .. m |-> Body(h, n)]
<1>2. F \in [1 .. m -> [Nat -> Nat]]
  BY <1>0, <1>1
<1>3. PICK g \in [0 .. m -> Nat] : g[0] = 0 /\ \A n \in 1 .. m : g[n] = F[n][g[n - 1]]
  <2>1. \E g : IsBy(g, Nat, m, F, 0)
    BY <1>2, Recursion
  <2> QED BY <2>1 DEF IsBy
<1>4. \A n \in 1 .. m : g[n] = g[n - 1] + b[n].len
  <2> TAKE n \in 1 .. m
  <2>1. n - 1 \in 0 .. m
    OBVIOUS
  <2>2. g[n - 1] \in Nat /\ g[n] = F[n][g[n - 1]]
    BY <1>3, <2>1
  <2>3. F[n] = [x \in Nat |-> x + b[n].len]
    BY <1>0
  <2> QED BY <2>2, <2>3
<1>5. g = [n \in 0 .. m |-> Body(g, n)]
  BY <1>3, <1>4
<1>6. length = [n \in 0 .. m |-> Body(length, n)]
  <2> HIDE DEF Body
  <2> QED BY <1>5
<1>7. Length(b) = length[m]
  BY <1>1, Zenon DEF Length
<1> HIDE DEF length
<1>8. length[0] = 0 /\ \A n \in 1 .. m : length[n] = length[n - 1] + b[n].len
  BY <1>6
<1> DEFINE T == {n \in 0 .. m : length[n] \in Nat}
<1>9. \A n \in 0 .. m : n \in T
  <2>1. 0 \in T
    BY <1>8
  <2>2. ASSUME NEW n \in 0 .. m - 1, n \in T PROVE n + 1 \in T
    <3>1. length[n + 1] = length[n] + b[n + 1].len /\ b[n + 1].len \in Nat
      BY <1>1, <1>8
    <3> QED BY <2>2, <3>1
  <2> HIDE DEF T
  <2> QED BY <2>1, <2>2, Upward
<1>10. length \in [0 .. m -> Nat]
  <2>1. \A n \in 0 .. m : length[n] \in Nat
    BY <1>9
  <2>2. length = [n \in 0 .. m |-> length[n]]
    BY <1>6
  <2> QED BY <2>1, <2>2
<1> QED BY <1>1, <1>7, <1>8, <1>10

(* Whatever adds up the lengths of the pieces ends with the length. *)
LEMMA LengthFrom ==
  ASSUME NEW S, Pieces(S), NEW b \in Seq(S), NEW h, h[0] = 0,
         \A n \in 1 .. Len(b) : h[n] = h[n - 1] + b[n].len
  PROVE  Length(b) = h[Len(b)]
<1>1. PICK g \in [0 .. Len(b) -> Nat] : /\ g[0] = 0 /\ \A n \in 1 .. Len(b) : g[n] = g[n - 1] + b[n].len
                                        /\ Length(b) = g[Len(b)]
  BY LengthSums
<1>2. PICK m \in Nat : m = Len(b)
  OBVIOUS
<1> DEFINE T == {n \in 0 .. m : g[n] = h[n]}
<1>3. 0 \in T
  BY <1>1
<1>4. ASSUME NEW n \in 0 .. m - 1, n \in T PROVE n + 1 \in T
  <2>1. g[n + 1] = g[n] + b[n + 1].len /\ h[n + 1] = h[n] + b[n + 1].len
    BY <1>1, <1>2
  <2> QED BY <1>4, <2>1
<1>5. \A n \in 0 .. m : n \in T
  <2> HIDE DEF T
  <2> QED BY <1>3, <1>4, Upward
<1> QED BY <1>1, <1>2, <1>5

(* Lengths add up. *)
LEMMA LengthConcat ==
  ASSUME NEW S, Pieces(S), NEW s \in Seq(S), NEW t \in Seq(S)
  PROVE  /\ Length(s) \in Nat /\ Length(s \o t) = Length(s) + Length(t)
<1>1. PICK g \in [0 .. Len(s) -> Nat] : /\ g[0] = 0 /\ \A n \in 1 .. Len(s) : g[n] = g[n - 1] + s[n].len
                                        /\ Length(s) = g[Len(s)]
  BY LengthSums
<1>2. PICK f \in [0 .. Len(t) -> Nat] : /\ f[0] = 0 /\ \A n \in 1 .. Len(t) : f[n] = f[n - 1] + t[n].len
                                        /\ Length(t) = f[Len(t)]
  BY LengthSums
<1>3. PICK j \in Nat, k \in Nat : j = Len(s) /\ k = Len(t)
  OBVIOUS
<1>10. /\ g \in [0 .. j -> Nat] /\ f \in [0 .. k -> Nat]
       /\ \A n \in 1 .. j : g[n] = g[n - 1] + s[n].len
       /\ \A n \in 1 .. k : f[n] = f[n - 1] + t[n].len /\ t[n].len \in Nat
  BY <1>1, <1>2, <1>3 DEF Pieces
<1>4. s \o t \in Seq(S) /\ Len(s \o t) = j + k
  BY <1>3
<1>5. PICK h : h = [n \in 0 .. j + k |-> IF n <= j THEN g[n] ELSE g[j] + f[n - j]]
  OBVIOUS
<1>6. ASSUME NEW n \in 1 .. j + k
      PROVE  h[n] = h[n - 1] + (s \o t)[n].len
  <2>1. CASE n <= j
    <3>1. (s \o t)[n] = s[n] /\ h[n] = g[n] /\ h[n - 1] = g[n - 1] /\ g[n] = g[n - 1] + s[n].len
      BY <1>1, <1>3, <1>5, <2>1
    <3> QED BY <3>1
  <2>2. CASE n = j + 1
    <3>1. (s \o t)[n] = t[1] /\ h[n] = g[j] + f[1] /\ h[n - 1] = g[j] /\ f[1] = f[0] + t[1].len
      BY <1>2, <1>3, <1>5, <2>2
    <3>2. f[0] = 0 /\ f[1] \in Nat /\ t[1] \in S
      BY <1>2, <1>3, <2>2
    <3>3. t[1].len \in Nat
      BY <3>2 DEF Pieces
    <3> QED BY <3>1, <3>2, <3>3
  <2>3. CASE n > j + 1
    <3>1. PICK i : i = n - j /\ i \in 2 .. k /\ i - 1 = (n - 1) - j
      BY <2>3
    <3>2. (s \o t)[n] = t[i] /\ h[n] = g[j] + f[i] /\ h[n - 1] = g[j] + f[i - 1]
      BY <1>3, <1>5, <2>3, <3>1
    <3>3. i \in 1 .. k /\ i - 1 \in 0 .. k /\ j \in 0 .. j
      BY <3>1
    <3>4. f[i] = f[i - 1] + t[i].len /\ g[j] \in Nat /\ f[i - 1] \in Nat /\ t[i].len \in Nat
      BY <1>10, <3>3
    <3> QED BY <3>2, <3>4
  <2>4. j \in Nat /\ n \in Nat
    BY <1>3
  <2>5. n <= j \/ n = j + 1 \/ n > j + 1
    BY <2>4
  <2> QED BY <2>1, <2>2, <2>3, <2>5, Zenon
<1>7. h[0] = 0
  BY <1>1, <1>5
<1>8. Length(s \o t) = h[j + k]
  BY <1>4, <1>6, <1>7, LengthFrom
<1>9. h[j + k] = g[j] + f[k]
  <2>1. CASE k = 0
    BY <1>1, <1>2, <1>3, <1>5, <2>1
  <2>2. CASE k # 0
    BY <1>1, <1>2, <1>3, <1>5, <2>2
  <2> QED BY <2>1, <2>2
<1> QED BY <1>1, <1>2, <1>3, <1>8, <1>9

(* The length of no piece, and of one. *)
LEMMA LengthSmall ==
  /\ Length(<<>>) = 0
  /\ \A p : p.len \in Nat \ {0} => Length(<<p>>) = p.len
<1>1. Length(<<>>) = 0
  <2>1. <<>> \in Seq({}) /\ Pieces({})
    BY DEF Pieces
  <2>2. PICK h : h = [n \in {0} |-> 0]
    OBVIOUS
  <2>3. Length(<<>>) = h[Len(<<>>)]
    BY <2>1, <2>2, LengthFrom
  <2> QED BY <2>2, <2>3
<1>2. ASSUME NEW p, p.len \in Nat \ {0}
      PROVE  Length(<<p>>) = p.len
  <2>1. <<p>> \in Seq({p}) /\ Pieces({p}) /\ Len(<<p>>) = 1
    BY <1>2 DEF Pieces
  <2>2. PICK h : h = [n \in {0, 1} |-> IF n = 0 THEN 0 ELSE p.len]
    OBVIOUS
  <2>3. Length(<<p>>) = h[Len(<<p>>)]
    BY <1>2, <2>1, <2>2, LengthFrom
  <2> QED BY <2>1, <2>2, <2>3
<1> QED BY <1>1, <1>2

(* No piece is empty: bytes of length 0 have no piece, of length 1 have one. *)
LEMMA LengthZero ==
  ASSUME NEW S, Pieces(S), NEW s \in Seq(S)
  PROVE  /\ Length(s) = 0 => s = <<>>
         /\ Length(s) = 1 => s = <<s[1]>>
<1>1. ASSUME NEW t \in Seq(S), t # <<>>
      PROVE  /\ Tail(t) \in Seq(S) /\ t[1] \in S /\ t = <<t[1]>> \o Tail(t)
             /\ t[1].len \in Nat \ {0} /\ Length(Tail(t)) \in Nat
             /\ Length(t) = t[1].len + Length(Tail(t))
  <2>1. Tail(t) \in Seq(S) /\ t[1] \in S /\ <<t[1]>> \in Seq(S) /\ t = <<t[1]>> \o Tail(t)
    BY <1>1
  <2>2. t[1].len \in Nat \ {0}
    BY <2>1 DEF Pieces
  <2>3. Length(<<t[1]>>) = t[1].len
    BY <2>2, LengthSmall
  <2>4. Length(Tail(t)) \in Nat
    BY <2>1, LengthConcat
  <2>5. Length(<<t[1]>> \o Tail(t)) = Length(<<t[1]>>) + Length(Tail(t))
    BY <2>1, LengthConcat
  <2> QED BY <2>1, <2>2, <2>3, <2>4, <2>5
<1>2. ASSUME NEW t \in Seq(S), Length(t) = 0 PROVE t = <<>>
  <2> SUFFICES ASSUME t # <<>> PROVE FALSE
    OBVIOUS
  <2>1. PICK n \in Nat, k \in Nat \ {0} : n = Length(Tail(t)) /\ k = t[1].len /\ Length(t) = k + n
    BY <1>1
  <2> QED BY <1>2, <2>1
<1>3. ASSUME Length(s) = 1 PROVE s = <<s[1]>>
  <2>1. s # <<>>
    BY <1>3, LengthSmall
  <2>2. PICK n \in Nat, k \in Nat \ {0} : n = Length(Tail(s)) /\ k = s[1].len /\ Length(s) = k + n
    BY <1>1, <2>1
  <2>3. n = 0
    BY <1>3, <2>2
  <2>4. Tail(s) = <<>>
    BY <1>1, <1>2, <2>1, <2>2, <2>3
  <2>5. s = <<s[1]>> \o Tail(s)
    BY <1>1, <2>1
  <2>6. \A e : <<e>> \o <<>> = <<e>>
    OBVIOUS
  <2> QED BY <2>4, <2>5, <2>6, Zenon
<1> QED BY <1>2, <1>3

(* Only one beginning has a length.                                          *)
LEMMA PrefixOnce ==
  ASSUME NEW S, Pieces(S), NEW b \in Seq(S), NEW i \in 0 .. Len(b), NEW j \in 0 .. Len(b),
         Length(SubSeq(b, 1, i)) = Length(SubSeq(b, 1, j))
  PROVE  i = j
<1>1. ASSUME NEW k \in 0 .. Len(b), NEW n \in 0 .. Len(b), k < n
      PROVE  Length(SubSeq(b, 1, k)) # Length(SubSeq(b, 1, n))
  <2>1. PICK s \in Seq(S), t \in Seq(S) : s = SubSeq(b, 1, k) /\ t = SubSeq(b, k + 1, n)
    <3>1. SubSeq(b, 1, k) \in Seq(S) /\ SubSeq(b, k + 1, n) \in Seq(S)
      OBVIOUS
    <3> QED BY <3>1, Zenon
  <2>2. SubSeq(b, 1, n) = s \o t /\ t # <<>>
    <3>1. Len(t) = n - k /\ Len(s) = k
      BY <1>1, <2>1
    <3>2. SubSeq(b, 1, n) = s \o t
      BY <1>1, <2>1, <3>1
    <3> QED BY <1>1, <3>1, <3>2
  <2>3. PICK x \in Nat, y \in Nat : x = Length(s) /\ y = Length(t) /\ Length(s \o t) = x + y
    BY LengthConcat
  <2>4. y # 0
    BY <2>2, <2>3, LengthZero
  <2>5. x # x + y
    BY <2>4
  <2>6. Length(SubSeq(b, 1, n)) = x + y /\ Length(SubSeq(b, 1, k)) = x
    BY <2>1, <2>2, <2>3, Zenon
  <2> QED BY <2>5, <2>6, Zenon
<1>2. i \in Nat /\ j \in Nat
  OBVIOUS
<1>3. i < j \/ j < i \/ i = j
  BY <1>2
<1> QED BY <1>1, <1>3

(* A cut after the length of a beginning is after that beginning.            *)
LEMMA CutAfter ==
  ASSUME NEW S, Pieces(S), NEW s \in Seq(S), NEW t \in Seq(S)
  PROVE  Cut(s \o t, Length(s)) = Success(Len(s))
<1>1. PICK b : b = s \o t /\ b \in Seq(S)
  <2>1. s \o t \in Seq(S)
    OBVIOUS
  <2> QED BY <2>1, Zenon
<1>2. PICK j \in 0 .. Len(b) : j = Len(s) /\ SubSeq(b, 1, j) = s
  BY <1>1
<1> DEFINE at == {i \in 0 .. Len(b) : Length(SubSeq(b, 1, i)) = Length(s)}
<1>3. at = {j}
  <2>1. \A i \in 0 .. Len(b) : Length(SubSeq(b, 1, i)) = Length(s) => i = j
    <3> TAKE i \in 0 .. Len(b)
    <3> HAVE Length(SubSeq(b, 1, i)) = Length(s)
    <3>1. Length(SubSeq(b, 1, i)) = Length(SubSeq(b, 1, j))
      BY <1>2
    <3> QED BY <1>1, <3>1, PrefixOnce
  <2> QED BY <1>2, <2>1
<1>4. Cut(b, Length(s)) = IF at = {} THEN Failure("cut") ELSE Success(CHOOSE i \in at : \A k \in at : k <= i)
  BY Zenon DEF Cut
<1> HIDE DEF at
<1>5. (CHOOSE i \in at : \A k \in at : k <= i) = j
  BY <1>2, <1>3
<1> QED BY <1>1, <1>2, <1>3, <1>4, <1>5

(* What is found at the length of a beginning is what is after it.           *)
LEMMA FromAfter ==
  ASSUME NEW S, Pieces(S), NEW b \in Seq(S), NEW j \in 1 .. Len(b) + 1,
         NEW offset, Length(SubSeq(b, 1, j - 1)) = offset
  PROVE  From(b, offset) = SubSeq(b, j, Len(b))
<1> DEFINE at == {i \in 1 .. Len(b) + 1 : Length(SubSeq(b, 1, i - 1)) = offset}
<1>1. at = {j}
  <2>1. \A i \in 1 .. Len(b) + 1 : Length(SubSeq(b, 1, i - 1)) = offset => i = j
    <3> TAKE i \in 1 .. Len(b) + 1
    <3> HAVE Length(SubSeq(b, 1, i - 1)) = offset
    <3>1. i - 1 \in 0 .. Len(b) /\ j - 1 \in 0 .. Len(b)
      OBVIOUS
    <3>2. i - 1 = j - 1
      BY <3>1, PrefixOnce
    <3> QED BY <3>2
  <2> QED BY <2>1
<1>2. From(b, offset) = IF at = {} THEN <<>> ELSE SubSeq(b, CHOOSE i \in at : \A k \in at : i <= k, Len(b))
  BY Zenon DEF From
<1> HIDE DEF at
<1>3. (CHOOSE i \in at : \A k \in at : i <= k) = j
  BY <1>1
<1> QED BY <1>1, <1>2, <1>3

-----------------------------------------------------------------------------
(* Numbers as bytes, and read back.                                          *)

(* The bytes that are numbers. *)
Octets == {Byte(n) : n \in 0 .. 255}

(* A byte is a piece of length 1. *)
LEMMA OctetsArePieces ==
  /\ Pieces(Octets)
  /\ \A p \in Octets : p = Byte(p.byte) /\ p.byte \in 0 .. 255 /\ p.len = 1 /\ "byte" \in DOMAIN p
  /\ \A n \in 0 .. 255 : Byte(n) \in Octets /\ Byte(n).byte = n /\ Byte(n).len = 1
BY DEF Pieces, Octets, Byte

(* A number is its last byte and the rest. *)
LEMMA Divided ==
  ASSUME NEW n \in Nat \ {0}
  PROVE  /\ n \div 256 \in 0 .. n - 1 /\ n % 256 \in 0 .. 255
         /\ n = 256 * (n \div 256) + (n % 256)
OBVIOUS

(* What the digits of a number are made of: the digits before the last, and *)
(* the last.                                                                  *)
DigitsOf(g, m) ==
  /\ g \in [0 .. m -> Seq(Octets)] /\ g[0] = <<>>
  /\ \A n \in 1 .. m : g[n] = Append(g[n \div 256], Byte(n % 256))

(* The bytes of all numbers up to one can be told. *)
LEMMA DigitsThere ==
  ASSUME NEW m \in Nat
  PROVE  \E g : DigitsOf(g, m)
<1> DEFINE S == {k \in Nat : \E g : DigitsOf(g, k)}
<1>1. 0 \in S
  <2>1. PICK g : g = [n \in 0 .. 0 |-> <<>>]
    OBVIOUS
  <2>2. DigitsOf(g, 0)
    BY <2>1 DEF DigitsOf
  <2> QED BY <2>2
<1>2. ASSUME NEW k \in 0 .. m - 1, k \in S
      PROVE  k + 1 \in S
  <2>1. PICK g : DigitsOf(g, k)
    BY <1>2
  <2>2. (k + 1) \div 256 \in 0 .. k /\ (k + 1) % 256 \in 0 .. 255
    BY Divided
  <2>3. PICK x : x = Append(g[(k + 1) \div 256], Byte((k + 1) % 256))
    OBVIOUS
  <2>4. x \in Seq(Octets)
    <3>1. Byte((k + 1) % 256) \in Octets
      BY <2>2, OctetsArePieces, Zenon
    <3>2. g[(k + 1) \div 256] \in Seq(Octets)
      BY <2>1, <2>2 DEF DigitsOf
    <3> QED BY <2>3, <3>1, <3>2
  <2>5. PICK h : h = [n \in 0 .. k + 1 |-> IF n = k + 1 THEN x ELSE g[n]]
    OBVIOUS
  <2>6. h \in [0 .. k + 1 -> Seq(Octets)] /\ h[0] = <<>>
    BY <2>1, <2>4, <2>5 DEF DigitsOf
  <2>7. ASSUME NEW n \in 1 .. k + 1
        PROVE  h[n] = Append(h[n \div 256], Byte(n % 256))
    <3>1. CASE n = k + 1
      <4>1. h[n] = x /\ h[n \div 256] = g[(k + 1) \div 256]
        BY <2>2, <2>5, <3>1
      <4> QED BY <2>3, <3>1, <4>1
    <3>2. CASE n \in 1 .. k
      <4>1. n \div 256 \in 0 .. n - 1
        BY <3>2, Divided
      <4>2. h[n] = g[n] /\ h[n \div 256] = g[n \div 256]
        BY <2>5, <3>2, <4>1
      <4> QED BY ONLY <2>1, <3>2, <4>2, Zenon DEF DigitsOf
    <3> QED BY <3>1, <3>2
  <2>8. DigitsOf(h, k + 1)
    BY <2>6, <2>7 DEF DigitsOf
  <2> QED BY <2>8
<1>3. \A k \in 0 .. m : k \in S
  <2> HIDE DEF S
  <2> QED BY <1>1, <1>2, Upward
<1> QED BY <1>3

(* Two ways to write the digits of numbers are the same.                     *)
LEMMA DigitsOnce ==
  ASSUME NEW m \in Nat, NEW k \in Nat, NEW g, NEW h, DigitsOf(g, m), DigitsOf(h, k),
         NEW n \in Nat, n <= m, n <= k
  PROVE  g[n] = h[n]
<1> DEFINE S == {i \in Nat : i <= m /\ i <= k => g[i] = h[i]}
<1>1. ASSUME NEW i \in Nat, \A j \in 0 .. i - 1 : j \in S
      PROVE  i \in S
  <2>1. CASE i = 0
    BY <2>1 DEF DigitsOf
  <2>2. CASE i # 0 /\ i <= m /\ i <= k
    <3>1. i \div 256 \in 0 .. i - 1
      BY <2>2, Divided
    <3>2. i \div 256 \in S /\ i \div 256 <= m /\ i \div 256 <= k
      BY <1>1, <2>2, <3>1
    <3>3. g[i \div 256] = h[i \div 256]
      BY <3>2
    <3>4. g[i] = Append(g[i \div 256], Byte(i % 256)) /\ h[i] = Append(h[i \div 256], Byte(i % 256))
      <4>1. i \in 1 .. m /\ i \in 1 .. k
        BY <2>2
      <4> QED BY <4>1, Zenon DEF DigitsOf
    <3> QED BY ONLY <3>3, <3>4
  <2> QED BY <2>1, <2>2
<1>2. \A i \in Nat : i \in S
  <2> HIDE DEF S
  <2> QED BY <1>1, Strongly
<1> QED BY <1>2

(* The digits that the code makes.                                           *)
LEMMA DigitsMade ==
  ASSUME NEW v \in Nat, NEW m \in Nat, v <= m, NEW g, DigitsOf(g, m)
  PROVE  uint_be(v) = g[v]
<1> DEFINE Body(h, n) == IF n = 0 THEN <<>> ELSE Append(h[n \div 256], Byte(n % 256))
           bytes == CHOOSE h : h = [n \in 0 .. v |-> Body(h, n)]
<1>1. PICK f : DigitsOf(f, v)
  BY DigitsThere
<1>2. f = [n \in 0 .. v |-> Body(f, n)]
  BY <1>1 DEF DigitsOf
<1>3. bytes = [n \in 0 .. v |-> Body(bytes, n)]
  <2> HIDE DEF Body
  <2> QED BY <1>2
<1>4. uint_be(v) = bytes[v]
  BY Zenon DEF uint_be
<1> HIDE DEF bytes
<1>5. DigitsOf(bytes, v)
  <2>1. bytes[0] = <<>> /\ \A n \in 1 .. v : bytes[n] = Append(bytes[n \div 256], Byte(n % 256))
    <3>1. \A n \in 0 .. v : bytes[n] = Body(bytes, n)
      <4> HIDE DEF Body
      <4> QED BY <1>3
    <3>2. 0 \in 0 .. v /\ \A n \in 1 .. v : n \in 0 .. v /\ n # 0
      OBVIOUS
    <3>3. Body(bytes, 0) = <<>>
      OBVIOUS
    <3>4. \A n : n # 0 => Body(bytes, n) = Append(bytes[n \div 256], Byte(n % 256))
      OBVIOUS
    <3> HIDE DEF Body
    <3> QED BY <3>1, <3>2, <3>3, <3>4, Zenon
  <2> DEFINE T == {n \in Nat : n <= v => bytes[n] \in Seq(Octets)}
  <2>2. ASSUME NEW n \in Nat, \A j \in 0 .. n - 1 : j \in T
        PROVE  n \in T
    <3>1. CASE n = 0
      <4>2. bytes[0] = <<>>
        BY <2>1, Zenon
      <4>3. <<>> \in Seq(Octets)
        OBVIOUS
      <4>1. bytes[n] \in Seq(Octets)
        BY <3>1, <4>2, <4>3, Zenon
      <4> QED BY <4>1
    <3>2. CASE n # 0 /\ n <= v
      <4>1. n \div 256 \in 0 .. n - 1 /\ n % 256 \in 0 .. 255
        BY <3>2, Divided
      <4>2. bytes[n \div 256] \in Seq(Octets)
        BY <2>2, <3>2, <4>1
      <4>3. Byte(n % 256) \in Octets
        BY <4>1, OctetsArePieces, SMT
      <4>4. bytes[n] = Append(bytes[n \div 256], Byte(n % 256))
        <5>1. n \in 1 .. v
          BY <3>2
        <5> QED BY <2>1, <5>1
      <4>5. bytes[n] \in Seq(Octets)
        BY <4>2, <4>3, <4>4
      <4> QED BY <4>5
    <3> QED BY <3>1, <3>2
  <2>3. \A n \in Nat : n \in T
    <3> HIDE DEF T
    <3> QED BY <2>2, Strongly
  <2>4. \A n \in 0 .. v : bytes[n] \in Seq(Octets)
    BY <2>3
  <2>5. bytes \in [0 .. v -> Seq(Octets)]
    <3>1. bytes = [n \in 0 .. v |-> bytes[n]]
      BY <1>3
    <3> QED BY <2>4, <3>1
  <2> QED BY <2>1, <2>5 DEF DigitsOf
<1> QED BY <1>4, <1>5, DigitsOnce

(* Zero has no bytes, and a number has one more than a 256th of it.          *)
LEMMA BytesOf ==
  /\ uint_be(0) = <<>>
  /\ \A v \in Nat \ {0} : uint_be(v) = Append(uint_be(v \div 256), Byte(v % 256))
  /\ \A v \in Nat : uint_be(v) \in Seq(Octets)
<1>1. ASSUME NEW v \in Nat
      PROVE  /\ uint_be(v) \in Seq(Octets)
             /\ v = 0 => uint_be(v) = <<>>
             /\ v # 0 => uint_be(v) = Append(uint_be(v \div 256), Byte(v % 256))
  <2>1. PICK g : DigitsOf(g, v)
    BY DigitsThere
  <2>2. uint_be(v) = g[v]
    BY <2>1, DigitsMade
  <2>3. ASSUME v # 0
        PROVE  uint_be(v) = Append(uint_be(v \div 256), Byte(v % 256))
    <3>1. v \div 256 \in 0 .. v - 1
      BY <2>3, Divided
    <3>2. v \div 256 \in Nat /\ v \div 256 <= v
      BY <3>1
    <3>3. uint_be(v \div 256) = g[v \div 256]
      BY <2>1, <3>2, DigitsMade
    <3>4. v \in 1 .. v
      BY <2>3
    <3>5. g[v] = Append(g[v \div 256], Byte(v % 256))
      BY <2>1, <3>4 DEF DigitsOf
    <3> QED BY <2>2, <3>3, <3>5
  <2>4. uint_be(v) \in Seq(Octets) /\ (v = 0 => uint_be(v) = <<>>)
    BY <2>1, <2>2 DEF DigitsOf
  <2> QED BY <2>3, <2>4
<1> QED BY <1>1

(* A larger number has no fewer bytes.                                       *)
LEMMA BytesGrow ==
  ASSUME NEW v \in Nat, NEW w \in Nat, v <= w
  PROVE  Len(uint_be(v)) <= Len(uint_be(w))
<1> DEFINE S == {n \in Nat : \A i \in Nat : i <= n => Len(uint_be(i)) <= Len(uint_be(n))}
<1>1. ASSUME NEW n \in Nat, \A k \in 0 .. n - 1 : k \in S
      PROVE  n \in S
  <2> SUFFICES ASSUME NEW i \in Nat, i <= n
               PROVE  Len(uint_be(i)) <= Len(uint_be(n))
    OBVIOUS
  <2>1. {uint_be(i), uint_be(n)} \subseteq Seq(Octets)
    BY BytesOf, Zenon
  <2>2. CASE i = 0
    <3>1. Len(uint_be(i)) = 0
      BY <2>2, BytesOf
    <3> QED BY <2>1, <3>1
  <2>3. CASE i # 0
    <3>1. PICK a \in Nat, b \in Nat : a = i \div 256 /\ b = n \div 256
      BY Divided
    <3>2. a <= b /\ b \in 0 .. n - 1 /\ n # 0
      BY <2>3, <3>1
    <3>3. Len(uint_be(a)) <= Len(uint_be(b))
      BY <1>1, <3>2
    <3>4. uint_be(i) = Append(uint_be(a), Byte(i % 256)) /\ uint_be(n) = Append(uint_be(b), Byte(n % 256))
      BY <2>3, <3>1, <3>2, BytesOf
    <3>5. uint_be(a) \in Seq(Octets) /\ uint_be(b) \in Seq(Octets)
      BY BytesOf
    <3> QED BY <3>3, <3>4, <3>5
  <2> QED BY <2>2, <2>3
<1>2. \A n \in Nat : n \in S
  <2> HIDE DEF S
  <2> QED BY <1>1, Strongly
<1> QED BY <1>2

(* How many bytes a number below 2 ^ 8 or 2 ^ 16 has. *)
LEMMA FewBytes ==
  /\ \A v \in 0 .. 255 : Len(uint_be(v)) <= 1
  /\ \A v \in Nat : v < 256 * 256 => Len(uint_be(v)) <= 2
<1>1. \A v \in Nat \ {0} : Len(uint_be(v)) = Len(uint_be(v \div 256)) + 1
  <2> TAKE v \in Nat \ {0}
  <2>1. PICK a \in Nat : a = v \div 256
    BY Divided
  <2>2. uint_be(a) \in Seq(Octets) /\ uint_be(v) = Append(uint_be(a), Byte(v % 256))
    BY <2>1, BytesOf
  <2>3. Len(uint_be(v)) = Len(uint_be(a)) + 1
    BY <2>2
  <2> QED BY <2>1, <2>3
<1>2. Len(uint_be(0)) = 0
  BY BytesOf
<1>3. \A v \in 0 .. 255 : Len(uint_be(v)) <= 1
  <2> TAKE v \in 0 .. 255
  <2>1. CASE v = 0
    BY <1>2, <2>1
  <2>2. CASE v # 0
    <3>1. v \div 256 = 0 /\ v \in Nat \ {0}
      BY <2>2
    <3>2. Len(uint_be(v)) = Len(uint_be(0)) + 1
      BY <1>1, <3>1
    <3> QED BY <1>2, <3>2
  <2> QED BY <2>1, <2>2
<1>4. ASSUME NEW v \in Nat, v < 256 * 256
      PROVE  Len(uint_be(v)) <= 2
  <2>1. CASE v = 0
    BY <1>2, <2>1
  <2>2. CASE v # 0
    <3>1. PICK a \in 0 .. 255 : a = v \div 256
      BY <1>4
    <3>2. Len(uint_be(a)) <= 1 /\ Len(uint_be(a)) \in Nat
      <4>1. a \in Nat
        OBVIOUS
      <4>2. uint_be(a) \in Seq(Octets)
        BY <4>1, BytesOf
      <4>3. Len(uint_be(a)) <= 1
        BY <1>3
      <4> QED BY <4>2, <4>3
    <3>3. Len(uint_be(v)) = Len(uint_be(a)) + 1
      BY <1>1, <2>2, <3>1
    <3> QED BY <3>2, <3>3
  <2> QED BY <2>1, <2>2
<1> QED BY <1>3, <1>4

(* The bytes of a number are as long as they are many.                       *)
LEMMA OctetsLength ==
  ASSUME NEW b \in Seq(Octets)
  PROVE  Length(b) = Len(b)
<1>1. PICK m \in Nat : m = Len(b) /\ \A n \in 1 .. m : b[n] \in Octets
  OBVIOUS
<1>2. PICK h : h = [n \in 0 .. m |-> n]
  OBVIOUS
<1>3. h[0] = 0 /\ h[m] = m
  BY <1>2
<1>4. \A n \in 1 .. Len(b) : h[n] = h[n - 1] + b[n].len
  <2> TAKE n \in 1 .. Len(b)
  <2>1. b[n].len = 1
    BY <1>1, OctetsArePieces
  <2>2. h[n] = n /\ h[n - 1] = n - 1
    BY <1>1, <1>2
  <2> QED BY <2>1, <2>2
<1>5. Length(b) = h[Len(b)]
  BY <1>3, <1>4, OctetsArePieces, LengthFrom
<1> QED BY <1>1, <1>3, <1>5

(* What is read of bytes is what their sums by places are.                   *)
LEMMA UintSums ==
  ASSUME NEW b \in Seq(Octets)
  PROVE  \E g \in [0 .. Len(b) -> Nat] :
           /\ g[0] = 0 /\ \A n \in 1 .. Len(b) : g[n] = 256 * g[n - 1] + b[n].byte
           /\ Uint(b) = g[Len(b)]
<1>1. PICK m \in Nat : m = Len(b) /\ \A n \in 1 .. m : b[n] \in Octets /\ b[n].byte \in Nat
  <2>1. \A n \in 1 .. Len(b) : b[n] \in Octets
    OBVIOUS
  <2>2. \A n \in 1 .. Len(b) : b[n].byte \in Nat
    <3> TAKE n \in 1 .. Len(b)
    <3>1. b[n].byte \in 0 .. 255
      BY <2>1, OctetsArePieces, Zenon
    <3>2. 0 .. 255 \subseteq Nat
      OBVIOUS
    <3> QED BY <3>1, <3>2, Zenon
  <2> QED BY <2>1, <2>2
<1>0. PICK F : F = [n \in 1 .. m |-> [x \in Nat |-> 256 * x + b[n].byte]]
  OBVIOUS
<1> DEFINE Body(h, n) == IF n = 0 THEN 0 ELSE 256 * h[n - 1] + b[n].byte
           uint == CHOOSE h : h = [n \in 0 .. m |-> Body(h, n)]
<1>2. F \in [1 .. m -> [Nat -> Nat]]
  <2>1. \A n \in 1 .. m : [x \in Nat |-> 256 * x + b[n].byte] \in [Nat -> Nat]
    BY <1>1
  <2> QED BY <1>0, <2>1
<1>3. PICK g \in [0 .. m -> Nat] : g[0] = 0 /\ \A n \in 1 .. m : g[n] = F[n][g[n - 1]]
  <2>1. \E g : IsBy(g, Nat, m, F, 0)
    BY <1>2, Recursion
  <2> QED BY <2>1 DEF IsBy
<1>4. \A n \in 1 .. m : g[n] = 256 * g[n - 1] + b[n].byte
  <2> TAKE n \in 1 .. m
  <2>1. n - 1 \in 0 .. m
    OBVIOUS
  <2>2. g[n - 1] \in Nat /\ g[n] = F[n][g[n - 1]]
    BY <1>3, <2>1
  <2>3. F[n] = [x \in Nat |-> 256 * x + b[n].byte]
    BY <1>0
  <2> QED BY <2>2, <2>3
<1>5. g = [n \in 0 .. m |-> Body(g, n)]
  BY <1>3, <1>4
<1>6. uint = [n \in 0 .. m |-> Body(uint, n)]
  <2> HIDE DEF Body
  <2> QED BY <1>5
<1>7. Uint(b) = uint[m]
  BY <1>1, Zenon DEF Uint
<1> HIDE DEF uint
<1>8. uint[0] = 0 /\ \A n \in 1 .. m : uint[n] = 256 * uint[n - 1] + b[n].byte
  BY <1>6
<1> DEFINE T == {n \in 0 .. m : uint[n] = g[n]}
<1>9. \A n \in 0 .. m : n \in T
  <2>1. 0 \in T
    BY <1>3, <1>8
  <2>2. ASSUME NEW n \in 0 .. m - 1, n \in T PROVE n + 1 \in T
    <3>1. n + 1 \in 1 .. m /\ (n + 1) - 1 = n
      OBVIOUS
    <3>2. uint[n + 1] = 256 * uint[n] + b[n + 1].byte /\ g[n + 1] = 256 * g[n] + b[n + 1].byte
      BY <1>4, <1>8, <3>1
    <3> QED BY <2>2, <3>1, <3>2
  <2> HIDE DEF T
  <2> QED BY <2>1, <2>2, Upward
<1>10. uint[m] = g[m]
  BY <1>9
<1> QED BY <1>1, <1>3, <1>4, <1>7, <1>10

(* Whatever reads bytes from the left, as to_be_bytes wrote them, ends with  *)
(* the number.                                                               *)
LEMMA UintFrom ==
  ASSUME NEW b \in Seq(Octets), NEW h, h[0] = 0,
         \A n \in 1 .. Len(b) : h[n] = 256 * h[n - 1] + b[n].byte
  PROVE  Uint(b) = h[Len(b)]
<1>1. PICK g \in [0 .. Len(b) -> Nat] : /\ g[0] = 0 /\ \A n \in 1 .. Len(b) : g[n] = 256 * g[n - 1] + b[n].byte
                                        /\ Uint(b) = g[Len(b)]
  BY UintSums
<1>2. PICK m \in Nat : m = Len(b)
  OBVIOUS
<1> DEFINE T == {n \in 0 .. m : g[n] = h[n]}
<1>3. 0 \in T
  BY <1>1
<1>4. ASSUME NEW n \in 0 .. m - 1, n \in T PROVE n + 1 \in T
  <2>1. g[n + 1] = 256 * g[n] + b[n + 1].byte /\ h[n + 1] = 256 * h[n] + b[n + 1].byte
    BY <1>1, <1>2
  <2> QED BY <1>4, <2>1
<1>5. \A n \in 0 .. m : n \in T
  <2> HIDE DEF T
  <2> QED BY <1>3, <1>4, Upward
<1> QED BY <1>1, <1>2, <1>5

(* A digit more.                                                             *)
LEMMA UintAppend ==
  /\ Uint(<<>>) = 0
  /\ \A b \in Seq(Octets), p \in Octets : Uint(b) \in Nat /\ Uint(Append(b, p)) = 256 * Uint(b) + p.byte
<1>1. Uint(<<>>) = 0
  <2>1. <<>> \in Seq(Octets) /\ Len(<<>>) = 0
    OBVIOUS
  <2> QED BY <2>1, UintSums, ZenonT(40)
<1>2. ASSUME NEW b \in Seq(Octets), NEW p \in Octets
      PROVE  Uint(b) \in Nat /\ Uint(Append(b, p)) = 256 * Uint(b) + p.byte
  <2>1. PICK g \in [0 .. Len(b) -> Nat] : /\ g[0] = 0 /\ \A n \in 1 .. Len(b) : g[n] = 256 * g[n - 1] + b[n].byte
                                          /\ Uint(b) = g[Len(b)]
    BY UintSums
  <2>2. PICK m \in Nat : m = Len(b)
    OBVIOUS
  <2>3. PICK c : c = Append(b, p)
    OBVIOUS
  <2>4. /\ c \in Seq(Octets) /\ Len(c) = m + 1 /\ c[m + 1] = p
        /\ \A n \in 1 .. m : c[n] = b[n]
    BY <2>2, <2>3
  <2>5. PICK h : h = [n \in 0 .. m + 1 |-> IF n <= m THEN g[n] ELSE 256 * g[m] + p.byte]
    OBVIOUS
  <2>6. ASSUME NEW n \in 1 .. m + 1
        PROVE  h[n] = 256 * h[n - 1] + c[n].byte
    <3>1. CASE n <= m
      <4>1. n \in 1 .. m /\ n - 1 \in 0 .. m + 1 /\ n - 1 <= m
        BY <3>1
      <4>2. h[n] = g[n] /\ h[n - 1] = g[n - 1] /\ c[n] = b[n]
        BY <2>4, <2>5, <4>1
      <4>3. g[n] = 256 * g[n - 1] + b[n].byte
        BY <2>1, <2>2, <4>1
      <4> QED BY <4>2, <4>3
    <3>2. CASE n = m + 1
      <4>1. h[n] = 256 * g[m] + p.byte /\ h[n - 1] = g[m] /\ c[n] = p
        BY <2>4, <2>5, <3>2
      <4> QED BY <4>1
    <3> QED BY <3>1, <3>2
  <2>7. h[0] = 0 /\ h[m + 1] = 256 * g[m] + p.byte
    BY <2>1, <2>5
  <2>8. Uint(c) = h[m + 1]
    BY <2>4, <2>6, <2>7, UintFrom
  <2> QED BY <2>1, <2>2, <2>3, <2>7, <2>8
<1> QED BY <1>1, <1>2

(* A number that was written as bytes is read as it was.                     *)
LEMMA ReadAsWritten ==
  ASSUME NEW v \in Nat
  PROVE  Uint(uint_be(v)) = v
<1> DEFINE S == {n \in Nat : Uint(uint_be(n)) = n}
<1>1. ASSUME NEW n \in Nat, \A k \in 0 .. n - 1 : k \in S
      PROVE  n \in S
  <2>1. CASE n = 0
    BY <2>1, BytesOf, UintAppend
  <2>2. CASE n # 0
    <3>1. PICK a, d : a = n \div 256 /\ d = n % 256
      OBVIOUS
    <3>2. a \in 0 .. n - 1 /\ d \in 0 .. 255 /\ n = 256 * a + d
      BY <2>2, <3>1, Divided
    <3>3. uint_be(n) = Append(uint_be(a), Byte(d)) /\ uint_be(a) \in Seq(Octets)
      <4>1. n \in Nat \ {0} /\ a \in Nat
        BY <2>2, <3>2
      <4>2. uint_be(n) = Append(uint_be(n \div 256), Byte(n % 256))
        BY <4>1, BytesOf, Zenon
      <4>3. uint_be(a) \in Seq(Octets)
        BY <4>1, BytesOf, Zenon
      <4> QED BY <3>1, <4>2, <4>3, Zenon
    <3>4. Byte(d) \in Octets /\ Byte(d).byte = d
      BY <3>2, OctetsArePieces
    <3>5. Uint(uint_be(n)) = 256 * Uint(uint_be(a)) + d
      BY <3>3, <3>4, UintAppend
    <3>6. Uint(uint_be(a)) = a
      BY <1>1, <3>2
    <3> QED BY <3>2, <3>5, <3>6
  <2> QED BY <2>1, <2>2
<1>2. \A n \in Nat : n \in S
  <2> HIDE DEF S
  <2> QED BY <1>1, Strongly
<1> QED BY <1>2

-----------------------------------------------------------------------------
(* One item of RLP.                                                          *)

(* What an item takes off the bytes behind its header. *)
Taken(rest, size) ==
  LET cut == Cut(rest, size)
  IN  IF ~cut.ok THEN cut
      ELSE Success([value |-> SubSeq(rest, 1, cut.value), rest |-> SubSeq(rest, cut.value + 1, Len(rest))])

(* What the first byte says of an item: how long it is, and where it begins.*)
Long(h) == IF h < 192 THEN h - 183 ELSE h - 247
Size(b, h) ==
  IF Long(h) > 0 /\ h \notin 128 .. 183 /\ h \notin 192 .. 247 THEN Uint(SubSeq(b, 2, 1 + Long(h)))
  ELSE IF h >= 192 THEN h - 192 ELSE h - 128
Start(h) == (IF h \in 184 .. 191 \/ h > 247 THEN 1 + Long(h) ELSE 1) + 1

(* The first byte tells what the item is. *)
LEMMA ItemBegins ==
  ASSUME NEW b, NEW h \in 0 .. 255, b[1] = Byte(h)
  PROVE  Item(b) = IF h < 128 THEN Success([value |-> <<b[1]>>, rest |-> Tail(b)])
                   ELSE Taken(SubSeq(b, Start(h), Len(b)), Size(b, h))
<1>1. "byte" \in DOMAIN b[1] /\ b[1].byte = h
  BY DEF Byte
<1>2. Item(b) = IF b[1].byte < 128 THEN Success([value |-> <<b[1]>>, rest |-> Tail(b)])
                ELSE Taken(SubSeq(b, Start(b[1].byte), Len(b)), Size(b, b[1].byte))
  BY <1>1, Zenon DEF Item, Taken, Start, Size, Long
<1> QED BY <1>1, <1>2, Zenon

(* A string below 56 bytes. *)
LEMMA ShortString ==
  ASSUME NEW b, NEW h \in 128 .. 183, b[1] = Byte(h)
  PROVE  Item(b) = Taken(SubSeq(b, 2, Len(b)), h - 128)
<1>1. h \in 0 .. 255 /\ ~(h < 128)
  OBVIOUS
<1>2. Start(h) = 2
  BY DEF Start
<1>3. Size(b, h) = h - 128
  BY DEF Size
<1>4. Item(b) = Taken(SubSeq(b, Start(h), Len(b)), Size(b, h))
  BY <1>1, ItemBegins, Zenon
<1> QED BY <1>2, <1>3, <1>4, Zenon

(* A string from 56 bytes on: the length comes first. *)
LEMMA LongString ==
  ASSUME NEW b, NEW h \in 184 .. 191, b[1] = Byte(h)
  PROVE  Item(b) = Taken(SubSeq(b, h - 181, Len(b)), Uint(SubSeq(b, 2, h - 182)))
<1>1. h \in 0 .. 255 /\ ~(h < 128)
  OBVIOUS
<1>2. Long(h) = h - 183
  BY DEF Long
<1>3. Start(h) = h - 181 /\ 1 + Long(h) = h - 182 /\ Long(h) > 0
  BY <1>2 DEF Start
<1>4. Size(b, h) = Uint(SubSeq(b, 2, 1 + Long(h)))
  BY <1>3 DEF Size
<1>5. Item(b) = Taken(SubSeq(b, Start(h), Len(b)), Size(b, h))
  BY <1>1, ItemBegins, Zenon
<1> QED BY <1>3, <1>4, <1>5, Zenon

(* A list below 56 bytes. *)
LEMMA ShortList ==
  ASSUME NEW b, NEW h \in 192 .. 247, b[1] = Byte(h)
  PROVE  Item(b) = Taken(SubSeq(b, 2, Len(b)), h - 192)
<1>1. h \in 0 .. 255 /\ ~(h < 128)
  OBVIOUS
<1>2. Start(h) = 2
  BY DEF Start
<1>3. Size(b, h) = h - 192
  BY DEF Size
<1>4. Item(b) = Taken(SubSeq(b, Start(h), Len(b)), Size(b, h))
  BY <1>1, ItemBegins, Zenon
<1> QED BY <1>2, <1>3, <1>4, Zenon

(* A list from 56 bytes on. *)
LEMMA LongList ==
  ASSUME NEW b, NEW h \in 248 .. 255, b[1] = Byte(h)
  PROVE  Item(b) = Taken(SubSeq(b, h - 245, Len(b)), Uint(SubSeq(b, 2, h - 246)))
<1>1. h \in 0 .. 255 /\ ~(h < 128)
  OBVIOUS
<1>2. Long(h) = h - 247
  BY DEF Long
<1>3. Start(h) = h - 245 /\ 1 + Long(h) = h - 246 /\ Long(h) > 0
  BY <1>2 DEF Start
<1>4. Size(b, h) = Uint(SubSeq(b, 2, 1 + Long(h)))
  BY <1>3 DEF Size
<1>5. Item(b) = Taken(SubSeq(b, Start(h), Len(b)), Size(b, h))
  BY <1>1, ItemBegins, Zenon
<1> QED BY <1>3, <1>4, <1>5, Zenon

(* As many bytes as the header says are taken, and the rest is left. *)
LEMMA TakenAll ==
  ASSUME NEW S, Pieces(S), NEW x \in Seq(S), NEW t \in Seq(S)
  PROVE  Taken(x \o t, Length(x)) = Success([value |-> x, rest |-> t])
<1>1. Cut(x \o t, Length(x)) = Success(Len(x))
  BY CutAfter
<1>2. Success(Len(x)).ok /\ Success(Len(x)).value = Len(x)
  BY DEF Success
<1>3. Taken(x \o t, Length(x)) = Success([value |-> SubSeq(x \o t, 1, Len(x)),
                                          rest |-> SubSeq(x \o t, Len(x) + 1, Len(x \o t))])
  BY <1>1, <1>2, Zenon DEF Taken
<1>4. SubSeq(x \o t, 1, Len(x)) = x
  OBVIOUS
<1>5. SubSeq(x \o t, Len(x) + 1, Len(x \o t)) = t
  OBVIOUS
<1> QED BY <1>3, <1>4, <1>5, Zenon

(* What is left of three sequences without the first.                        *)
LEMMA Behind ==
  ASSUME NEW S, NEW y \in Seq(S), NEW x \in Seq(S), NEW t \in Seq(S)
  PROVE  SubSeq((y \o x) \o t, Len(y) + 1, Len((y \o x) \o t)) = x \o t
<1>1. PICK z \in Seq(S) : z = x \o t
  <2>1. x \o t \in Seq(S)
    OBVIOUS
  <2> QED BY <2>1, Zenon
<1>2. (y \o x) \o t = y \o z
  BY <1>1
<1>3. SubSeq(y \o z, Len(y) + 1, Len(y \o z)) = z
  OBVIOUS
<1> QED BY <1>1, <1>2, <1>3, Zenon

(* Headers of what is below 2 ^ 16 bytes have three bytes at most. *)
Headers == {h \in Seq(Octets) : Len(h) \in 1 .. 3}

(* The header the encoder writes is one of them. *)
LEMMA HeaderShape ==
  ASSUME NEW n \in Nat, n < 256 * 256, NEW short \in Nat, NEW long \in Nat,
         (short = 128 /\ long = 183) \/ (short = 192 /\ long = 247)
  PROVE  header(short, long, n) \in Headers
<1>1. PICK d : d = uint_be(n)
  OBVIOUS
<1>2. d \in Seq(Octets)
  BY <1>1, BytesOf
<1>3. PICK w \in Nat : w = Len(d)
  BY <1>2
<1>4. w <= 2
  <2>1. Len(uint_be(n)) <= 2
    <3>1. \A v \in Nat : v < 256 * 256 => Len(uint_be(v)) <= 2
      BY FewBytes, Zenon
    <3> QED BY <3>1, Zenon
  <2> QED BY <1>1, <1>3, <2>1
<1>5. CASE n <= 55
  <2>1. PICK h \in 0 .. 255 : h = short + n
    BY <1>5
  <2>2. <<Byte(h)>> \in Seq(Octets) /\ Len(<<Byte(h)>>) = 1
    BY OctetsArePieces
  <2>3. header(short, long, n) = <<Byte(h)>>
    BY <1>5, <2>1, Zenon DEF header
  <2>4. <<Byte(h)>> \in Headers
    BY <2>2 DEF Headers
  <2> QED BY <2>3, <2>4
<1>6. CASE ~(n <= 55)
  <2>1. PICK h \in 0 .. 255 : h = long + w
    BY <1>4
  <2>2. Byte(h) \in Octets
    BY OctetsArePieces
  <2>3. header(short, long, n) = <<Byte(h)>> \o d
    BY <1>1, <1>3, <1>6, <2>1, Zenon DEF header
  <2>4. <<Byte(h)>> \o d \in Headers
    <3>1. <<Byte(h)>> \o d \in Seq(Octets) /\ Len(<<Byte(h)>> \o d) = 1 + w
      BY <1>2, <1>3, <2>2
    <3>2. Len(<<Byte(h)>> \o d) \in 1 .. 3
      BY <1>4, <3>1
    <3> QED BY <3>1, <3>2 DEF Headers
  <2> QED BY <2>3, <2>4
<1> QED BY <1>5, <1>6

(* A header and what is under it are read as that.                           *)
LEMMA Headed ==
  ASSUME NEW S, Pieces(S), Octets \subseteq S, NEW x \in Seq(S), NEW t \in Seq(S),
         Length(x) < 256 * 256,
         NEW short \in Nat, NEW long \in Nat,
         (short = 128 /\ long = 183) \/ (short = 192 /\ long = 247)
  PROVE  Item((header(short, long, Length(x)) \o x) \o t) = Success([value |-> x, rest |-> t])
<1>1. PICK n \in Nat : n = Length(x)
  BY LengthConcat
<1>2. PICK d : d = uint_be(n)
  OBVIOUS
<1>3. d \in Seq(Octets) /\ Uint(d) = n
  BY <1>2, BytesOf, ReadAsWritten
<1>8. PICK w \in Nat : w = Len(d)
  <2>1. d \in Seq(Octets)
    BY <1>3
  <2> QED BY <2>1
<1>9. w <= 2
  <2>1. Len(uint_be(n)) <= 2
    <3>1. \A v \in Nat : v < 256 * 256 => Len(uint_be(v)) <= 2
      BY FewBytes, Zenon
    <3>2. n < 256 * 256
      BY <1>1
    <3> QED BY <3>1, <3>2, Zenon
  <2> QED BY <1>2, <1>8, <2>1
<1>4. \/ short = 128 /\ long = 183
      \/ short = 192 /\ long = 247
  OBVIOUS
<1>5. CASE n <= 55
  <2>1. PICK h \in Nat : h = short + n
    BY <1>4
  <2>0. h \in 0 .. 255
    BY <1>4, <1>5, <2>1
  <2>2. Byte(h) \in Octets
    BY <2>0, OctetsArePieces
  <2>3. PICK b : b = (<<Byte(h)>> \o x) \o t
    OBVIOUS
  <2>4. header(short, long, Length(x)) = <<Byte(h)>>
    BY <1>1, <1>5, <2>1, Zenon DEF header
  <2>5. Byte(h) \in S
    BY <2>2
  <2>6. b \in Seq(S) /\ b[1] = Byte(h) /\ SubSeq(b, 2, Len(b)) = x \o t
    BY <2>3, <2>5
  <2>7. Item(b) = Taken(x \o t, n)
    <3>1. \/ h \in 128 .. 183 /\ h - 128 = n
          \/ h \in 192 .. 247 /\ h - 192 = n
      BY <1>4, <1>5, <2>1
    <3>2. CASE h \in 128 .. 183 /\ h - 128 = n
      <4>2. Item(b) = Taken(SubSeq(b, 2, Len(b)), h - 128)
        BY <2>6, <3>2, ShortString
      <4> QED BY <2>6, <3>2, <4>2, Zenon
    <3>3. CASE h \in 192 .. 247 /\ h - 192 = n
      <4>2. Item(b) = Taken(SubSeq(b, 2, Len(b)), h - 192)
        BY <2>6, <3>3, ShortList, Zenon
      <4> QED BY <2>6, <3>3, <4>2, Zenon
    <3> QED BY <3>1, <3>2, <3>3, Zenon
  <2> QED BY <1>1, <2>3, <2>4, <2>7, TakenAll, Zenon
<1>6. CASE n > 55
  <2>0. w \in 1 .. 2
    <3>1. w # 0
      <4>1. n \in Nat \ {0}
        BY <1>6
      <4>2. PICK a \in Nat : a = n \div 256
        BY <4>1, Divided
      <4>3. d = Append(uint_be(a), Byte(n % 256)) /\ uint_be(a) \in Seq(Octets)
        BY <1>2, <4>1, <4>2, BytesOf, Zenon
      <4>4. Len(d) = Len(uint_be(a)) + 1
        BY <4>3
      <4>5. PICK k \in Nat : k = Len(uint_be(a))
        BY <4>3
      <4> QED BY <1>8, <4>4, <4>5
    <3> QED BY <1>9, <3>1
  <2>1. PICK h \in Nat : h = long + w
    BY <1>4
  <2>11. h \in 0 .. 255
    BY <1>4, <2>0, <2>1
  <2>2. Byte(h) \in Octets
    BY <2>11, OctetsArePieces
  <2>3. PICK b : b = ((<<Byte(h)>> \o d) \o x) \o t
    OBVIOUS
  <2>4. header(short, long, Length(x)) = <<Byte(h)>> \o d
    <3>1. ~(n <= 55)
      BY <1>6
    <3> QED BY <1>1, <1>2, <1>8, <2>1, <3>1, Zenon DEF header
  <2>5. Byte(h) \in S /\ d \in Seq(S)
    <3>1. d \in Seq(Octets)
      BY <1>3
    <3> QED BY <2>2, <3>1
  <2>6. b \in Seq(S) /\ b[1] = Byte(h)
    BY <2>3, <2>5
  <2>7. SubSeq(b, 2, 1 + w) = d
    BY <1>8, <2>3, <2>5
  <2>8. SubSeq(b, 2 + w, Len(b)) = x \o t
    <3>1. PICK y : y = <<Byte(h)>> \o d
      OBVIOUS
    <3>2. y \in Seq(S) /\ Len(y) = 1 + w
      BY <1>8, <2>5, <3>1
    <3>3. SubSeq((y \o x) \o t, Len(y) + 1, Len((y \o x) \o t)) = x \o t
      BY <3>2, Behind, Zenon
    <3>4. Len(y) + 1 = 2 + w
      BY <3>2
    <3> QED BY <2>3, <3>1, <3>3, <3>4, Zenon
  <2>9. Item(b) = Taken(x \o t, n)
    <3>1. \/ h \in 184 .. 191 /\ h - 181 = 2 + w /\ h - 182 = 1 + w
          \/ h \in 248 .. 255 /\ h - 245 = 2 + w /\ h - 246 = 1 + w
      BY <1>4, <2>0, <2>1
    <3>2. CASE h \in 184 .. 191 /\ h - 181 = 2 + w /\ h - 182 = 1 + w
      <4>2. Item(b) = Taken(SubSeq(b, h - 181, Len(b)), Uint(SubSeq(b, 2, h - 182)))
        BY <2>6, <3>2, LongString
      <4> QED BY <1>3, <2>7, <2>8, <3>2, <4>2, Zenon
    <3>3. CASE h \in 248 .. 255 /\ h - 245 = 2 + w /\ h - 246 = 1 + w
      <4>2. Item(b) = Taken(SubSeq(b, h - 245, Len(b)), Uint(SubSeq(b, 2, h - 246)))
        BY <2>6, <3>3, LongList
      <4> QED BY <1>3, <2>7, <2>8, <3>3, <4>2, Zenon
    <3> QED BY <3>1, <3>2, <3>3, Zenon
  <2> QED BY <1>1, <2>3, <2>4, <2>9, TakenAll, Zenon
<1>7. n <= 55 \/ n > 55
  OBVIOUS
<1> QED BY <1>5, <1>6, <1>7, Zenon

(* What is put in, as a string or as a list, comes out, with what is after. *)
Holds(S, item, x) ==
  /\ item \in Seq(S) /\ item # <<>> /\ Length(item) <= Length(x) + 3
  /\ \A t \in Seq(S) : Item(item \o t) = Success([value |-> x, rest |-> t])

(* A header and what it is of are read as one item, whatever follows. *)
LEMMA HeaderThere ==
  ASSUME NEW S, Pieces(S), Octets \subseteq S, NEW x \in Seq(S), Length(x) < 256 * 256,
         NEW short \in Nat, NEW long \in Nat,
         (short = 128 /\ long = 183) \/ (short = 192 /\ long = 247)
  PROVE  Holds(S, header(short, long, Length(x)) \o x, x)
<1>1. PICK h : h = header(short, long, Length(x))
  OBVIOUS
<1>2. h \in Seq(Octets) /\ Len(h) \in 1 .. 3
  <2>1. Length(x) \in Nat
    BY LengthConcat
  <2>2. header(short, long, Length(x)) \in Headers
    BY <2>1, HeaderShape
  <2> QED BY <1>1, <2>2 DEF Headers
<1>3. h \in Seq(S) /\ Length(h) <= 3
  <2>1. h \in Seq(S)
    BY <1>2
  <2>2. Length(h) = Len(h)
    BY <1>2, OctetsLength
  <2> QED BY <1>2, <2>1, <2>2
<1>4. h \o x \in Seq(S) /\ h \o x # <<>>
  BY <1>2, <1>3
<1>5. Length(h \o x) <= Length(x) + 3
  <2>1. Length(h) \in Nat /\ Length(x) \in Nat /\ Length(h \o x) = Length(h) + Length(x)
    BY <1>3, LengthConcat
  <2> QED BY <1>3, <2>1
<1>6. \A t \in Seq(S) : Item((h \o x) \o t) = Success([value |-> x, rest |-> t])
  BY <1>1, Headed
<1> QED BY <1>1, <1>4, <1>5, <1>6 DEF Holds

(* A string is read as it was written. *)
LEMMA StringThere ==
  ASSUME NEW S, Pieces(S), Octets \subseteq S, NEW x \in Seq(S), Length(x) < 256 * 256
  PROVE  Holds(S, encode_str(x), x)
<1>1. CASE Length(x) = 1 /\ x[1] \in {Byte(n) : n \in 0 .. 127}
  <2>1. encode_str(x) = x
    BY <1>1, Zenon DEF encode_str
  <2>2. x = <<x[1]>>
    BY <1>1, LengthZero
  <2>3. PICK h \in 0 .. 127 : x[1] = Byte(h)
    BY <1>1
  <2>4. ASSUME NEW t \in Seq(S)
        PROVE  Item(x \o t) = Success([value |-> x, rest |-> t])
    <3>1. PICK b : b = x \o t
      OBVIOUS
    <3>2. b[1] = x[1] /\ Tail(b) = t
      <4>1. PICK p : p = x[1] /\ x = <<p>> /\ p \in S
        BY <2>2
      <4>2. b = <<p>> \o t
        BY <3>1, <4>1
      <4> QED BY <4>1, <4>2
    <3>3. h \in 0 .. 255 /\ h < 128
      OBVIOUS
    <3>4. Item(b) = Success([value |-> <<b[1]>>, rest |-> Tail(b)])
      BY <2>3, <3>2, <3>3, ItemBegins, Zenon
    <3> QED BY <2>2, <3>1, <3>2, <3>4, Zenon
  <2>5. x # <<>> /\ Length(x) <= Length(x) + 3
    <3>1. PICK n \in Nat : n = Length(x)
      BY LengthConcat
    <3>2. Len(x) = 1
      BY <2>2
    <3>3. Length(x) <= Length(x) + 3
      BY <3>1
    <3>4. x # <<>>
      BY <3>2
    <3> QED BY <3>3, <3>4
  <2> QED BY <2>1, <2>4, <2>5 DEF Holds
<1>2. CASE ~(Length(x) = 1 /\ x[1] \in {Byte(n) : n \in 0 .. 127})
  <2>1. encode_str(x) = header(128, 183, Length(x)) \o x
    BY <1>2, Zenon DEF encode_str
  <2>2. Holds(S, header(128, 183, Length(x)) \o x, x)
    BY HeaderThere
  <2> QED BY <2>1, <2>2
<1> QED BY <1>1, <1>2

(* A list is read as it was written. *)
LEMMA ListThere ==
  ASSUME NEW S, Pieces(S), Octets \subseteq S, NEW x \in Seq(S), Length(x) < 256 * 256
  PROVE  Holds(S, encode_list(x), x)
<1>1. Holds(S, header(192, 247, Length(x)) \o x, x)
  BY HeaderThere
<1> QED BY <1>1 DEF encode_list

-----------------------------------------------------------------------------
(* What is joined, from the first on.                                        *)

(* The first parts joined, the first two, and so on. *)
Joining(g, S, m, E) ==
  /\ g \in [0 .. m -> Seq(S)] /\ g[0] = <<>>
  /\ \A n \in 1 .. m : g[n] = g[n - 1] \o E[n]

(* Parts can be joined one after the other. *)
LEMMA JoiningThere ==
  ASSUME NEW S, NEW m \in Nat, NEW E, \A n \in 1 .. m : E[n] \in Seq(S)
  PROVE  \E g : Joining(g, S, m, E)
<1>1. PICK F : F = [n \in 1 .. m |-> [x \in Seq(S) |-> x \o E[n]]]
  OBVIOUS
<1>2. F \in [1 .. m -> [Seq(S) -> Seq(S)]]
  <2>1. \A n \in 1 .. m : [x \in Seq(S) |-> x \o E[n]] \in [Seq(S) -> Seq(S)]
    OBVIOUS
  <2> QED BY <1>1, <2>1
<1>3. <<>> \in Seq(S)
  OBVIOUS
<1>4. PICK g : IsBy(g, Seq(S), m, F, <<>>)
  BY <1>2, <1>3, Recursion
<1>5. ASSUME NEW n \in 1 .. m
      PROVE  g[n] = g[n - 1] \o E[n]
  <2>1. g[n - 1] \in Seq(S) /\ g[n] = F[n][g[n - 1]]
    BY <1>4 DEF IsBy
  <2>2. F[n] = [x \in Seq(S) |-> x \o E[n]]
    BY <1>1
  <2> QED BY <2>1, <2>2
<1> QED BY <1>4, <1>5 DEF IsBy, Joining

(* FlattenSeq joins all parts. *)
LEMMA FlattenJoins ==
  ASSUME NEW S, NEW E \in Seq(Seq(S)), E # <<>>, NEW g, Joining(g, S, Len(E), E)
  PROVE  FlattenSeq(E) = g[Len(E)]
<1>1. PICK m \in Nat \ {0} : m = Len(E) /\ \A n \in 1 .. m : E[n] \in Seq(S)
  OBVIOUS
<1> DEFINE Body(h, n) == IF n = 1 THEN E[n] ELSE h[n - 1] \o E[n]
           flatten == CHOOSE h : h = [n \in 1 .. m |-> Body(h, n)]
<1>2. PICK f : f = [n \in 1 .. m |-> g[n]]
  OBVIOUS
<1>3. f = [n \in 1 .. m |-> Body(f, n)]
  <2>1. \A n \in 1 .. m : f[n] = Body(f, n)
    <3> TAKE n \in 1 .. m
    <3>1. f[n] = g[n] /\ g[n] = g[n - 1] \o E[n]
      BY <1>1, <1>2 DEF Joining
    <3>2. CASE n = 1
      <4>1. g[n - 1] = <<>> /\ E[n] \in Seq(S)
        BY <1>1, <3>2 DEF Joining
      <4>2. <<>> \o E[n] = E[n]
        BY <4>1
      <4> QED BY <3>1, <3>2, <4>1, <4>2
    <3>3. CASE n # 1
      <4>1. f[n - 1] = g[n - 1]
        BY <1>2, <3>3
      <4> QED BY <3>1, <3>3, <4>1
    <3> QED BY <3>2, <3>3
  <2> HIDE DEF Body
  <2> QED BY <1>2, <2>1
<1>4. flatten = [n \in 1 .. m |-> Body(flatten, n)]
  <2> HIDE DEF Body
  <2> QED BY <1>3
<1>5. FlattenSeq(E) = flatten[m]
  <2>1. m # 0
    OBVIOUS
  <2> QED BY <1>1, <2>1, Zenon DEF FlattenSeq
<1> HIDE DEF flatten
<1>6. \A n \in 1 .. m : flatten[n] = Body(flatten, n)
  <2> HIDE DEF Body
  <2> QED BY <1>4
<1> DEFINE T == {n \in 0 .. m : n # 0 => flatten[n] = g[n]}
<1>7. ASSUME NEW n \in 0 .. m - 1, n \in T PROVE n + 1 \in T
  <2>1. n + 1 \in 1 .. m /\ (n + 1) - 1 = n
    OBVIOUS
  <2>2. flatten[n + 1] = Body(flatten, n + 1) /\ g[n + 1] = g[n] \o E[n + 1]
    BY <1>1, <1>6, <2>1 DEF Joining
  <2>3. CASE n = 0
    <3>1. g[n] = <<>> /\ E[n + 1] \in Seq(S)
      BY <1>1, <2>1, <2>3 DEF Joining
    <3>2. <<>> \o E[n + 1] = E[n + 1]
      BY <3>1
    <3>3. flatten[n + 1] = E[n + 1]
      BY <2>2, <2>3
    <3>4. flatten[n + 1] = g[n + 1]
      BY <2>2, <3>1, <3>2, <3>3
    <3> QED BY <3>4
  <2>4. CASE n # 0
    <3>1. flatten[n] = g[n]
      BY <1>7, <2>4
    <3>2. flatten[n + 1] = flatten[(n + 1) - 1] \o E[n + 1]
      <4>1. n + 1 # 1
        BY <2>4
      <4> QED BY <2>2, <4>1
    <3>3. flatten[n + 1] = g[n + 1]
      BY <2>1, <2>2, <3>1, <3>2
    <3> QED BY <3>3
  <2> QED BY <2>3, <2>4
<1>8. \A n \in 0 .. m : n \in T
  <2>1. 0 \in T
    OBVIOUS
  <2> HIDE DEF T
  <2> QED BY <1>7, <2>1, Upward
<1>9. flatten[m] = g[m]
  BY <1>8
<1> QED BY <1>1, <1>5, <1>9

(* What is left of what was joined, as the parts are taken off in front.     *)
Leaving(r, S, m, E, all) ==
  /\ r \in [0 .. m -> Seq(S)] /\ r[0] = all /\ r[m] = <<>>
  /\ \A n \in 1 .. m : r[n - 1] = E[n] \o r[n]

(* What is left after the first parts, after the first two, and so on. *)
LEMMA LeavingThere ==
  ASSUME NEW S, NEW m \in Nat, NEW E, \A n \in 1 .. m : E[n] \in Seq(S), NEW g, Joining(g, S, m, E)
  PROVE  \E r : Leaving(r, S, m, E, g[m])
<1> DEFINE T == {k \in 0 .. m : \E r : Leaving(r, S, k, E, g[k])}
<1>1. 0 \in T
  <2>1. PICK r : r = [n \in 0 .. 0 |-> <<>>]
    OBVIOUS
  <2>2. Leaving(r, S, 0, E, g[0])
    BY <2>1 DEF Leaving, Joining
  <2> QED BY <2>2
<1>2. ASSUME NEW k \in 0 .. m - 1, k \in T PROVE k + 1 \in T
  <2>1. PICK r : Leaving(r, S, k, E, g[k])
    BY <1>2
  <2>2. PICK e \in Seq(S) : e = E[k + 1]
    OBVIOUS
  <2>3. g[k + 1] = g[k] \o e
    <3>1. k + 1 \in 1 .. m /\ (k + 1) - 1 = k
      OBVIOUS
    <3> QED BY <2>2, <3>1 DEF Joining
  <2>4. PICK s : s = [n \in 0 .. k + 1 |-> IF n = k + 1 THEN <<>> ELSE r[n] \o e]
    OBVIOUS
  <2>5. ASSUME NEW n \in 0 .. k
        PROVE  r[n] \in Seq(S) /\ s[n] = r[n] \o e
    <3>1. r \in [0 .. k -> Seq(S)]
      BY <2>1 DEF Leaving
    <3>2. n \in 0 .. k + 1 /\ n # k + 1
      OBVIOUS
    <3>3. s[n] = r[n] \o e
      BY <2>4, <3>2, Zenon
    <3> QED BY <3>1, <3>3
  <2>6. s \in [0 .. k + 1 -> Seq(S)] /\ s[k + 1] = <<>>
    <3>1. \A n \in 0 .. k : r[n] \o e \in Seq(S)
      BY <2>5
    <3>2. \A n \in 0 .. k + 1 : n # k + 1 => n \in 0 .. k
      OBVIOUS
    <3> QED BY <2>4, <3>1, <3>2
  <2>7. s[0] = g[k + 1]
    <3>1. 0 \in 0 .. k
      OBVIOUS
    <3>2. r[0] = g[k]
      BY <2>1 DEF Leaving
    <3> QED BY <2>3, <2>5, <3>1, <3>2
  <2>8. ASSUME NEW n \in 1 .. k + 1
        PROVE  s[n - 1] = E[n] \o s[n]
    <3>1. CASE n = k + 1
      <4>1. k \in 0 .. k /\ n - 1 = k
        BY <3>1
      <4>2. s[k] = r[k] \o e
        BY <2>5, <4>1, Zenon
      <4>3. r[k] = <<>>
        BY <2>1 DEF Leaving
      <4>4. <<>> \o e = e /\ e \o <<>> = e
        OBVIOUS
      <4> QED BY <2>2, <2>6, <3>1, <4>1, <4>2, <4>3, <4>4, Zenon
    <3>2. CASE n # k + 1
      <4>1. n \in 1 .. k /\ n \in 0 .. k /\ n - 1 \in 0 .. k /\ n \in 1 .. m
        BY <3>2
      <4>2. PICK d \in Seq(S), u \in Seq(S), v \in Seq(S) : d = E[n] /\ u = r[n] /\ v = r[n - 1]
        BY <2>5, <4>1
      <4>3. v = d \o u
        BY <2>1, <4>1, <4>2 DEF Leaving
      <4>4. (d \o u) \o e = d \o (u \o e)
        BY ConcatAssociative
      <4>5. s[n - 1] = v \o e /\ s[n] = u \o e
        BY <2>5, <4>1, <4>2
      <4> QED BY <4>2, <4>3, <4>4, <4>5
    <3> QED BY <3>1, <3>2
  <2>9. Leaving(s, S, k + 1, E, g[k + 1])
    BY <2>6, <2>7, <2>8 DEF Leaving
  <2> QED BY <2>9
<1>3. \A k \in 0 .. m : k \in T
  <2> HIDE DEF T
  <2> QED BY <1>1, <1>2, Upward
<1> QED BY <1>3

(* The length of all parts is bounded if that of each is. *)
LEMMA JoinedLength ==
  ASSUME NEW S, Pieces(S), NEW m \in Nat, NEW E, NEW w \in Nat,
         \A n \in 1 .. m : E[n] \in Seq(S) /\ Length(E[n]) <= w, NEW g, Joining(g, S, m, E)
  PROVE  Length(g[m]) <= m * w
<1> DEFINE T == {k \in 0 .. m : Length(g[k]) <= k * w}
<1>1. 0 \in T
  <2>1. Length(g[0]) = 0
    BY LengthSmall DEF Joining
  <2> QED BY <2>1
<1>2. ASSUME NEW k \in 0 .. m - 1, k \in T PROVE k + 1 \in T
  <2>1. k + 1 \in 1 .. m /\ (k + 1) - 1 = k
    OBVIOUS
  <2>2. g[k + 1] = g[k] \o E[k + 1] /\ g[k] \in Seq(S) /\ E[k + 1] \in Seq(S)
    <3>1. g \in [0 .. m -> Seq(S)] /\ k \in 0 .. m
      BY DEF Joining
    <3>2. g[k + 1] = g[(k + 1) - 1] \o E[k + 1]
      BY <2>1, Zenon DEF Joining
    <3> QED BY <2>1, <3>1, <3>2
  <2>3. PICK a \in Nat, b \in Nat : a = Length(g[k]) /\ b = Length(E[k + 1]) /\ Length(g[k + 1]) = a + b
    BY <2>2, LengthConcat
  <2>4. PICK c \in Nat : c = k * w
    OBVIOUS
  <2>5. a <= c
    BY <1>2, <2>3, <2>4
  <2>6. b <= w
    BY <2>1, <2>3
  <2>7. (k + 1) * w = c + w
    BY <2>4
  <2>8. Length(g[k + 1]) <= (k + 1) * w
    BY <2>3, <2>5, <2>6, <2>7
  <2> QED BY <2>8
<1>3. \A k \in 0 .. m : k \in T
  <2> HIDE DEF T
  <2> QED BY <1>1, <1>2, Upward
<1> QED BY <1>3

-----------------------------------------------------------------------------
(* The fields of a transaction, read one after the other.                    *)
LEMMA FieldsAsWritten ==
  ASSUME NEW S, Pieces(S), Octets \subseteq S, NEW x, x \in Seq(Seq(S)), Len(x) = 12,
         NEW E, \A n \in 1 .. 12 : Holds(S, E[n], x[n]), NEW g, Joining(g, S, 12, E),
         Length(g[12]) < 256 * 256
  PROVE  Fields(<<Byte(2)>> \o encode_list(g[12])) = Success(x)
<1>1. PICK r : Leaving(r, S, 12, E, g[12])
  <2>1. \A n \in 1 .. 12 : E[n] \in Seq(S)
    BY DEF Holds
  <2> QED BY <2>1, LeavingThere
<1>2. PICK all : all = g[12] /\ all \in Seq(S)
  BY DEF Joining
<1>3. PICK raw : raw = <<Byte(2)>> \o encode_list(all)
  OBVIOUS
<1>4. Holds(S, encode_list(all), all)
  BY <1>2, ListThere
<1>5. raw[1] = Byte(2) /\ Tail(raw) = encode_list(all)
  <2>1. PICK e \in Seq(S) : e = encode_list(all)
    BY <1>4 DEF Holds
  <2>2. Byte(2) \in S
    BY OctetsArePieces
  <2>3. raw = <<Byte(2)>> \o e
    BY <1>3, <2>1
  <2>4. raw[1] = Byte(2) /\ Tail(raw) = e
    BY <2>2, <2>3
  <2> QED BY <2>1, <2>4
<1>6. Item(encode_list(all)) = Success([value |-> all, rest |-> <<>>])
  <2>1. <<>> \in Seq(S) /\ encode_list(all) \o <<>> = encode_list(all)
    BY <1>4 DEF Holds
  <2> QED BY <1>4, <2>1 DEF Holds
<1> DEFINE Found(n) == Success([rest |-> r[n], items |-> SubSeq(x, 1, n)])
           After(acc) ==
             IF ~acc.ok \/ acc.value.rest = <<>> THEN Failure("fields")
             ELSE LET it == Item(acc.value.rest)
                  IN  IF ~it.ok THEN it
                      ELSE Success([rest |-> it.value.rest, items |-> Append(acc.value.items, it.value.value)])
           list == Item(Tail(raw))
           Body(h, n) == IF n = 0 THEN Success([rest |-> list.value.value, items |-> <<>>]) ELSE After(h[n - 1])
           read == CHOOSE h : h = [n \in 0 .. 12 |-> Body(h, n)]
<1>7. Found(0) = Success([rest |-> list.value.value, items |-> <<>>])
  <2>1. list.value.value = all
    <3>1. list = Success([value |-> all, rest |-> <<>>])
      BY <1>5, <1>6
    <3>2. list.value = [value |-> all, rest |-> <<>>]
      BY <3>1, Results, Zenon
    <3> HIDE DEF list
    <3> QED BY <3>2
  <2>2. r[0] = all
    BY <1>1, <1>2 DEF Leaving
  <2>3. SubSeq(x, 1, 0) = <<>>
    OBVIOUS
  <2> QED BY <2>1, <2>2, <2>3, Zenon
<1>8. ASSUME NEW n \in 1 .. 12
      PROVE  After(Found(n - 1)) = Found(n)
  <2>1. r[n - 1] = E[n] \o r[n] /\ r[n] \in Seq(S)
    <3>1. r \in [0 .. 12 -> Seq(S)] /\ n \in 0 .. 12
      BY <1>1 DEF Leaving
    <3>2. r[n - 1] = E[n] \o r[n]
      BY <1>1, Zenon DEF Leaving
    <3> QED BY <3>1, <3>2
  <2>2. r[n - 1] # <<>>
    <3>1. E[n] \in Seq(S) /\ E[n] # <<>>
      BY DEF Holds
    <3> QED BY <2>1, <3>1
  <2>3. Item(r[n - 1]) = Success([value |-> x[n], rest |-> r[n]])
    <3>1. Holds(S, E[n], x[n])
      OBVIOUS
    <3> QED BY <2>1, <3>1 DEF Holds
  <2>4. Append(SubSeq(x, 1, n - 1), x[n]) = SubSeq(x, 1, n)
    OBVIOUS
  <2>5. /\ Found(n - 1).ok = TRUE /\ Found(n - 1).value.rest = r[n - 1]
        /\ Found(n - 1).value.items = SubSeq(x, 1, n - 1)
        /\ Item(r[n - 1]).ok = TRUE /\ Item(r[n - 1]).value.rest = r[n] /\ Item(r[n - 1]).value.value = x[n]
    <3>1. Found(n - 1).ok = TRUE /\ Found(n - 1).value = [rest |-> r[n - 1], items |-> SubSeq(x, 1, n - 1)]
      BY Results, Zenon
    <3>2. Item(r[n - 1]).ok = TRUE /\ Item(r[n - 1]).value = [value |-> x[n], rest |-> r[n]]
      BY <2>3, Results, Zenon
    <3> HIDE DEF Found
    <3>4. Found(n - 1).value.rest = r[n - 1] /\ Found(n - 1).value.items = SubSeq(x, 1, n - 1)
      <4>1. PICK c, u, y : c = Found(n - 1).value /\ u = r[n - 1] /\ y = SubSeq(x, 1, n - 1)
        OBVIOUS
      <4>2. c = [rest |-> u, items |-> y]
        BY <3>1, <4>1, Zenon
      <4>3. c.rest = u /\ c.items = y
        BY <4>2
      <4> QED BY <4>1, <4>3, Zenon
    <3>5. Item(r[n - 1]).value.rest = r[n] /\ Item(r[n - 1]).value.value = x[n]
      BY <3>2
    <3>6. Found(n - 1).ok = TRUE /\ Item(r[n - 1]).ok = TRUE
      BY <3>1, <3>2
    <3> QED BY <3>4, <3>5, <3>6
  <2> HIDE DEF Found
  <2>6. After(Found(n - 1)) = Success([rest |-> Item(r[n - 1]).value.rest,
                                       items |-> Append(SubSeq(x, 1, n - 1), Item(r[n - 1]).value.value)])
    BY <2>2, <2>5, Zenon
  <2> USE DEF Found
  <2> QED BY <2>4, <2>5, <2>6, Zenon
<1>9. PICK f : f = [n \in 0 .. 12 |-> Found(n)]
  OBVIOUS
<1> HIDE DEF Found, After, list
<1>10. f = [n \in 0 .. 12 |-> Body(f, n)]
  <2>1. ASSUME NEW n \in 0 .. 12
        PROVE  f[n] = Body(f, n)
    <3>1. f[n] = Found(n)
      BY <1>9
    <3>2. CASE n = 0
      BY <1>7, <3>1, <3>2
    <3>3. CASE n # 0
      <4>1. f[n - 1] = Found(n - 1) /\ n \in 1 .. 12
        BY <1>9, <3>3
      <4> QED BY <1>8, <3>1, <3>3, <4>1
    <3> QED BY <3>2, <3>3
  <2> HIDE DEF Body
  <2> QED BY <1>9, <2>1
<1>11. read = [n \in 0 .. 12 |-> Body(read, n)]
  <2> HIDE DEF Body
  <2> QED BY <1>10
<1>12. Fields(raw) = IF raw[1] # Byte(2) \/ ~list.ok \/ list.value.rest # <<>> THEN Failure("envelope")
                     ELSE IF read[12].ok /\ read[12].value.rest = <<>> THEN Success(read[12].value.items)
                     ELSE Failure("fields")
  BY Zenon DEF Fields, list, After
<1> HIDE DEF read
<1>13. \A n \in 0 .. 12 : read[n] = Body(read, n)
  <2> HIDE DEF Body
  <2> QED BY <1>11
<1> DEFINE T == {n \in 0 .. 12 : read[n] = Found(n)}
<1>14. \A n \in 0 .. 12 : n \in T
  <2>1. 0 \in T
    <3>1. read[0] = Body(read, 0)
      BY <1>13
    <3> QED BY <1>7, <3>1
  <2>2. ASSUME NEW n \in 0 .. 12 - 1, n \in T PROVE n + 1 \in T
    <3>1. n + 1 \in 1 .. 12 /\ n + 1 \in 0 .. 12 /\ (n + 1) - 1 = n /\ n + 1 # 0
      OBVIOUS
    <3>2. read[n + 1] = Body(read, n + 1)
      BY <1>13, <3>1, Zenon
    <3>3. read[n + 1] = After(read[n])
      BY <3>1, <3>2
    <3>4. After(Found(n)) = Found(n + 1)
      <4>1. After(Found((n + 1) - 1)) = Found(n + 1)
        BY <1>8, <3>1, Zenon
      <4> QED BY <3>1, <4>1, Zenon
    <3> QED BY <2>2, <3>1, <3>3, <3>4
  <2> HIDE DEF T
  <2> QED BY <2>1, <2>2, Upward
<1>15. read[12] = Found(12)
  BY <1>14
<1>16. r[12] = <<>> /\ SubSeq(x, 1, 12) = x
  BY <1>1 DEF Leaving
<1>17. read[12].ok = TRUE /\ read[12].value.rest = <<>> /\ read[12].value.items = x
  <2>1. read[12].ok = TRUE /\ read[12].value = [rest |-> r[12], items |-> SubSeq(x, 1, 12)]
    BY <1>15, Results, Zenon DEF Found
  <2> QED BY <1>16, <2>1
<1>18. list.ok = TRUE /\ list.value.rest = <<>>
  <2>1. list = Success([value |-> all, rest |-> <<>>])
    BY <1>5, <1>6, Zenon DEF list
  <2>2. list.ok = TRUE /\ list.value = [value |-> all, rest |-> <<>>]
    BY <2>1, Results, Zenon
  <2> QED BY <2>2
<1>19. Fields(raw) = Success(x)
  BY <1>5, <1>12, <1>17, <1>18, Zenon
<1> QED BY <1>2, <1>3, <1>19, Zenon

-----------------------------------------------------------------------------
(* The call of the deposit contract. *)

(* How long the arguments are, up to each.                                   *)
Sums == <<0, 32, 64, 96, 128, 160, 208, 224, 256, 288, 320, 416>>
Arguments(e) ==
  <<put_uint256(128), put_uint256(224), put_uint256(288),
    Blob(e.deposit_data_root, 32),
    put_uint256(48), Blob(e.pubkey, 48), Padding(16),
    put_uint256(32), Blob(e.withdrawal_credentials, 32),
    put_uint256(96), Blob(e.signature, 96)>>
CallPieces(e) == {DEPOSIT_SELECTOR} \cup {Arguments(e)[n] : n \in 1 .. 11}

(* The arguments of a deposit call begin where those before them end. *)
LEMMA ArgumentSizes ==
  ASSUME NEW e
  PROVE  /\ \A n \in 1 .. 11 : Sums[n + 1] = Sums[n] + Arguments(e)[n].len
         /\ \A n \in 1 .. 11 : Arguments(e)[n].len \in Nat \ {0}
         /\ Len(Arguments(e)) = 11 /\ Arguments(e) \in Seq(CallPieces(e)) /\ Pieces(CallPieces(e))
<1>1. PICK a : a = Arguments(e)
  OBVIOUS
<1>2. /\ a[1].len = 32 /\ a[2].len = 32 /\ a[3].len = 32 /\ a[4].len = 32 /\ a[5].len = 32 /\ a[6].len = 48
      /\ a[7].len = 16 /\ a[8].len = 32 /\ a[9].len = 32 /\ a[10].len = 32 /\ a[11].len = 96
  BY <1>1 DEF Arguments, put_uint256, Blob, Padding
<1>3. \A n \in 1 .. 11 : a[n].len \in Nat \ {0}
  BY <1>2
<1>4. \A n \in 1 .. 11 : Sums[n + 1] = Sums[n] + a[n].len
  <2> TAKE n \in 1 .. 11
  <2>1. n \in {1, 2, 3, 4, 5, 6, 7, 8, 9, 10, 11}
    OBVIOUS
  <2> QED BY <1>2, <2>1 DEF Sums
<1>5. Len(a) = 11 /\ a \in Seq(CallPieces(e))
  <2>1. Len(a) = 11
    BY <1>1 DEF Arguments
  <2>2. \A n \in 1 .. 11 : a[n] \in CallPieces(e)
    BY <1>1 DEF CallPieces
  <2>3. a = [n \in 1 .. 11 |-> a[n]]
    BY <1>1 DEF Arguments
  <2>4. PICK S : S = CallPieces(e)
    OBVIOUS
  <2>5. a \in [1 .. 11 -> S]
    BY <2>2, <2>3, <2>4, Zenon
  <2>6. a \in Seq(S)
    <3>1. Seq(S) = UNION {[1 .. n -> S] : n \in Nat}
      BY SeqDef, Zenon
    <3>2. 11 \in Nat
      OBVIOUS
    <3> QED BY <2>5, <3>1, <3>2, Zenon
  <2> QED BY <2>1, <2>4, <2>6
<1>6. Pieces(CallPieces(e))
  <2>1. DEPOSIT_SELECTOR.len \in Nat \ {0}
    BY DEF DEPOSIT_SELECTOR, Blob
  <2> QED BY <1>1, <1>3, <2>1 DEF Pieces, CallPieces
<1> QED BY <1>1, <1>3, <1>4, <1>5, <1>6

(* What a bytes argument holds is at its offset.                             *)
LEMMA ArgumentAt ==
  ASSUME NEW e, NEW head \in 1 .. 3, NEW j \in {5, 8, 10}, Arguments(e)[head].uint = Sums[j],
         NEW n, NEW v, Arguments(e)[j] = put_uint256(n), Arguments(e)[j + 1] = Blob(v, n)
  PROVE  BytesAt(Arguments(e), head) = Success(v)
<1>1. PICK S : S = CallPieces(e)
  OBVIOUS
<1>2. PICK a \in Seq(S) : a = Arguments(e)
  BY <1>1, ArgumentSizes
<1>3. Pieces(S) /\ Len(a) = 11
  BY <1>1, <1>2, ArgumentSizes
<1>4. \A k \in 1 .. 11 : Sums[k + 1] = Sums[k] + a[k].len
  BY <1>2, ArgumentSizes
<1>5. Length(SubSeq(a, 1, j - 1)) = Sums[j]
  <2>1. PICK b \in Seq(S) : b = SubSeq(a, 1, j - 1) /\ Len(b) = j - 1 /\ \A k \in 1 .. j - 1 : b[k] = a[k]
    <3>3. 1 \in 1 .. Len(a) + 1 /\ j - 1 \in 1 - 1 .. Len(a)
      BY <1>3
    <3>1. SubSeq(a, 1, j - 1) \in Seq(S)
      BY <3>3, SubSeqProperties
    <3>2. Len(SubSeq(a, 1, j - 1)) = j - 1 /\ \A k \in 1 .. j - 1 : SubSeq(a, 1, j - 1)[k] = a[k]
      BY <1>3
    <3> QED BY <3>1, <3>2, Zenon
  <2>2. PICK h : h = [k \in 0 .. 11 |-> Sums[k + 1]]
    OBVIOUS
  <2>3. h[0] = 0
    BY <2>2 DEF Sums
  <2>4. \A k \in 1 .. Len(b) : h[k] = h[k - 1] + b[k].len
    <3> TAKE k \in 1 .. Len(b)
    <3>4. PICK m \in 0 .. 11 : m = Len(b)
      BY ONLY <2>1, j \in {5, 8, 10}
    <3>5. k \in 1 .. m
      BY <3>4, Zenon
    <3>1. k \in 1 .. 11 /\ k \in 0 .. 11 /\ k - 1 \in 0 .. 11 /\ (k - 1) + 1 = k
      BY <3>5
    <3>2. h[k] = Sums[k + 1] /\ h[k - 1] = Sums[k]
      BY <2>2, <3>1
    <3>3. Sums[k + 1] = Sums[k] + a[k].len /\ b[k] = a[k]
      BY <1>4, <2>1, <3>1
    <3> QED BY ONLY <3>2, <3>3, Zenon
  <2>5. Length(b) = h[Len(b)]
    BY <1>3, <2>3, <2>4, LengthFrom
  <2>6. h[j - 1] = Sums[j]
    <3>1. j - 1 \in 0 .. 11 /\ (j - 1) + 1 = j
      OBVIOUS
    <3> QED BY <2>2, <3>1
  <2> QED BY <2>1, <2>5, <2>6
<1>6. PICK at : at = From(a, a[head].uint)
  OBVIOUS
<1>7. at = SubSeq(a, j, 11)
  <2>1. j \in 1 .. Len(a) + 1
    BY <1>3
  <2>2. From(a, Sums[j]) = SubSeq(a, j, Len(a))
    BY <1>3, <1>5, <2>1, FromAfter
  <2> QED BY <1>2, <1>3, <1>6, <2>2
<1>8. at # <<>> /\ Len(at) > 1 /\ at[1] = a[j] /\ at[2] = a[j + 1]
  <2>1. PICK k \in Nat : k = Len(a) /\ k = 11
    BY <1>3
  <2>2. Len(SubSeq(a, j, k)) = k - j + 1 /\ SubSeq(a, j, k)[1] = a[j] /\ SubSeq(a, j, k)[2] = a[j + 1]
    BY <2>1
  <2>3. Len(at) = k - j + 1 /\ at[1] = a[j] /\ at[2] = a[j + 1]
    BY <1>7, <2>1, <2>2, Zenon
  <2>4. Len(<<>>) = 0
    OBVIOUS
  <2>5. Len(at) > 1 /\ Len(at) # 0
    BY <2>1, <2>3
  <2> QED BY <2>3, <2>4, <2>5, Zenon
<1>9. "uint" \in DOMAIN at[1] /\ at[1].uint = n /\ at[2].len = n /\ at[2].blob = v
  BY <1>2, <1>8 DEF put_uint256, Blob
<1>10. BytesAt(a, head) = IF at # <<>> /\ "uint" \in DOMAIN at[1] /\ Len(at) > 1 /\ at[2].len = at[1].uint
                          THEN Success(at[2].blob) ELSE Failure("abi")
  BY <1>6, Zenon DEF BytesAt
<1> QED BY <1>2, <1>8, <1>9, <1>10

(* The contract reads from the call the arguments of the entry: pack_deposit *)
(* lays out what a decoder of the ABI expects, 420 bytes in all.             *)
LEMMA CallOfDeposit ==
  ASSUME NEW e
  PROVE  /\ Call(pack_deposit(e)) =
              Success([pubkey |-> e.pubkey, withdrawal_credentials |-> e.withdrawal_credentials,
                       signature |-> e.signature, deposit_data_root |-> e.deposit_data_root])
         /\ pack_deposit(e) \in Seq(CallPieces(e)) /\ Length(pack_deposit(e)) = 420
<1>1. PICK S : S = CallPieces(e)
  OBVIOUS
<1>2. PICK a \in Seq(S) : a = Arguments(e)
  BY <1>1, ArgumentSizes
<1>3. DEPOSIT_SELECTOR \in S /\ Pieces(S) /\ Len(a) = 11
  BY <1>1, <1>2, ArgumentSizes DEF CallPieces
<1>4. pack_deposit(e) = <<DEPOSIT_SELECTOR>> \o a
  BY <1>2 DEF pack_deposit, Arguments
<1>5. PICK data : data = pack_deposit(e)
  OBVIOUS
<1>6. data \in Seq(S) /\ data # <<>> /\ Tail(data) = a
  <2>1. \A x \in Seq(S), d \in S : <<d>> \o x \in Seq(S) /\ <<d>> \o x # <<>> /\ Tail(<<d>> \o x) = x
    OBVIOUS
  <2> QED BY <1>3, <1>4, <1>5, <2>1, Zenon
<1>7. a[1].uint = 128 /\ a[2].uint = 224 /\ a[3].uint = 288 /\ a[4].blob = e.deposit_data_root
  BY <1>2 DEF Arguments, put_uint256, Blob
<1>8. /\ a[5] = put_uint256(48) /\ a[6] = Blob(e.pubkey, 48)
      /\ a[8] = put_uint256(32) /\ a[9] = Blob(e.withdrawal_credentials, 32)
      /\ a[10] = put_uint256(96) /\ a[11] = Blob(e.signature, 96)
  BY <1>2 DEF Arguments
<1>9. Sums[5] = 128 /\ Sums[8] = 224 /\ Sums[10] = 288
  BY DEF Sums
<1>10. 5 + 1 = 6 /\ 8 + 1 = 9 /\ 10 + 1 = 11
  OBVIOUS
<1>11. BytesAt(a, 1) = Success(e.pubkey)
  <2>1. 1 \in 1 .. 3 /\ 5 \in {5, 8, 10} /\ Arguments(e)[1].uint = Sums[5]
    BY <1>2, <1>7, <1>9
  <2>2. Arguments(e)[5] = put_uint256(48) /\ Arguments(e)[5 + 1] = Blob(e.pubkey, 48)
    BY <1>2, <1>8, <1>10
  <2>3. BytesAt(Arguments(e), 1) = Success(e.pubkey)
    BY <2>1, <2>2, ArgumentAt, SMT
  <2> QED BY <1>2, <2>3, Zenon
<1>12. BytesAt(a, 2) = Success(e.withdrawal_credentials)
  <2>1. 2 \in 1 .. 3 /\ 8 \in {5, 8, 10} /\ Arguments(e)[2].uint = Sums[8]
    BY <1>2, <1>7, <1>9
  <2>2. Arguments(e)[8] = put_uint256(32) /\ Arguments(e)[8 + 1] = Blob(e.withdrawal_credentials, 32)
    BY <1>2, <1>8, <1>10
  <2>3. BytesAt(Arguments(e), 2) = Success(e.withdrawal_credentials)
    BY <2>1, <2>2, ArgumentAt, ZenonT(30)
  <2> QED BY <1>2, <2>3, Zenon
<1>13. BytesAt(a, 3) = Success(e.signature)
  <2>1. 3 \in 1 .. 3 /\ 10 \in {5, 8, 10} /\ Arguments(e)[3].uint = Sums[10]
    BY <1>2, <1>7, <1>9
  <2>2. Arguments(e)[10] = put_uint256(96) /\ Arguments(e)[10 + 1] = Blob(e.signature, 96)
    BY <1>2, <1>8, <1>10
  <2>3. BytesAt(Arguments(e), 3) = Success(e.signature)
    BY <2>1, <2>2, ArgumentAt, SMT
  <2> QED BY <1>2, <2>3, Zenon
<1> DEFINE pk == BytesAt(Tail(data), 1)  wc == BytesAt(Tail(data), 2)  sg == BytesAt(Tail(data), 3)
<1>14. Call(data) = IF data = <<>> \/ ~pk.ok \/ ~wc.ok \/ ~sg.ok THEN Failure("abi")
                    ELSE Success([pubkey |-> pk.value, withdrawal_credentials |-> wc.value,
                                  signature |-> sg.value, deposit_data_root |-> Tail(data)[4].blob])
  BY Zenon DEF Call
<1>15. /\ pk.ok = TRUE /\ pk.value = e.pubkey /\ wc.ok = TRUE /\ wc.value = e.withdrawal_credentials
       /\ sg.ok = TRUE /\ sg.value = e.signature
  BY <1>6, <1>11, <1>12, <1>13, Results, Zenon
<1>16. Call(data) = Success([pubkey |-> e.pubkey, withdrawal_credentials |-> e.withdrawal_credentials,
                             signature |-> e.signature, deposit_data_root |-> e.deposit_data_root])
  <2> HIDE DEF pk, wc, sg
  <2> QED BY <1>6, <1>7, <1>14, <1>15, Zenon
<1>17. Length(data) = 420
  <2>1. PICK h : h = [k \in 0 .. 11 |-> Sums[k + 1]]
    OBVIOUS
  <2>2. h[0] = 0 /\ h[11] = 416
    BY <2>1 DEF Sums
  <2>3. \A k \in 1 .. 11 : h[k] = h[k - 1] + a[k].len
    <3> TAKE k \in 1 .. 11
    <3>1. k \in 0 .. 11 /\ k - 1 \in 0 .. 11 /\ (k - 1) + 1 = k
      OBVIOUS
    <3>2. h[k] = Sums[k + 1] /\ h[k - 1] = Sums[k]
      BY <2>1, <3>1
    <3>3. Sums[k + 1] = Sums[k] + a[k].len
      BY <1>2, ArgumentSizes
    <3> QED BY <3>2, <3>3
  <2>4. Length(a) = h[Len(a)]
    <3>1. \A k \in 1 .. Len(a) : h[k] = h[k - 1] + a[k].len
      BY <1>3, <2>3
    <3>2. h[0] = 0
      BY <2>2
    <3>3. Pieces(S)
      BY <1>3
    <3> QED BY <3>1, <3>2, <3>3, LengthFrom, Zenon
  <2>5. DEPOSIT_SELECTOR.len = 4
    BY DEF DEPOSIT_SELECTOR, Blob
  <2>6. Length(<<DEPOSIT_SELECTOR>>) = 4
    BY <2>5, LengthSmall
  <2>7. <<DEPOSIT_SELECTOR>> \in Seq(S)
    BY <1>3
  <2>8. Length(<<DEPOSIT_SELECTOR>> \o a) = Length(<<DEPOSIT_SELECTOR>>) + Length(a)
    BY <1>3, <2>7, LengthConcat
  <2>9. Length(a) = 416
    BY <1>3, <2>2, <2>4 DEF Sums
  <2>10. Length(<<DEPOSIT_SELECTOR>> \o a) = 420
    BY <2>6, <2>8, <2>9
  <2> QED BY <1>3, <1>4, <1>5, <2>10
<1> QED BY <1>1, <1>5, <1>6, <1>16, <1>17

(* A sequence of sequences. *)
Nested(t, S) == t \in Seq(Seq(S))

(* A list of lists, of so many. *)
LEMMA NestedIs ==
  ASSUME NEW S, NEW n \in Nat, NEW t, t = [k \in 1 .. n |-> t[k]], \A k \in 1 .. n : t[k] \in Seq(S)
  PROVE  Nested(t, S) /\ Len(t) = n
<1>1. PICK T : T = Seq(S)
  OBVIOUS
<1>2. t \in [1 .. n -> T]
  BY <1>1, Zenon
<1>3. Seq(T) = UNION {[1 .. k -> T] : k \in Nat}
  BY SeqDef, Zenon
<1>4. t \in Seq(T)
  BY <1>2, <1>3, Zenon
<1>5. Len(t) = n
  BY <1>2, <1>4
<1> QED BY <1>1, <1>4, <1>5, Zenon DEF Nested

(* Parts of bytes, and the first few of them. *)
Parts(E, S, m)  == \A n \in 1 .. m : E[n] \in Seq(S)
Beginning(E, k) == [n \in 1 .. k |-> E[n]]

(* FlattenSeq joins the first parts. *)
LEMMA BeginningJoins ==
  ASSUME NEW S, NEW m \in Nat, NEW E, NEW g, Joining(g, S, m, E), NEW k \in 1 .. m,
         Parts(E, S, m)
  PROVE  FlattenSeq(Beginning(E, k)) = g[k]
<1>0. PICK t : t = [n \in 1 .. k |-> E[n]]
  OBVIOUS
<1>1. PICK h : h = [n \in 0 .. k |-> g[n]]
  OBVIOUS
<1>2. g \in [0 .. m -> Seq(S)] /\ g[0] = <<>>
  BY DEF Joining
<1>3. h \in [0 .. k -> Seq(S)] /\ h[0] = <<>> /\ h[k] = g[k]
  BY <1>1, <1>2
<1>4. \A n \in 1 .. k : h[n] = h[n - 1] \o t[n]
  <2> TAKE n \in 1 .. k
  <2>1. n \in 1 .. m /\ n \in 0 .. k /\ n - 1 \in 0 .. k
    OBVIOUS
  <2>2. g[n] = g[n - 1] \o E[n]
    BY <2>1, Zenon DEF Joining
  <2>3. h[n] = g[n] /\ h[n - 1] = g[n - 1] /\ t[n] = E[n]
    BY <1>0, <1>1, <2>1
  <2> QED BY <2>2, <2>3
<1>5. Joining(h, S, k, t)
  BY <1>3, <1>4 DEF Joining
<1>6. Nested(t, S) /\ Len(t) = k
  <2>1. \A n \in 1 .. k : t[n] \in Seq(S)
    BY <1>0 DEF Parts
  <2>2. t = [n \in 1 .. k |-> t[n]] /\ k \in Nat
    BY <1>0
  <2> QED BY <2>1, <2>2, NestedIs
<1>7. t # <<>>
  BY <1>0, <1>6
<1>8. FlattenSeq(t) = h[Len(t)]
  BY <1>5, <1>6, <1>7, FlattenJoins, Zenon DEF Nested
<1> QED BY <1>0, <1>3, <1>6, <1>8, Zenon DEF Beginning

-----------------------------------------------------------------------------
(* A signed transaction: its fields, and what was signed. *)

(* The twelve fields of a signed transaction, in the order of EIP-1559. *)
Twelve(p, nonce, gas, y, r, s) ==
  <<uint_be(p.chain_id), uint_be(nonce), uint_be(p.tip), uint_be(p.max_fee), uint_be(gas),
    <<Blob(p.to, 20)>>, uint_be(p.value), p.data, <<>>,
    uint_be(y), trim_leading_zeros(r), trim_leading_zeros(s)>>

(* Fields that are small enough for any header. *)
Small(x, S) == \A n \in 1 .. 12 : x[n] \in Seq(S) /\ Length(x[n]) <= 500

(* Fields of pieces and bytes, and small ones; and what was signed of them. *)
Sound(S, x) == Pieces(S) /\ Octets \subseteq S /\ Nested(x, S) /\ Small(x, S)
Payload(f)  == <<Byte(2)>> \o encode_list(FlattenSeq([i \in 1 .. 8 |-> encode_str(f[i])]) \o encode_list(<<>>))

(* A node reads the twelve fields back from the envelope, and computes the   *)
(* payload that was signed.                                                  *)
LEMMA EnvelopeRead ==
  ASSUME NEW p, NEW nonce, NEW gas, NEW y, NEW r, NEW s, NEW S,
         Sound(S, Twelve(p, nonce, gas, y, r, s))
  PROVE  /\ Fields(eip1559_envelope(p, nonce, gas, y, r, s)) = Success(Twelve(p, nonce, gas, y, r, s))
         /\ Payload(Twelve(p, nonce, gas, y, r, s)) = eip1559_signing_payload(p, nonce, gas)
<1> SUFFICES ASSUME NEW x, x = Twelve(p, nonce, gas, y, r, s), Sound(S, x)
             PROVE  /\ Fields(eip1559_envelope(p, nonce, gas, y, r, s)) = Success(x)
                    /\ Payload(x) = eip1559_signing_payload(p, nonce, gas)
  BY Zenon
<1> SUFFICES ASSUME Pieces(S), Octets \subseteq S, Nested(x, S), Small(x, S)
             PROVE  /\ Fields(eip1559_envelope(p, nonce, gas, y, r, s)) = Success(x)
                    /\ <<Byte(2)>> \o encode_list(FlattenSeq([i \in 1 .. 8 |-> encode_str(x[i])]) \o encode_list(<<>>))
                         = eip1559_signing_payload(p, nonce, gas)
  BY Zenon DEF Sound, Payload
<1>1. /\ Len(x) = 12 /\ x[1] = uint_be(p.chain_id) /\ x[2] = uint_be(nonce) /\ x[3] = uint_be(p.tip)
      /\ x[4] = uint_be(p.max_fee) /\ x[5] = uint_be(gas) /\ x[6] = <<Blob(p.to, 20)>>
      /\ x[7] = uint_be(p.value) /\ x[8] = p.data /\ x[9] = <<>>
      /\ x[10] = uint_be(y) /\ x[11] = trim_leading_zeros(r) /\ x[12] = trim_leading_zeros(s)
  BY DEF Twelve
<1>2. PICK E : E = [n \in 1 .. 12 |-> IF n = 9 THEN encode_list(x[9]) ELSE encode_str(x[n])]
  OBVIOUS
<1>3. ASSUME NEW n \in 1 .. 12
      PROVE  Holds(S, E[n], x[n]) /\ Length(x[n]) \in Nat /\ Length(x[n]) <= 500
  <2>1. x[n] \in Seq(S) /\ Length(x[n]) <= 500
    BY DEF Small
  <2>2. Length(x[n]) \in Nat
    BY <2>1, LengthConcat
  <2>3. Length(x[n]) < 256 * 256
    BY <2>1, <2>2
  <2>4. Holds(S, encode_str(x[n]), x[n]) /\ Holds(S, encode_list(x[n]), x[n])
    BY <2>1, <2>3, StringThere, ListThere
  <2>5. E[n] = encode_str(x[n]) \/ E[n] = encode_list(x[n])
    BY <1>2
  <2> QED BY <2>1, <2>2, <2>4, <2>5
<1>4. ASSUME NEW n \in 1 .. 12
      PROVE  E[n] \in Seq(S) /\ Length(E[n]) <= 503
  <2>1. E[n] \in Seq(S) /\ Length(E[n]) <= Length(x[n]) + 3
    BY <1>3 DEF Holds
  <2>2. Length(E[n]) \in Nat
    BY <2>1, LengthConcat
  <2>3. PICK a \in Nat, b \in Nat : a = Length(x[n]) /\ b = Length(E[n]) /\ a <= 500
    BY <1>3, <2>2
  <2>4. b <= a + 3
    BY <2>1, <2>3
  <2>5. b <= 503
    BY <2>3, <2>4
  <2> QED BY <2>1, <2>3, <2>5, Zenon
<1>5. PICK g : Joining(g, S, 12, E)
  BY <1>4, JoiningThere
<1>11. Parts(E, S, 12) /\ 12 \in Nat
  BY <1>4 DEF Parts
<1>6. Length(g[12]) < 256 * 256
  <2>1. Length(g[12]) <= 12 * 503
    <3>1. 503 \in Nat /\ 12 \in Nat /\ \A n \in 1 .. 12 : E[n] \in Seq(S) /\ Length(E[n]) <= 503
      BY <1>4
    <3> QED BY <1>5, <3>1, JoinedLength, ZenonT(40)
  <2>2. Length(g[12]) \in Nat
    <3>1. g[12] \in Seq(S)
      BY <1>5 DEF Joining
    <3> QED BY <3>1, LengthConcat
  <2> QED BY <2>1, <2>2
<1>7. Fields(<<Byte(2)>> \o encode_list(g[12])) = Success(x)
  <2>1. \A n \in 1 .. 12 : Holds(S, E[n], x[n])
    BY <1>3
  <2> QED BY <1>1, <1>5, <1>6, <2>1, FieldsAsWritten, Zenon DEF Nested
<1>8. base_fields(p, nonce, gas) = g[9]
  <2>1. PICK t : t = <<encode_str(uint_be(p.chain_id)), encode_str(uint_be(nonce)),
               encode_str(uint_be(p.tip)), encode_str(uint_be(p.max_fee)),
               encode_str(uint_be(gas)), encode_str(<<Blob(p.to, 20)>>),
               encode_str(uint_be(p.value)), encode_str(p.data), encode_list(<<>>)>>
    OBVIOUS
  <2>2. Len(t) = 9 /\ t = [n \in 1 .. 9 |-> t[n]]
    BY <2>1
  <2>3. \A n \in 1 .. 9 : t[n] = E[n]
    <3>1. /\ t[1] = encode_str(x[1]) /\ t[2] = encode_str(x[2]) /\ t[3] = encode_str(x[3])
          /\ t[4] = encode_str(x[4]) /\ t[5] = encode_str(x[5]) /\ t[6] = encode_str(x[6])
          /\ t[7] = encode_str(x[7]) /\ t[8] = encode_str(x[8]) /\ t[9] = encode_list(x[9])
      BY <1>1, <2>1
    <3>2. \A n \in 1 .. 9 : n # 9 => t[n] = encode_str(x[n])
      BY <3>1
    <3>3. \A n \in 1 .. 9 : n \in 1 .. 12
      OBVIOUS
    <3>4. \A n \in 1 .. 9 : E[n] = IF n = 9 THEN encode_list(x[9]) ELSE encode_str(x[n])
      BY <1>2, <3>3, Zenon
    <3> QED BY <3>1, <3>2, <3>4, Zenon
  <2>5. FlattenSeq(t) = g[9]
    <3>1. 9 \in 1 .. 12
      OBVIOUS
    <3>2. FlattenSeq(Beginning(E, 9)) = g[9]
      BY <1>5, <1>11, <3>1, BeginningJoins
    <3>3. t = [n \in 1 .. 9 |-> E[n]]
      BY <2>2, <2>3, Zenon
    <3> QED BY <3>2, <3>3, Zenon DEF Beginning
  <2> QED BY <2>1, <2>5 DEF base_fields
<1>9. eip1559_envelope(p, nonce, gas, y, r, s) = <<Byte(2)>> \o encode_list(g[12])
  <2>1. E[10] = encode_str(uint_be(y)) /\ E[11] = encode_str(trim_leading_zeros(r))
        /\ E[12] = encode_str(trim_leading_zeros(s))
    BY <1>1, <1>2
  <2>2. g[10] = g[9] \o E[10] /\ g[11] = g[10] \o E[11] /\ g[12] = g[11] \o E[12]
    <3>1. {10, 11, 12} \subseteq 1 .. 12 /\ 10 - 1 = 9 /\ 11 - 1 = 10 /\ 12 - 1 = 11
      OBVIOUS
    <3>2. g[10] = g[10 - 1] \o E[10] /\ g[11] = g[11 - 1] \o E[11] /\ g[12] = g[12 - 1] \o E[12]
      BY <1>5, <3>1, Zenon DEF Joining
    <3> QED BY <3>1, <3>2, Zenon
  <2>3. g[12] = ((g[9] \o E[10]) \o E[11]) \o E[12]
    BY <2>2
  <2> QED BY <1>8, <2>1, <2>3 DEF eip1559_envelope
<1>10. FlattenSeq([i \in 1 .. 8 |-> encode_str(x[i])]) \o encode_list(<<>>) = g[9]
  <2>1. PICK t : t = [i \in 1 .. 8 |-> encode_str(x[i])]
    OBVIOUS
  <2>0. \A n \in 1 .. 8 : n \in 1 .. 12 /\ n # 9
    OBVIOUS
  <2>2. t = [n \in 1 .. 8 |-> E[n]]
    <3>1. \A n \in 1 .. 8 : E[n] = encode_str(x[n])
      BY <1>2, <2>0, Zenon
    <3> QED BY <2>1, <3>1, Zenon
  <2>4. FlattenSeq(t) = g[8]
    <3>1. 8 \in 1 .. 12
      OBVIOUS
    <3>2. FlattenSeq(Beginning(E, 8)) = g[8]
      BY <1>5, <1>11, <3>1, BeginningJoins
    <3> QED BY <2>2, <3>2, Zenon DEF Beginning
  <2>5. g[9] = g[8] \o E[9]
    <3>1. 9 \in 1 .. 12 /\ 9 - 1 = 8
      OBVIOUS
    <3>2. g[9] = g[9 - 1] \o E[9]
      BY <1>5, <3>1, Zenon DEF Joining
    <3> QED BY <3>1, <3>2, Zenon
  <2>6. E[9] = encode_list(<<>>)
    BY <1>1, <1>2
  <2> QED BY <2>1, <2>4, <2>5, <2>6
<1> QED BY <1>7, <1>8, <1>9, <1>10 DEF eip1559_signing_payload

-----------------------------------------------------------------------------
(* What a signature is in the bytes. *)

(* A half of a signature without its leading zero. *)
LEMMA Trimmed ==
  ASSUME NEW c
  PROVE  /\ trim_leading_zeros(<<Byte(0), Blob(c, 31)>>) = <<Blob(c, 31)>>
         /\ trim_leading_zeros(<<Blob(c, 32)>>) = <<Blob(c, 32)>>
<1>1. Blob(c, 31) # Byte(0) /\ Blob(c, 32) # Byte(0)
  <2>1. Blob(c, 31).len = 31 /\ Blob(c, 32).len = 32 /\ Byte(0).len = 1
    BY DEF Blob, Byte
  <2> QED BY <2>1
<1>2. trim_leading_zeros(<<Byte(0), Blob(c, 31)>>) = <<Blob(c, 31)>>
  <2>1. PICK x, y : x = Byte(0) /\ y = Blob(c, 31) /\ x # y
    BY <1>1
  <2>2. PICK b : b = <<x, y>>
    OBVIOUS
  <2> DEFINE kept == {i \in DOMAIN b : \E j \in 1 .. i : b[j] # Byte(0)}
  <2>3. kept = {2}
    BY <2>1, <2>2
  <2>4. Cardinality(kept) = 1
    BY <2>3, FS_Singleton
  <2>5. trim_leading_zeros(b) = SubSeq(b, Len(b) - Cardinality(kept) + 1, Len(b))
    BY Zenon DEF trim_leading_zeros
  <2> HIDE DEF kept
  <2>6. Len(b) - Cardinality(kept) + 1 = 2 /\ Len(b) = 2
    BY <2>2, <2>4
  <2>7. SubSeq(b, 2, 2) = <<y>>
    <3>1. \A T : \A z \in Seq(T) : Len(z) = 1 => z = <<z[1]>>
      OBVIOUS
    <3>2. 2 \in Int /\ b[2] = y /\ \A i \in 2 .. 2 : b[i] \in {x, y}
      BY <2>2
    <3>3. /\ SubSeq(b, 2, 2) \in Seq({x, y})
          /\ Len(SubSeq(b, 2, 2)) = 1 /\ SubSeq(b, 2, 2)[1] = b[2]
      BY <3>2, SubSeqProperties
    <3>4. PICK z \in Seq({x, y}) : z = SubSeq(b, 2, 2)
      BY <3>3, Zenon
    <3>5. Len(z) = 1 /\ z[1] = b[2]
      BY <3>3, <3>4
    <3> QED BY <3>1, <3>2, <3>4, <3>5, Zenon
  <2> QED BY <2>1, <2>2, <2>5, <2>6, <2>7, Zenon
<1>3. trim_leading_zeros(<<Blob(c, 32)>>) = <<Blob(c, 32)>>
  <2>1. PICK y : y = Blob(c, 32) /\ y # Byte(0)
    BY <1>1
  <2>2. PICK b : b = <<y>>
    OBVIOUS
  <2> DEFINE kept == {i \in DOMAIN b : \E j \in 1 .. i : b[j] # Byte(0)}
  <2>3. kept = {1}
    BY <2>1, <2>2
  <2>4. Cardinality(kept) = 1
    BY <2>3, FS_Singleton
  <2>5. trim_leading_zeros(b) = SubSeq(b, Len(b) - Cardinality(kept) + 1, Len(b))
    BY Zenon DEF trim_leading_zeros
  <2> HIDE DEF kept
  <2>6. Len(b) - Cardinality(kept) + 1 = 1 /\ Len(b) = 1
    BY <2>2, <2>4
  <2>7. SubSeq(b, 1, 1) = <<y>>
    <3>1. \A s \in Seq({y}), t \in Seq({y}) : SubSeq(s \o t, Len(s) + 1, Len(s) + Len(t)) = t
      OBVIOUS
    <3>2. <<>> \in Seq({y}) /\ <<y>> \in Seq({y}) /\ b = <<>> \o <<y>>
      BY <2>2
    <3>3. Len(<<>>) + 1 = 1 /\ Len(<<>>) + Len(<<y>>) = 1
      OBVIOUS
    <3> QED BY <3>1, <3>2, <3>3, Zenon
  <2> QED BY <2>1, <2>2, <2>5, <2>6, <2>7, Zenon
<1> QED BY <1>2, <1>3

(* An address is read as it is written.                                      *)
LEMMA AddressRead ==
  ASSUME NEW a
  PROVE  hex_to_address(Address(a)) = Address(a)
<1>1. PICK n \in Nat \ {0} : n = AddressLen
  BY TxDataAssumption
<1>2. PICK pairs : pairs = [i \in 1 .. n |-> <<a, i>>]
  OBVIOUS
<1>3. Address(a) = pairs
  BY <1>1, <1>2 DEF Address
<1> DEFINE stop == {i \in DOMAIN pairs : pairs[i] = BadPair}
           good == IF stop = {} THEN pairs
                   ELSE SubSeq(pairs, 1, (CHOOSE i \in stop : \A j \in stop : i <= j) - 1)
           all  == [i \in 1 .. AddressLen |-> ZeroPair] \o good
<1>4. stop = {}
  BY <1>2 DEF BadPair
<1>5. hex_to_address(pairs) = SubSeq(all, Len(good) + 1, Len(all))
  BY Zenon DEF hex_to_address
<1>6. good = pairs
  <2> HIDE DEF stop
  <2> QED BY <1>4
<1> HIDE DEF good
<1>7. PICK z : z = [i \in 1 .. n |-> ZeroPair] /\ all = z \o pairs
  BY <1>1, <1>6
<1> HIDE DEF all
<1>8. SubSeq(z \o pairs, n + 1, n + n) = pairs /\ Len(z \o pairs) = n + n /\ Len(pairs) = n
  <2>1. PICK T : T = {ZeroPair} \cup {<<a, i>> : i \in 1 .. n}
    OBVIOUS
  <2>2. z \in [1 .. n -> T] /\ pairs \in [1 .. n -> T]
    BY <1>2, <1>7, <2>1
  <2>3. Seq(T) = UNION {[1 .. k -> T] : k \in Nat}
    BY SeqDef, Zenon
  <2>4. z \in Seq(T) /\ pairs \in Seq(T) /\ n \in Nat
    BY <2>2, <2>3, Zenon
  <2>5. Len(z) = n /\ Len(pairs) = n
    BY <2>2, <2>4
  <2>6. \A s \in Seq(T), t \in Seq(T) : SubSeq(s \o t, Len(s) + 1, Len(s) + Len(t)) = t /\ Len(s \o t) = Len(s) + Len(t)
    OBVIOUS
  <2> QED BY <2>4, <2>5, <2>6, Zenon
<1> QED BY <1>3, <1>5, <1>6, <1>7, <1>8

-----------------------------------------------------------------------------
(* What is signed: a deposit, as the builder makes it, and a signer reads it.*)

(* What build writes of a deposit e with resolved fees r, and what a signer  *)
(* reads.                                                                    *)
UnsignedOf(id, to, e, r) ==
  [chain_id |-> id, to |-> Address(to), value |-> Quantity(32), data |-> Quantity(pack_deposit(e)),
   gas |-> r.gas, maxFeePerGas |-> Quantity(r.max_fee), maxPriorityFeePerGas |-> Quantity(r.tip),
   nonce |-> r.nonce]
ParsedOf(id, to, e, r) ==
  [chain_id |-> id, value |-> 32, max_fee |-> r.max_fee, tip |-> r.tip,
   to |-> Address(to), data |-> pack_deposit(e)]

(* A signer takes what build wrote as it was written. *)
LEMMA ParsedBuilt ==
  ASSUME NEW id, id # 0, NEW to, NEW e, NEW r
  PROVE  parse_unsigned_tx(UnsignedOf(id, to, e, r)) = Success(ParsedOf(id, to, e, r))
<1>1. PICK u : u = UnsignedOf(id, to, e, r)
  OBVIOUS
<1>2. PICK a, b, c, d, x : a = Address(to) /\ b = pack_deposit(e) /\ c = r.max_fee /\ d = r.tip /\ x = Quantity(b)
  OBVIOUS
<1>3. /\ u.chain_id = id /\ u.to = a /\ u.value = Quantity(32) /\ u.data = x
      /\ u.maxFeePerGas = Quantity(c) /\ u.maxPriorityFeePerGas = Quantity(d)
  BY <1>1, <1>2 DEF UnsignedOf
<1>4. \A y : Quantity(y).text = "hex" /\ Quantity(y).value = y
  BY DEF Quantity
<1>5. \A q \in {u.value, u.maxFeePerGas, u.maxPriorityFeePerGas} : q.text = "hex"
  BY <1>3, <1>4, SMT
<1>6. x.text = "hex" /\ x.value = b
  BY <1>2, <1>4
<1>7. u.chain_id # 0 /\ u.data.text # "bad" /\ u.data.text # "empty"
  BY <1>3, <1>6
<1>8. hex_to_address(u.to) = a
  BY <1>2, <1>3, AddressRead, Zenon
<1> DEFINE out == [chain_id |-> u.chain_id, value |-> u.value.value,
                   max_fee |-> u.maxFeePerGas.value, tip |-> u.maxPriorityFeePerGas.value,
                   to |-> hex_to_address(u.to),
                   data |-> IF u.data.text = "empty" THEN <<>> ELSE u.data.value]
<1>9. parse_unsigned_tx(u) =
        CASE u.chain_id = 0 -> Failure("InvalidChainId")
          [] \E q \in {u.value, u.maxFeePerGas, u.maxPriorityFeePerGas} : q.text # "hex" -> Failure("Msg")
          [] u.data.text = "bad" -> Failure("Msg")
          [] OTHER -> Success(out)
  BY Zenon DEF parse_unsigned_tx
<1> HIDE DEF out
<1>10. parse_unsigned_tx(u) = Success(out)
  BY <1>5, <1>7, <1>9, Zenon
<1>11. out = [chain_id |-> id, value |-> 32, max_fee |-> c, tip |-> d, to |-> a, data |-> b]
  <2>1. u.value.value = 32 /\ u.maxFeePerGas.value = c /\ u.maxPriorityFeePerGas.value = d
    BY <1>3, <1>4, Zenon
  <2>2. (IF u.data.text = "empty" THEN <<>> ELSE u.data.value) = b
    BY <1>3, <1>6, <1>7, Zenon
  <2> QED BY <1>3, <1>8, <2>1, <2>2, Zenon DEF out
<1> QED BY <1>1, <1>2, <1>10, <1>11, Zenon DEF ParsedOf

-----------------------------------------------------------------------------
(* What a signer makes: the low one of the two signatures, and the parity    *)
(* that belongs to it.                                                       *)

(* Raw bytes signed with a key: the signature is low, and its parity is that *)
(* of the point.                                                             *)
Signs(raw, p, u, k) ==
  \E neg, v :
    /\ raw = Quantity(Envelope(p, u, Sig(k, SigHash(p, u), neg), v))
    /\ ~IsHigh(Sig(k, SigHash(p, u), neg))
    /\ v = (OddY(k, SigHash(p, u)) # neg)

(* The parts of a signature. *)
LEMMA SigParts ==
  \A a, b, c : Sig(a, b, c).key = a /\ Sig(a, b, c).over = b /\ Sig(a, b, c).neg = c
BY DEF Sig

(* The other signature of the pair. *)
LEMMA SigOther ==
  ASSUME NEW k, NEW h
  PROVE  [Sig(k, h, FALSE) EXCEPT !.neg = ~@] = Sig(k, h, TRUE)
<1>1. PICK s : s = Sig(k, h, FALSE)
  OBVIOUS
<1>2. PICK b : b = ~s.neg
  OBVIOUS
<1>3. s = [key |-> k, over |-> h, neg |-> FALSE]
  BY <1>1 DEF Sig
<1>4. s.neg = FALSE
  BY <1>3
<1>5. b = TRUE
  BY <1>2, <1>4, Zenon
<1>6. [s EXCEPT !.neg = b] = [key |-> k, over |-> h, neg |-> b]
  BY <1>3
<1> QED BY <1>1, <1>2, <1>5, <1>6, Zenon DEF Sig

(* One of the pair is high. *)
LEMMA HighOf ==
  \A k, h, neg : IsHigh(Sig(k, h, neg)) <=> (SIsHigh(k, h) <=> ~neg)
<1> TAKE k, h, neg
<1>1. PICK s : s = Sig(k, h, neg)
  OBVIOUS
<1>2. s.key = k /\ s.over = h /\ s.neg = neg
  <2>1. Sig(k, h, neg).key = k /\ Sig(k, h, neg).over = h /\ Sig(k, h, neg).neg = neg
    BY SigParts
  <2> QED BY <1>1, <2>1, Zenon
<1>3. IsHigh(s) <=> (SIsHigh(k, h) <=> ~neg)
  BY <1>2, Zenon DEF IsHigh
<1> QED BY <1>1, <1>3, Zenon

(* The raw bytes in what a signer returns. *)
LEMMA SignedRaw ==
  ASSUME NEW u, NEW p, NEW from, NEW low
  PROVE  SignedTx(u, p, from, low).value.rawRLP = Quantity(Envelope(p, u, low.sig, low.v))
<1>1. PICK e : e = Envelope(p, u, low.sig, low.v)
  OBVIOUS
<1>2. PICK t : t = build_signed_tx(u, from, e, low.sig, low.v)
  OBVIOUS
<1>3. t.rawRLP = Quantity(e)
  BY <1>2 DEF build_signed_tx
<1>4. SignedTx(u, p, from, low) = Success(t)
  BY <1>1, <1>2, Zenon DEF SignedTx
<1> QED BY <1>1, <1>3, <1>4, Results, Zenon

(* The local signer signs with its key, whichever of the pair the library    *)
(* made.                                                                     *)
LEMMA LocalSigns ==
  ASSUME NEW u, NEW p, parse_unsigned_tx(u) = Success(p), NEW k, sign_local(u, k).ok
  PROVE  Signs(sign_local(u, k).value.rawRLP, p, u, k)
<1>1. PICK h : h = SigHash(p, u)
  OBVIOUS
<1>2. PICK odd : odd = OddY(k, h)
  OBVIOUS
<1>3. PICK low : low = normalize_low_s(Sig(k, h, FALSE), odd)
  OBVIOUS
<1>4. parse_unsigned_tx(u).ok = TRUE /\ parse_unsigned_tx(u).value = p
  BY Results, Zenon
<1>5. sign_local(u, k) = IF recover_address(h, low.sig, low.v) # pubkey_address(k) THEN Failure("Msg")
                         ELSE SignedTx(u, p, pubkey_address(k), low)
  <2> DEFINE q    == parse_unsigned_tx(u)
             hash == SigHash(q.value, u)
             lo   == normalize_low_s(Sig(k, hash, FALSE), OddY(k, hash))
  <2>1. sign_local(u, k) = IF q.ok THEN IF recover_address(hash, lo.sig, lo.v) # pubkey_address(k) THEN Failure("Msg")
                                        ELSE SignedTx(u, q.value, pubkey_address(k), lo) ELSE q
    BY Zenon DEF sign_local
  <2>2. q.ok /\ q.value = p
    BY <1>4
  <2> HIDE DEF q
  <2> QED BY <1>1, <1>2, <1>3, <2>1, <2>2, Zenon
<1>6. recover_address(h, low.sig, low.v) = pubkey_address(k) /\ sign_local(u, k) = SignedTx(u, p, pubkey_address(k), low)
  <2>1. ~Failure("Msg").ok
    BY Results
  <2> QED BY <1>5, <2>1, Zenon
<1>7. PICK neg : low.sig = Sig(k, h, neg) /\ ~IsHigh(low.sig)
  <2>1. CASE IsHigh(Sig(k, h, FALSE))
    <3>1. low.sig = Sig(k, h, TRUE)
      <4>1. low = [sig |-> [Sig(k, h, FALSE) EXCEPT !.neg = ~@], v |-> ~odd]
        BY <1>3, <2>1, Zenon DEF normalize_low_s
      <4>2. PICK s : s = [Sig(k, h, FALSE) EXCEPT !.neg = ~@]
        OBVIOUS
      <4>3. low.sig = s
        BY <4>1, <4>2
      <4> QED BY <4>2, <4>3, SigOther, Zenon
    <3>2. ~IsHigh(Sig(k, h, TRUE))
      BY <2>1, HighOf, Zenon
    <3> QED BY <3>1, <3>2
  <2>2. CASE ~IsHigh(Sig(k, h, FALSE))
    <3>1. low.sig = Sig(k, h, FALSE)
      <4>1. low = [sig |-> Sig(k, h, FALSE), v |-> odd]
        BY <1>3, <2>2, Zenon DEF normalize_low_s
      <4> QED BY <4>1
    <3> QED BY <2>2, <3>1
  <2> QED BY <2>1, <2>2
<1>8. low.v = (OddY(k, h) # neg)
  <2>1. pubkey_address(k) # Stranger
    BY DEF pubkey_address, Stranger
  <2>2. low.sig.key = k /\ low.sig.over = h /\ low.sig.neg = neg
    <3>1. Sig(k, h, neg).key = k /\ Sig(k, h, neg).over = h /\ Sig(k, h, neg).neg = neg
      BY SigParts
    <3> QED BY <1>7, <3>1, Zenon
  <2>3. low.v = (OddY(low.sig.key, low.sig.over) # low.sig.neg)
    BY <1>6, <2>1, Zenon DEF recover_address
  <2> QED BY <2>2, <2>3, Zenon
<1>9. sign_local(u, k).value.rawRLP = Quantity(Envelope(p, u, Sig(k, h, neg), low.v))
  BY <1>6, <1>7, SignedRaw, Zenon
<1> QED BY <1>1, <1>7, <1>8, <1>9, Zenon DEF Signs

(* The device signs with the key it holds, whichever of the pair it          *)
(* returned.                                                                 *)
LEMMA LedgerSigns ==
  ASSUME NEW u, NEW p, parse_unsigned_tx(u) = Success(p), NEW device, sign_ledger(u, device).ok,
         device.sign.ok
  PROVE  Signs(sign_ledger(u, device).value.rawRLP, p, u, device.sign.value)
<1>1. PICK h, k : h = SigHash(p, u) /\ k = device.sign.value
  OBVIOUS
<1>2. PICK neg : neg = SIsHigh(k, h)
  OBVIOUS
<1>3. PICK sig : sig = Sig(k, h, neg)
  OBVIOUS
<1>4. parse_unsigned_tx(u).ok = TRUE /\ parse_unsigned_tx(u).value = p
  BY Results, Zenon
<1>5. PICK v : v = (OddY(k, h) # sig.neg)
  OBVIOUS
<1>6. sign_ledger(u, device) = SignedTx(u, p, recover_address(h, sig, v), [sig |-> sig, v |-> v])
  <2> DEFINE q    == parse_unsigned_tx(u)
             key  == device.sign.value
             hash == SigHash(q.value, u)
             s    == Sig(key, hash, SIsHigh(key, hash))
             w    == OddY(key, hash) # s.neg
             bad  == LedgerError(device.sign.err)
             good == SignedTx(u, q.value, recover_address(hash, s, w), [sig |-> s, v |-> w])
  <2>1. sign_ledger(u, device) = CASE ~q.ok -> q [] q.ok /\ ~device.sign.ok -> bad [] OTHER -> good
    BY Zenon DEF sign_ledger
  <2>2. q.ok /\ q.value = p
    BY <1>4
  <2>3. sign_ledger(u, device) = good
    <3> HIDE DEF q, bad, good
    <3> QED BY <2>1, <2>2, Zenon
  <2>4. hash = h /\ key = k
    <3> HIDE DEF q
    <3> QED BY <1>1, <2>2, Zenon
  <2>5. s = sig
    <3> HIDE DEF hash, key
    <3> QED BY <1>2, <1>3, <2>4, Zenon
  <2>6. w = v
    <3> HIDE DEF hash, key, s
    <3> QED BY <1>5, <2>4, <2>5, Zenon
  <2> HIDE DEF hash, key, s, w
  <2> HIDE DEF q
  <2> QED BY <2>2, <2>3, <2>4, <2>5, <2>6, Zenon
<1>7. v = (OddY(k, h) # neg)
  <2>1. Sig(k, h, neg).neg = neg
    BY SigParts
  <2> QED BY <1>3, <1>5, <2>1, Zenon
<1>8. ~IsHigh(Sig(k, h, neg))
  <2>1. IsHigh(Sig(k, h, neg)) <=> (SIsHigh(k, h) <=> ~neg)
    BY HighOf
  <2> QED BY <1>2, <2>1, Zenon
<1>9. sign_ledger(u, device).value.rawRLP = Quantity(Envelope(p, u, Sig(k, h, neg), v))
  <2>1. PICK low : low = [sig |-> sig, v |-> v]
    OBVIOUS
  <2>2. low.sig = sig /\ low.v = v
    BY <2>1
  <2>3. sign_ledger(u, device).value.rawRLP = Quantity(Envelope(p, u, low.sig, low.v))
    BY <1>6, <2>1, SignedRaw, Zenon
  <2> QED BY <1>3, <2>2, <2>3, Zenon
<1> QED BY <1>1, <1>7, <1>8, <1>9, Zenon DEF Signs

-----------------------------------------------------------------------------
(* What a node finds in what a signer made. *)

(* Numbers of 16 bytes at most. *)
SmallNumber(v) == v \in Nat /\ Len(uint_be(v)) <= 16

(* They are short. *)
LEMMA NumberSmall ==
  ASSUME NEW S, Octets \subseteq S, NEW v, SmallNumber(v)
  PROVE  uint_be(v) \in Seq(S) /\ Length(uint_be(v)) <= 500
<1>1. v \in Nat /\ Len(uint_be(v)) <= 16
  BY DEF SmallNumber
<1>2. uint_be(v) \in Seq(Octets)
  BY <1>1, BytesOf
<1>3. Length(uint_be(v)) = Len(uint_be(v))
  BY <1>2, OctetsLength
<1>4. PICK b \in Seq(Octets) : b = uint_be(v)
  BY <1>2
<1>5. b \in Seq(S)
  OBVIOUS
<1>6. PICK n \in Nat : n = Len(b)
  BY <1>4
<1>7. n <= 500
  BY <1>1, <1>4, <1>6
<1> QED BY <1>3, <1>4, <1>5, <1>6, <1>7, Zenon

(* So is an address or half a signature. *)
LEMMA SingleSmall ==
  ASSUME NEW S, NEW c, NEW n \in {20, 31, 32}, Blob(c, n) \in S
  PROVE  <<Blob(c, n)>> \in Seq(S) /\ Length(<<Blob(c, n)>>) <= 500
<1>1. PICK p \in S : p = Blob(c, n)
  OBVIOUS
<1>2. p.len = n
  BY <1>1 DEF Blob
<1>3. Length(<<p>>) = n
  BY <1>2, LengthSmall
<1>4. <<p>> \in Seq(S)
  OBVIOUS
<1>5. n <= 500
  OBVIOUS
<1> QED BY <1>1, <1>3, <1>4, <1>5, Zenon

(* The bytes of a signature, without zeros in front.                         *)
LEMMA ScalarsTrimmed ==
  ASSUME NEW sig
  PROVE  /\ \E n \in {31, 32} : trim_leading_zeros(Scalars(sig).r) = <<Blob([r |-> sig], n)>>
         /\ trim_leading_zeros(Scalars(sig).s) = <<Blob([s |-> sig], 32)>>
<1>1. PICK a, b : a = [r |-> sig] /\ b = [s |-> sig]
  OBVIOUS
<1>2. PICK c : c = IF ShortR(sig.key, sig.over) THEN <<Byte(0), Blob(a, 31)>> ELSE <<Blob(a, 32)>>
  OBVIOUS
<1>3. PICK d : d = <<Blob(b, 32)>>
  OBVIOUS
<1>4. Scalars(sig) = [r |-> c, s |-> d]
  BY <1>1, <1>2, <1>3, Zenon DEF Scalars
<1>5. Scalars(sig).r = c /\ Scalars(sig).s = d
  BY <1>4
<1>6. trim_leading_zeros(d) = <<Blob(b, 32)>>
  BY <1>3, Trimmed
<1>7. \E n \in {31, 32} : trim_leading_zeros(c) = <<Blob(a, n)>>
  <2>1. 31 \in {31, 32} /\ 32 \in {31, 32}
    OBVIOUS
  <2>2. CASE ShortR(sig.key, sig.over)
    <3>1. trim_leading_zeros(c) = <<Blob(a, 31)>>
      BY <1>2, <2>2, Trimmed, Zenon
    <3> QED BY <2>1, <3>1, Zenon
  <2>3. CASE ~ShortR(sig.key, sig.over)
    <3>1. trim_leading_zeros(c) = <<Blob(a, 32)>>
      BY <1>2, <2>3, Trimmed, Zenon
    <3> QED BY <2>1, <3>1, Zenon
  <2> QED BY <2>2, <2>3
<1> QED BY <1>1, <1>5, <1>6, <1>7, Zenon

(* The fields of a deposit that key k pays for, and what is recovered of     *)
(* them.                                                                     *)
DepositFields(f, id, to, e, r) ==
  /\ f[1] = uint_be(id) /\ f[2] = uint_be(r.nonce) /\ f[3] = uint_be(r.tip) /\ f[4] = uint_be(r.max_fee)
  /\ f[5] = uint_be(r.gas) /\ f[6] = <<Blob(Address(to), 20)>> /\ f[7] = uint_be(32)
  /\ f[8] = pack_deposit(e) /\ f[9] = <<>>

(* Fields with a low signature, from which a node recovers the address of    *)
(* the key.                                                                  *)
SignedFields(f, k) ==
  \E sig, n :
    /\ n \in {31, 32} /\ f[11] = <<Blob([r |-> sig], n)>> /\ f[12] = <<Blob([s |-> sig], 32)>>
    /\ ~IsHigh(sig)
    /\ recover_address(keccak256(Payload(f)), sig, f[10] # <<>>) = pubkey_address(k)

(* The pieces of a signed deposit. *)
PiecesOf(to, e, sig) ==
  Octets \cup CallPieces(e) \cup
  {Blob(Address(to), 20), Blob([r |-> sig], 31), Blob([r |-> sig], 32), Blob([s |-> sig], 32)}

(* They are pieces, the bytes and the call among them. *)
LEMMA PiecesThere ==
  ASSUME NEW to, NEW e, NEW sig
  PROVE  /\ Pieces(PiecesOf(to, e, sig)) /\ Octets \subseteq PiecesOf(to, e, sig)
         /\ CallPieces(e) \subseteq PiecesOf(to, e, sig)
         /\ {Blob(Address(to), 20), Blob([r |-> sig], 31), Blob([r |-> sig], 32), Blob([s |-> sig], 32)}
              \subseteq PiecesOf(to, e, sig)
<1>1. \A c : Blob(c, 20).len = 20 /\ Blob(c, 31).len = 31 /\ Blob(c, 32).len = 32
  BY DEF Blob
<1>2. PICK A, B, C : A = Octets /\ B = CallPieces(e)
                     /\ C = {Blob(Address(to), 20), Blob([r |-> sig], 31), Blob([r |-> sig], 32), Blob([s |-> sig], 32)}
  OBVIOUS
<1>3. \A p \in A : p.len \in Nat \ {0}
  BY <1>2, OctetsArePieces DEF Pieces
<1>4. \A p \in B : p.len \in Nat \ {0}
  BY <1>2, ArgumentSizes DEF Pieces
<1>5. \A p \in C : p.len \in {20, 31, 32}
  BY <1>1, <1>2, SMT
<1>6. {20, 31, 32} \subseteq Nat \ {0}
  OBVIOUS
<1>7. PiecesOf(to, e, sig) = A \cup B \cup C
  BY <1>2, Zenon DEF PiecesOf
<1>8. Pieces(A \cup B \cup C)
  BY <1>3, <1>4, <1>5, <1>6, Zenon DEF Pieces
<1> QED BY <1>2, <1>7, <1>8, Zenon

(* The parity is an empty string or a byte. *)
LEMMA OneBit ==
  uint_be(1) # <<>> /\ uint_be(0) = <<>>
<1>1. uint_be(1) = Append(uint_be(1 \div 256), Byte(1 % 256))
  <2>1. 1 \in Nat \ {0}
    OBVIOUS
  <2> QED BY <2>1, BytesOf, Zenon
<1>2. PICK a \in Nat : a = 1 \div 256
  BY Divided
<1>3. uint_be(a) \in Seq(Octets)
  BY BytesOf
<1>4. PICK b \in Seq(Octets) : b = uint_be(a)
  BY <1>3
<1>8. PICK c : c = Byte(1 % 256)
  OBVIOUS
<1>5. Append(b, c) # <<>>
  OBVIOUS
<1>6. uint_be(1) = Append(b, c)
  BY <1>1, <1>2, <1>4, <1>8, Zenon
<1>7. uint_be(0) = <<>>
  BY BytesOf
<1> QED BY <1>5, <1>6, <1>7, Zenon

(* Fees and a parity of few bytes. *)
SmallFees(r) == SmallNumber(r.gas) /\ SmallNumber(r.max_fee) /\ SmallNumber(r.tip) /\ SmallNumber(r.nonce)
Bit(y) == y \in {0, 1}

(* A byte has few bytes. *)
LEMMA OctetSmall ==
  \A v \in 0 .. 255 : SmallNumber(v)
<1> TAKE v \in 0 .. 255
<1>1. v \in Nat
  OBVIOUS
<1>2. uint_be(v) \in Seq(Octets)
  BY <1>1, BytesOf, Zenon
<1>3. PICK b \in Seq(Octets) : b = uint_be(v)
  BY <1>2, Zenon
<1>4. PICK n \in Nat : n = Len(b)
  OBVIOUS
<1>5. n <= 1
  <2>1. Len(uint_be(v)) <= 1
    BY FewBytes
  <2> QED BY <1>3, <1>4, <2>1, Zenon
<1>6. n <= 16
  BY <1>5
<1> QED BY <1>1, <1>3, <1>4, <1>6, Zenon DEF SmallNumber

(* The fields of a signed deposit as they are laid out. *)
Laid(x, id, to, e, r, sig, y) ==
  /\ DepositFields(x, id, to, e, r) /\ x[10] = uint_be(y)
  /\ \E n \in {31, 32} : x[11] = <<Blob([r |-> sig], n)>>
  /\ x[12] = <<Blob([s |-> sig], 32)>>
  /\ Sound(PiecesOf(to, e, sig), x)

(* What the fields of a deposit are, and that they are small.               *)
LEMMA DepositTwelve ==
  ASSUME NEW id, SmallNumber(id), NEW to, NEW e,
         NEW r, SmallFees(r),
         NEW sig, NEW y, Bit(y),
         NEW x, x = Twelve(ParsedOf(id, to, e, r), r.nonce, r.gas, y, Scalars(sig).r, Scalars(sig).s)
  PROVE  Laid(x, id, to, e, r, sig, y)
<1>1. PICK p : p = ParsedOf(id, to, e, r)
  OBVIOUS
<1>2. p.chain_id = id /\ p.value = 32 /\ p.max_fee = r.max_fee /\ p.tip = r.tip
      /\ p.to = Address(to) /\ p.data = pack_deposit(e)
  <2>1. PICK a, b, c, d : a = r.max_fee /\ b = r.tip /\ c = Address(to) /\ d = pack_deposit(e)
    OBVIOUS
  <2>2. p = [chain_id |-> id, value |-> 32, max_fee |-> a, tip |-> b, to |-> c, data |-> d]
    BY <1>1, <2>1, Zenon DEF ParsedOf
  <2> QED BY <2>1, <2>2
<1>3. PICK sr, ss : sr = Scalars(sig).r /\ ss = Scalars(sig).s
  OBVIOUS
<1>4. /\ x[1] = uint_be(p.chain_id) /\ x[2] = uint_be(r.nonce) /\ x[3] = uint_be(p.tip)
      /\ x[4] = uint_be(p.max_fee) /\ x[5] = uint_be(r.gas) /\ x[6] = <<Blob(p.to, 20)>>
      /\ x[7] = uint_be(p.value) /\ x[8] = p.data /\ x[9] = <<>>
      /\ x[10] = uint_be(y) /\ x[11] = trim_leading_zeros(sr) /\ x[12] = trim_leading_zeros(ss)
      /\ x = [n \in 1 .. 12 |-> x[n]]
  <2>1. x = Twelve(p, r.nonce, r.gas, y, sr, ss)
    BY <1>1, <1>3, Zenon
  <2> QED BY <2>1 DEF Twelve
<1>5. DepositFields(x, id, to, e, r) /\ x[10] = uint_be(y)
  BY <1>2, <1>4, Zenon DEF DepositFields
<1>6. \E n \in {31, 32} : x[11] = <<Blob([r |-> sig], n)>>
  BY ONLY <1>3, <1>4, ScalarsTrimmed, Zenon
<1>7. x[12] = <<Blob([s |-> sig], 32)>>
  BY <1>3, <1>4, ScalarsTrimmed, Zenon
<1>8. PICK S : S = PiecesOf(to, e, sig)
  OBVIOUS
<1>9. /\ Octets \subseteq S /\ CallPieces(e) \subseteq S
      /\ {Blob(Address(to), 20), Blob([r |-> sig], 31), Blob([r |-> sig], 32), Blob([s |-> sig], 32)} \subseteq S
  BY <1>8, PiecesThere, Zenon
<1>10. \A n \in 1 .. 12 : x[n] \in Seq(S) /\ Length(x[n]) <= 500
  <2>1. SmallNumber(32) /\ SmallNumber(y)
    <3>1. 32 \in 0 .. 255 /\ y \in 0 .. 255
      BY DEF Bit
    <3> QED BY <3>1, OctetSmall, Zenon
  <2>2. \A n \in {1, 2, 3, 4, 5, 7, 10} : x[n] \in Seq(S) /\ Length(x[n]) <= 500
    <3>1. \A v : SmallNumber(v) => uint_be(v) \in Seq(S) /\ Length(uint_be(v)) <= 500
      BY <1>9, NumberSmall, Zenon
    <3>2. /\ x[1] = uint_be(id) /\ x[2] = uint_be(r.nonce) /\ x[3] = uint_be(r.tip)
          /\ x[4] = uint_be(r.max_fee) /\ x[5] = uint_be(r.gas) /\ x[7] = uint_be(32) /\ x[10] = uint_be(y)
      BY <1>2, <1>4, Zenon
    <3>3. \A n \in {1, 2, 3, 4, 5, 7, 10} : \E v : SmallNumber(v) /\ x[n] = uint_be(v)
      BY <2>1, <3>2, Zenon DEF SmallFees
    <3> TAKE n \in {1, 2, 3, 4, 5, 7, 10}
    <3>4. PICK v : SmallNumber(v) /\ x[n] = uint_be(v)
      BY <3>3, Zenon
    <3> QED BY <3>1, <3>4, Zenon
  <2>3. x[6] \in Seq(S) /\ Length(x[6]) <= 500
    <3>1. Blob(Address(to), 20) \in S /\ 20 \in {20, 31, 32}
      BY <1>9
    <3>2. x[6] = <<Blob(Address(to), 20)>>
      BY <1>2, <1>4, Zenon
    <3> QED BY <3>1, <3>2, SingleSmall, ZenonT(40)
  <2>4. x[8] \in Seq(S) /\ Length(x[8]) <= 500
    <3>1. PICK C : C = CallPieces(e)
      OBVIOUS
    <3>6. PICK d : d = pack_deposit(e)
      OBVIOUS
    <3>7. pack_deposit(e) \in Seq(CallPieces(e)) /\ Length(pack_deposit(e)) = 420
      BY CallOfDeposit, Zenon
    <3>2. d = pack_deposit(e) /\ d \in Seq(C) /\ Length(d) = 420
      BY <3>1, <3>6, <3>7, Zenon
    <3>3. C \subseteq S
      BY <1>9, <3>1, Zenon
    <3>4. d \in Seq(S)
      BY <3>2, <3>3
    <3>5. Length(d) <= 500
      BY <3>2
    <3> QED BY <1>2, <1>4, <3>2, <3>4, <3>5, Zenon
  <2>5. x[9] \in Seq(S) /\ Length(x[9]) <= 500
    <3>1. <<>> \in Seq(S)
      OBVIOUS
    <3>2. Length(<<>>) = 0
      BY LengthSmall
    <3>3. Length(<<>>) <= 500
      BY <3>2
    <3> QED BY <1>4, <3>1, <3>3, Zenon
  <2>6. x[11] \in Seq(S) /\ Length(x[11]) <= 500
    <3>1. PICK n \in {31, 32} : x[11] = <<Blob([r |-> sig], n)>>
      BY <1>6
    <3>2. n = 31 \/ n = 32
      OBVIOUS
    <3>3. Blob([r |-> sig], n) \in S /\ n \in {20, 31, 32}
      BY <1>9, <3>2, Zenon
    <3>4. PICK c : c = [r |-> sig]
      OBVIOUS
    <3>5. Blob(c, 31) \in S /\ Blob(c, 32) \in S /\ 31 \in {20, 31, 32} /\ 32 \in {20, 31, 32}
      BY <1>9, <3>4, Zenon
    <3>6. <<Blob(c, 31)>> \in Seq(S) /\ Length(<<Blob(c, 31)>>) <= 500
      BY <3>5, SingleSmall, Zenon
    <3>7. <<Blob(c, 32)>> \in Seq(S) /\ Length(<<Blob(c, 32)>>) <= 500
      BY <3>5, SingleSmall, Zenon
    <3> QED BY <3>1, <3>2, <3>4, <3>6, <3>7, SMT
  <2>7. x[12] \in Seq(S) /\ Length(x[12]) <= 500
    <3>1. Blob([s |-> sig], 32) \in S /\ 32 \in {20, 31, 32}
      BY <1>9
    <3>4. PICK c : c = [s |-> sig]
      OBVIOUS
    <3>5. Blob(c, 32) \in S
      BY <3>1, <3>4, Zenon
    <3>6. <<Blob(c, 32)>> \in Seq(S) /\ Length(<<Blob(c, 32)>>) <= 500
      BY ONLY <3>1, <3>5, SingleSmall, Zenon
    <3> QED BY <1>7, <3>4, <3>6, Zenon
  <2>8. \A n \in 1 .. 12 : n \in {1, 2, 3, 4, 5, 7, 10} \/ n = 6 \/ n = 8 \/ n = 9 \/ n = 11 \/ n = 12
    OBVIOUS
  <2> QED BY ONLY <2>2, <2>3, <2>4, <2>5, <2>6, <2>7, <2>8, ZenonT(40)
<1>11. Nested(x, S)
  <2>1. 12 \in Nat /\ \A n \in 1 .. 12 : x[n] \in Seq(S)
    BY <1>10
  <2> QED BY <1>4, <2>1, NestedIs
<1>12. Small(x, S)
  BY <1>10, Zenon DEF Small
<1>13. Sound(PiecesOf(to, e, sig), x)
  <2>1. Pieces(S)
    BY <1>8, PiecesThere, Zenon
  <2> QED BY <1>8, <1>9, <1>11, <1>12, <2>1, Zenon DEF Sound
<1> QED BY <1>5, <1>6, <1>7, <1>13, Zenon DEF Laid

(* A node reads from the raw bytes the deposit, the fees and the account     *)
(* that were signed: every length fits its header, and no number loses a     *)
(* byte.                                                                     *)
LEMMA NodeReads ==
  ASSUME NEW id \in Nat \ {0}, SmallNumber(id), NEW to, NEW e,
         NEW r, SmallFees(r),
         NEW raw, NEW k, Signs(raw, ParsedOf(id, to, e, r), UnsignedOf(id, to, e, r), k)
  PROVE  \E f : /\ Fields(raw.value) = Success(f) /\ DepositFields(f, id, to, e, r) /\ SignedFields(f, k)
<1>1. PICK p, u : p = ParsedOf(id, to, e, r) /\ u = UnsignedOf(id, to, e, r)
  OBVIOUS
<1>2. PICK h : h = SigHash(p, u)
  OBVIOUS
<1>3. PICK neg, v : /\ raw = Quantity(Envelope(p, u, Sig(k, h, neg), v))
                    /\ ~IsHigh(Sig(k, h, neg))
                    /\ v = (OddY(k, h) # neg)
  BY <1>1, <1>2, Zenon DEF Signs
<1>4. PICK sig : sig = Sig(k, h, neg)
  OBVIOUS
<1>5. PICK y : y = IF v THEN 1 ELSE 0
  OBVIOUS
<1>6. Bit(y)
  BY <1>5 DEF Bit
<1>7. u.nonce = r.nonce /\ u.gas = r.gas
  <2>1. PICK a, b, c, d, m, n, g : a = Address(to) /\ b = Quantity(32) /\ c = Quantity(pack_deposit(e)) /\ d = Quantity(r.max_fee)
                                /\ m = Quantity(r.tip) /\ n = r.nonce /\ g = r.gas
    OBVIOUS
  <2>2. u = [chain_id |-> id, to |-> a, value |-> b, data |-> c, gas |-> g, maxFeePerGas |-> d,
             maxPriorityFeePerGas |-> m, nonce |-> n]
    BY <1>1, <2>1, Zenon DEF UnsignedOf
  <2> QED BY <2>1, <2>2
<1>8. PICK x : x = Twelve(p, r.nonce, r.gas, y, Scalars(sig).r, Scalars(sig).s)
  OBVIOUS
<1>9. /\ DepositFields(x, id, to, e, r) /\ x[10] = uint_be(y)
      /\ \E n \in {31, 32} : x[11] = <<Blob([r |-> sig], n)>>
      /\ x[12] = <<Blob([s |-> sig], 32)>>
      /\ Sound(PiecesOf(to, e, sig), x)
  <2>1. x = Twelve(ParsedOf(id, to, e, r), r.nonce, r.gas, y, Scalars(sig).r, Scalars(sig).s)
    BY <1>1, <1>8, Zenon
  <2>2. Laid(x, id, to, e, r, sig, y)
    BY <1>6, <2>1, DepositTwelve, Zenon
  <2> QED BY <2>2, Zenon DEF Laid
<1>10. PICK S : S = PiecesOf(to, e, sig)
  OBVIOUS
<1>12. PICK env : env = eip1559_envelope(p, r.nonce, r.gas, y, Scalars(sig).r, Scalars(sig).s)
  OBVIOUS
<1>13. /\ Fields(env) = Success(x)
       /\ Payload(x) = eip1559_signing_payload(p, r.nonce, r.gas)
  <2>2. PICK a, b, c, d : a = r.nonce /\ b = r.gas /\ c = Scalars(sig).r /\ d = Scalars(sig).s
    OBVIOUS
  <2>3. x = Twelve(p, a, b, y, c, d)
    BY <1>8, <2>2, Zenon
  <2>4. /\ Fields(eip1559_envelope(p, a, b, y, c, d)) = Success(x)
        /\ Payload(x) = eip1559_signing_payload(p, a, b)
    <3>1. Sound(S, Twelve(p, a, b, y, c, d))
      BY <1>9, <1>10, <2>3, Zenon
    <3>2. /\ Fields(eip1559_envelope(p, a, b, y, c, d)) = Success(Twelve(p, a, b, y, c, d))
          /\ Payload(Twelve(p, a, b, y, c, d)) = eip1559_signing_payload(p, a, b)
      BY ONLY <3>1, EnvelopeRead, Zenon
    <3> QED BY <2>3, <3>2, Zenon
  <2> QED BY <1>12, <2>2, <2>4, Zenon
<1>14. raw.value = env
  <2>1. \A q : Quantity(q).value = q
    BY DEF Quantity
  <2>2. Envelope(p, u, sig, v) = env
    BY <1>5, <1>7, <1>12, Zenon DEF Envelope
  <2> QED BY <1>3, <1>4, <2>1, <2>2, Zenon
<1>15. (x[10] # <<>>) = v
  <2>1. v \in BOOLEAN
    BY <1>3, Zenon
  <2>2. CASE v
    <3>1. y = 1
      BY <1>5, <2>2
    <3>2. x[10] # <<>>
      BY <1>9, <3>1, OneBit, Zenon
    <3> QED BY <2>1, <2>2, <3>2, Zenon
  <2>3. CASE ~v
    <3>1. y = 0
      BY <1>5, <2>3
    <3>2. x[10] = <<>>
      BY <1>9, <3>1, OneBit, Zenon
    <3> QED BY <2>1, <2>3, <3>2, Zenon
  <2> QED BY <2>2, <2>3, Zenon
<1>16. recover_address(keccak256(Payload(x)), sig, x[10] # <<>>) = pubkey_address(k)
  <2>1. sig.key = k /\ sig.over = h /\ sig.neg = neg
    <3>1. Sig(k, h, neg).key = k /\ Sig(k, h, neg).over = h /\ Sig(k, h, neg).neg = neg
      BY SigParts
    <3> QED BY <1>4, <3>1, Zenon
  <2>2. keccak256(Payload(x)) = h
    BY <1>2, <1>7, <1>13, Zenon DEF SigHash
  <2>3. v = (OddY(sig.key, sig.over) # sig.neg)
    BY <1>3, <2>1, Zenon
  <2>4. recover_address(h, sig, v) = pubkey_address(k)
    BY <2>1, <2>3, Zenon DEF recover_address
  <2> QED BY <1>15, <2>2, <2>4, Zenon
<1>17. SignedFields(x, k)
  BY <1>3, <1>4, <1>9, <1>16, Zenon DEF SignedFields
<1> QED BY <1>9, <1>13, <1>14, <1>17, Zenon

-----------------------------------------------------------------------------
(* How the others judge a deposit that is well made. *)

(* An entry of gen for the chain, of the amount. *)
GoodDeposit(e) == Verifies(e) /\ e.network_name = Chain /\ e.amount = Amount

(* The contract takes it and the beacon chain finds its signature good. *)
LEMMA DepositJudged ==
  ASSUME NEW e, GoodDeposit(e)
  PROVE  DepositVerdict(Call(pack_deposit(e))) = "effective"
<1>1. PICK pk, wc, sg, rt : pk = e.pubkey /\ wc = e.withdrawal_credentials /\ sg = e.signature /\ rt = e.deposit_data_root
  OBVIOUS
<1>2. PICK d : d = [pubkey |-> pk, withdrawal_credentials |-> wc, signature |-> sg, deposit_data_root |-> rt]
  OBVIOUS
<1>3. Call(pack_deposit(e)) = Success(d)
  BY <1>1, <1>2, CallOfDeposit, Zenon
<1>4. d.pubkey = pk /\ d.withdrawal_credentials = wc /\ d.signature = sg /\ d.deposit_data_root = rt
  BY <1>2
<1>5. ContractRoot(d) = d.deposit_data_root
  <2>1. ContractRoot(d) = ContractRoot(e)
    BY <1>1, <1>4, Zenon DEF ContractRoot
  <2>2. e.deposit_data_root = ContractRoot(e)
    BY Zenon DEF GoodDeposit, Verifies
  <2> QED BY <1>1, <1>4, <2>1, <2>2, Zenon
<1>6. GoodForFork(d)
  <2>1. PICK m : m = [pubkey |-> pk, amount |-> Amount, withdrawal_credentials |-> wc]
    OBVIOUS
  <2>2. m.pubkey = pk /\ m.withdrawal_credentials = wc /\ m.amount = Amount
    BY <2>1
  <2>3. DepositMessageRoot(m) = DepositMessageRoot(e)
    <3>1. e.amount = Amount
      BY Zenon DEF GoodDeposit
    <3> QED BY <1>1, <2>2, <3>1, Zenon DEF DepositMessageRoot
  <2>4. verify(e.pubkey, compute_signing_root(DepositMessageRoot(e),
                             compute_domain(DOMAIN_DEPOSIT, lookup_network[Chain].genesis_fork_version)),
               e.signature) = Success(TRUE)
    BY Zenon DEF GoodDeposit, Verifies
  <2>5. verify(d.pubkey, compute_signing_root(DepositMessageRoot(m),
                             compute_domain(DOMAIN_DEPOSIT, lookup_network[Chain].genesis_fork_version)),
               d.signature) = Success(TRUE)
    BY <1>1, <1>4, <2>3, <2>4, Zenon
  <2> QED BY <1>4, <2>1, <2>5, Zenon DEF GoodForFork
<1>7. Success(d).ok /\ Success(d).value = d
  BY Results
<1>8. PICK c : c = Success(d)
  OBVIOUS
<1>9. DepositVerdict(c) = "effective"
  BY <1>5, <1>6, <1>7, <1>8, Zenon DEF DepositVerdict
<1> QED BY <1>3, <1>8, <1>9, Zenon

(* What a node makes of such fields: nothing but the account, the fee or the *)
(* gas fails them.                                                           *)
LEMMA NodeJudges ==
  ASSUME NEW e, GoodDeposit(e), NEW r, SmallFees(r), NEW k, NEW f,
         SmallNumber(lookup_network[Chain].chain_id),
         DepositFields(f, lookup_network[Chain].chain_id, lookup_network[Chain].deposit_contract_address, e, r),
         SignedFields(f, k)
  PROVE  /\ FieldsVerdict(f) \in {"effective", "account", "underpriced", "out-of-gas"}
         /\ k = SenderKey /\ r.nonce = SenderNonce /\ ~(r.max_fee < chain.base) /\ ~(r.tip > r.max_fee)
              /\ ~(r.gas < chain.gas)
            => FieldsVerdict(f) = "effective"
<1>1. PICK net : net = lookup_network[Chain]
  OBVIOUS
<1>2. PICK sig, n :
         /\ n \in {31, 32} /\ f[11] = <<Blob([r |-> sig], n)>> /\ f[12] = <<Blob([s |-> sig], 32)>>
         /\ ~IsHigh(sig)
         /\ recover_address(keccak256(Payload(f)), sig, f[10] # <<>>) = pubkey_address(k)
  BY Zenon DEF SignedFields
<1>3. /\ Uint(f[1]) = net.chain_id /\ Uint(f[2]) = r.nonce /\ Uint(f[3]) = r.tip /\ Uint(f[4]) = r.max_fee
      /\ Uint(f[5]) = r.gas
      /\ f[6] = <<Blob(Address(net.deposit_contract_address), 20)>>
      /\ f[8] = pack_deposit(e) /\ f[9] = <<>>
  <2>1. \A v : SmallNumber(v) => Uint(uint_be(v)) = v
    BY ReadAsWritten, Zenon DEF SmallNumber
  <2>2. /\ f[1] = uint_be(net.chain_id) /\ f[2] = uint_be(r.nonce) /\ f[3] = uint_be(r.tip)
        /\ f[4] = uint_be(r.max_fee) /\ f[5] = uint_be(r.gas)
        /\ f[6] = <<Blob(Address(net.deposit_contract_address), 20)>>
        /\ f[8] = pack_deposit(e) /\ f[9] = <<>>
    BY <1>1, Zenon DEF DepositFields
  <2>3. SmallNumber(net.chain_id) /\ SmallNumber(r.nonce) /\ SmallNumber(r.tip) /\ SmallNumber(r.max_fee) /\ SmallNumber(r.gas)
    BY <1>1, Zenon DEF SmallFees
  <2> QED BY <2>1, <2>2, <2>3, Zenon
<1>4. f[11][1].blob.r = sig /\ f[11][1] # Byte(0)
  <2>1. PICK c : c = [r |-> sig]
    OBVIOUS
  <2>2. PICK b : b = Blob(c, n)
    OBVIOUS
  <2>3. b.blob = c /\ b.len = n
    BY <2>2 DEF Blob
  <2>4. Byte(0).len = 1
    BY DEF Byte
  <2>5. f[11][1] = b
    <3>1. PICK t : t = <<b>>
      OBVIOUS
    <3>2. t[1] = b
      BY <3>1
    <3>3. f[11] = t
      BY <1>2, <2>1, <2>2, <3>1, Zenon
    <3> QED BY <3>2, <3>3, Zenon
  <2>6. c.r = sig
    BY <2>1
  <2>7. n # 1
    BY <1>2
  <2> QED BY <2>3, <2>4, <2>5, <2>6, <2>7, Zenon
<1>5. DepositVerdict(Call(f[8])) = "effective"
  BY <1>3, DepositJudged, Zenon
<1>6. PICK from : from = recover_address(keccak256(Payload(f)), sig, f[10] # <<>>)
  OBVIOUS
<1>7. from = pubkey_address(k) /\ from # Stranger
  <2>1. pubkey_address(k) # Stranger
    BY DEF pubkey_address, Stranger
  <2> QED BY <1>2, <1>6, <2>1, Zenon
<1>8. FieldsVerdict(f) =
        IF from # Sender \/ r.nonce # SenderNonce THEN "account"
        ELSE IF r.max_fee < chain.base \/ r.tip > r.max_fee THEN "underpriced"
        ELSE IF r.gas < chain.gas THEN "out-of-gas" ELSE "effective"
  <2> DEFINE S == f[11][1].blob.r
             F == recover_address(keccak256(Payload(f)), S, f[10] # <<>>)
             id == lookup_network[Chain].chain_id
             good == IF F # Sender \/ Uint(f[2]) # SenderNonce THEN "account"
                     ELSE IF Uint(f[4]) < chain.base \/ Uint(f[3]) > Uint(f[4]) THEN "underpriced"
                     ELSE IF Uint(f[5]) < chain.gas THEN "out-of-gas"
                     ELSE IF f[6] # <<Blob(Address(lookup_network[Chain].deposit_contract_address), 20)>>
                          THEN "elsewhere" ELSE DepositVerdict(Call(f[8]))
  <2>1. FieldsVerdict(f) =
          IF f[9] # <<>> \/ f[11][1] = Byte(0) \/ f[12] # <<Blob([s |-> S], 32)>> THEN "malformed"
          ELSE CASE Uint(f[1]) # id -> "chain-id"
                 [] Uint(f[1]) = id /\ (IsHigh(S) \/ F = Stranger) -> "signature"
                 [] OTHER -> good
    BY Zenon DEF FieldsVerdict, Payload
  <2>2. S = sig /\ F = from /\ id = net.chain_id
    BY <1>1, <1>4, <1>6, Zenon
  <2>3. good = IF from # Sender \/ r.nonce # SenderNonce THEN "account"
               ELSE IF r.max_fee < chain.base \/ r.tip > r.max_fee THEN "underpriced"
               ELSE IF r.gas < chain.gas THEN "out-of-gas" ELSE "effective"
    BY <1>1, <1>3, <1>5, <2>2, Zenon
  <2> HIDE DEF S, F, id, good
  <2>4. ~(f[9] # <<>> \/ f[11][1] = Byte(0) \/ f[12] # <<Blob([s |-> S], 32)>>)
    BY <1>2, <1>3, <1>4, <2>2, Zenon
  <2>5. Uint(f[1]) = id /\ ~(IsHigh(S) \/ F = Stranger)
    BY <1>2, <1>3, <1>7, <2>2, Zenon
  <2>6. FieldsVerdict(f) = good
    BY <2>1, <2>4, <2>5, Zenon
  <2> QED BY <2>3, <2>6, Zenon
<1>9. k = SenderKey => from = Sender
  BY <1>7, Zenon DEF Sender
<1> QED BY <1>8, <1>9, Zenon

-----------------------------------------------------------------------------
(* The numbers of a transaction are small enough for any header. *)

(* No number is longer than a longer one. *)
LEMMA Within ==
  ASSUME NEW m \in Nat \ {0}, Len(uint_be(m - 1)) <= 16, NEW v \in 0 .. m - 1
  PROVE  SmallNumber(v)
<1>1. PICK w \in Nat : w = m - 1 /\ v \in Nat /\ v <= w
  OBVIOUS
<1>2. Len(uint_be(v)) <= Len(uint_be(w))
  BY <1>1, BytesGrow
<1>3. uint_be(v) \in Seq(Octets) /\ uint_be(w) \in Seq(Octets)
  BY <1>1, BytesOf, Zenon
<1>4. PICK a \in Seq(Octets), b \in Seq(Octets) : a = uint_be(v) /\ b = uint_be(w)
  BY <1>3
<1>5. PICK i \in Nat, j \in Nat : i = Len(a) /\ j = Len(b)
  OBVIOUS
<1>6. i <= j /\ j <= 16
  BY <1>1, <1>2, <1>4, <1>5, Zenon
<1>7. i <= 16
  BY <1>6
<1> QED BY <1>1, <1>4, <1>5, <1>7, Zenon DEF SmallNumber

(* Numbers below 2 ^ 24 are short. *)
LEMMA ThreeBytes ==
  ASSUME NEW v \in Nat \ {0}, v < 256 * 256 * 256
  PROVE  SmallNumber(v)
<1>1. PICK d \in Nat : d = v \div 256 /\ d < 256 * 256
  <2>1. v \div 256 \in Nat /\ v = 256 * (v \div 256) + (v % 256) /\ v % 256 \in 0 .. 255
    OBVIOUS
  <2> QED BY <2>1
<1>2. uint_be(v) = Append(uint_be(d), Byte(v % 256))
  BY <1>1, BytesOf, Zenon
<1>3. Len(uint_be(d)) <= 2
  BY <1>1, FewBytes, Zenon
<1>4. uint_be(d) \in Seq(Octets)
  BY BytesOf, Zenon
<1>5. PICK b \in Seq(Octets) : b = uint_be(d)
  BY <1>4
<1>6. PICK c : c = Byte(v % 256)
  OBVIOUS
<1>7. Len(b) <= 2
  BY <1>3, <1>5, Zenon
<1>8. Len(Append(b, c)) <= 16
  BY <1>7
<1> QED BY <1>2, <1>5, <1>6, <1>8, Zenon DEF SmallNumber

(* So is the id of the chain, and it is not 0. *)
LEMMA ChainIdSmall ==
  SmallNumber(lookup_network[Chain].chain_id) /\ lookup_network[Chain].chain_id \in Nat \ {0}
<1>1. lookup_network[Chain].chain_id \in {1, 560048, 11155111, 17000}
  BY ChainAssumption DEF lookup_network, Params
<1>2. PICK v \in Nat \ {0} : v = lookup_network[Chain].chain_id /\ v < 256 * 256 * 256
  BY <1>1
<1> QED BY <1>2, ThreeBytes, Zenon

(* What the builder may put into a transaction.                              *)
Amounts == {0, 1, 2, BaseFee, GasNeeded, SenderNonce, gas_limit(GasNeeded), max_fee(BaseFee, 1), max_fee(BaseFee, 2),
            DEFAULT_GAS_LIMIT, DEFAULT_MAX_FEE_PER_GAS, DEFAULT_MAX_PRIORITY_FEE_PER_GAS}

(* No sum of the builder wraps. *)
LEMMA BuilderSums ==
  /\ gas_limit(GasNeeded) = (6 * GasNeeded) \div 5 /\ gas_limit(GasNeeded) \in 0 .. GasModulus - 1
  /\ max_fee(BaseFee, 1) = 2 * BaseFee + 1 /\ max_fee(BaseFee, 2) = 2 * BaseFee + 2
<1>1. PICK g \in Nat, m \in Nat \ {0} : g = GasNeeded /\ m = GasModulus
  BY LifecycleAssumption, TxDataAssumption
<1>2. 6 * g < m
  BY <1>1, ChainAssumption
<1>3. (g * 6) % m = 6 * g
  BY <1>2
<1>4. ((g * 6) % m) \div 5 = (6 * g) \div 5
  BY <1>3
<1>5. (6 * g) \div 5 \in 0 .. m - 1
  <2>1. PICK h \in Nat : h = 6 * g
    OBVIOUS
  <2>2. h \div 5 \in Nat /\ h = 5 * (h \div 5) + (h % 5) /\ h % 5 \in 0 .. 4
    OBVIOUS
  <2> QED BY <1>2, <2>1, <2>2
<1>6. PICK b \in Nat, f \in Nat \ {0} : b = BaseFee /\ f = FeeModulus
  BY LifecycleAssumption, TxDataAssumption
<1>7. 2 * b + 2 < f
  BY <1>6, ChainAssumption
<1>8. (2 * b + 1) % f = 2 * b + 1 /\ (2 * b + 2) % f = 2 * b + 2
  BY <1>7
<1>9. gas_limit(GasNeeded) = (6 * GasNeeded) \div 5 /\ gas_limit(GasNeeded) \in 0 .. GasModulus - 1
  BY <1>1, <1>4, <1>5, Zenon DEF gas_limit
<1>10. max_fee(BaseFee, 1) = 2 * BaseFee + 1 /\ max_fee(BaseFee, 2) = 2 * BaseFee + 2
  BY <1>6, <1>8, Zenon DEF max_fee
<1> QED BY <1>9, <1>10

(* All of them are short. *)
LEMMA AmountsSmall ==
  \A v \in Amounts : SmallNumber(v)
<1>1. \A m \in {FeeModulus, GasModulus, U64} : m \in Nat \ {0} /\ Len(uint_be(m - 1)) <= 16
  BY ChainAssumption, TxDataAssumption, JsonRpcAssumption
<1>2. \A m \in {FeeModulus, GasModulus, U64} : \A v \in 0 .. m - 1 : SmallNumber(v)
  <2> TAKE m \in {FeeModulus, GasModulus, U64}
  <2>1. m \in Nat \ {0} /\ Len(uint_be(m - 1)) <= 16
    BY <1>1
  <2> QED BY <2>1, Within
<1>3. SmallNumber(0) /\ SmallNumber(1) /\ SmallNumber(2)
  BY OctetSmall
<1>4. /\ {BaseFee, max_fee(BaseFee, 1), max_fee(BaseFee, 2), DEFAULT_MAX_FEE_PER_GAS, DEFAULT_MAX_PRIORITY_FEE_PER_GAS}
           \subseteq 0 .. FeeModulus - 1
      /\ {GasNeeded, gas_limit(GasNeeded), DEFAULT_GAS_LIMIT} \subseteq 0 .. GasModulus - 1
      /\ SenderNonce \in 0 .. U64 - 1
  <2>1. PICK b \in Nat, f \in Nat \ {0} : b = BaseFee /\ f = FeeModulus
    BY LifecycleAssumption, TxDataAssumption
  <2>2. 2 * b + 2 < f
    BY <2>1, ChainAssumption
  <2>3. {b, 2 * b + 1, 2 * b + 2} \subseteq 0 .. f - 1
    BY <2>2
  <2>4. PICK g \in Nat, m \in Nat \ {0} : g = GasNeeded /\ m = GasModulus
    BY LifecycleAssumption, TxDataAssumption
  <2>5. 6 * g < m
    BY <2>4, ChainAssumption
  <2>6. g \in 0 .. m - 1
    BY <2>5
  <2>7. /\ max_fee(BaseFee, 1) = 2 * b + 1 /\ max_fee(BaseFee, 2) = 2 * b + 2
        /\ gas_limit(GasNeeded) \in 0 .. m - 1
    BY <2>1, <2>4, BuilderSums, Zenon
  <2>8. /\ SenderNonce \in 0 .. U64 - 1 /\ DEFAULT_GAS_LIMIT \in 0 .. GasModulus - 1
        /\ {DEFAULT_MAX_FEE_PER_GAS, DEFAULT_MAX_PRIORITY_FEE_PER_GAS} \subseteq 0 .. FeeModulus - 1
    BY ChainAssumption, Zenon
  <2>9. {BaseFee, max_fee(BaseFee, 1), max_fee(BaseFee, 2)} \subseteq 0 .. FeeModulus - 1
    BY <2>1, <2>3, <2>7, Zenon
  <2>10. {GasNeeded, gas_limit(GasNeeded)} \subseteq 0 .. GasModulus - 1
    BY <2>4, <2>6, <2>7, Zenon
  <2> QED BY <2>8, <2>9, <2>10, Zenon
<1> QED BY <1>2, <1>3, <1>4, Zenon DEF Amounts

-----------------------------------------------------------------------------
(* From a configuration to an unsigned transaction. *)

(* An entry is taken as it is, or the file is refused.                       *)
LEMMA EntriesAsWritten ==
  ASSUME NEW data, entries_from_json(data).ok
  PROVE  entries_from_json(data).value = [i \in DOMAIN data.entries |-> data.entries[i]]
<1>1. \A raw : entry_from_raw(raw).ok => entry_from_raw(raw).value = raw
  <2> TAKE raw
  <2>1. entry_from_raw(raw) = Success(raw) \/ \E e : entry_from_raw(raw) = Failure(e)
    BY Zenon DEF entry_from_raw
  <2> QED BY <2>1, Results, Zenon
<1> DEFINE read == [i \in DOMAIN data.entries |-> entry_from_raw(data.entries[i])]
           bad  == {i \in DOMAIN read : ~read[i].ok}
           out  == [i \in DOMAIN read |-> read[i].value]
<1>2. entries_from_json(data) = CASE ~data.json -> Failure("UnmarshalEntries")
                                  [] data.json /\ bad # {} -> Failure("EntryAt")
                                  [] OTHER -> Success(out)
  BY Zenon DEF entries_from_json
<1>3. bad = {} /\ entries_from_json(data) = Success(out)
  <2> HIDE DEF bad, out
  <2> QED BY <1>2, Results, Zenon
<1>4. entries_from_json(data).value = out
  <2> HIDE DEF out
  <2> QED BY <1>3, Results, Zenon
<1>5. \A i \in DOMAIN data.entries : read[i].value = data.entries[i]
  BY <1>1, <1>3
<1> QED BY <1>4, <1>5

(* What is asked for, with or without a node. *)
FullConfig(c) == IF c.rpc # Absent THEN [c EXCEPT !.rpc = TRUE] ELSE [OfflineDefaults(c) EXCEPT !.rpc = FALSE]

(* What the builder made, of which entry and with which fees. *)
BuiltOf(c, data, peer, entry, r) ==
  /\ c.index \in 0 .. Len(data.entries) - 1 /\ entry = data.entries[c.index + 1]
  /\ ValidEntry(entry)
  /\ resolve_fields(FullConfig(c), Answers(peer)).ok /\ r = resolve_fields(FullConfig(c), Answers(peer)).value
  /\ build_unsigned_tx(c, data, peer) =
       Success(UnsignedOf(FullConfig(c).params.chain_id, FullConfig(c).params.deposit_contract_address, entry, r))

(* What a node answers, if it answers. *)
UsualAnswers(a) ==
  /\ a.tip.ok => a.tip.value = 1
  /\ a.base_fee.ok => a.base_fee.value = BaseFee
  /\ a.nonce.ok => a.nonce.value = SenderNonce
  /\ a.estimate.ok => a.estimate.value = GasNeeded

(* The fees that a transaction may have, and those that came from a node.   *)
GoodFees(r, asked) ==
  /\ r.gas \in Amounts /\ r.max_fee \in Amounts /\ r.tip \in Amounts /\ r.nonce \in Amounts
  /\ asked => /\ r.gas = gas_limit(GasNeeded) /\ r.nonce = SenderNonce
              /\ r.tip \in {1, 2} /\ r.max_fee = max_fee(BaseFee, r.tip)

(* What may be typed as a fee. *)
FlagFees(c) ==
  /\ c.gas \in {0, GasNeeded} /\ c.max_fee \in {Unset, BaseFee}
  /\ c.tip \in {Unset, 2} /\ c.nonce \in {Unset, SenderNonce}

(* What is typed counts, and a node is asked for the rest. *)
LEMMA RpcAnswered ==
  ASSUME NEW c, NEW n, resolve_rpc(c, n).ok
  PROVE  LET tip   == IF c.tip # Unset THEN Success(c.tip) ELSE n.tip
             base  == IF c.max_fee # Unset THEN Success(0) ELSE n.base_fee
             sent  == IF c.from = NoSender THEN Failure("MissingFromForNonce") ELSE n.nonce
             nonce == IF c.nonce # Unset THEN Success(c.nonce) ELSE sent
             gas   == IF c.gas # 0 THEN Success(0) ELSE n.estimate
         IN  /\ tip.ok /\ base.ok /\ nonce.ok /\ gas.ok
             /\ resolve_rpc(c, n) =
                  Success(Resolved(IF c.gas # 0 THEN c.gas ELSE gas_limit(gas.value),
                                   IF c.max_fee # Unset THEN c.max_fee ELSE max_fee(base.value, tip.value),
                                   tip.value, nonce.value))
<1> DEFINE chain_ == n.chain_id
           tip   == IF c.tip # Unset THEN Success(c.tip) ELSE n.tip
           base  == IF c.max_fee # Unset THEN Success(0) ELSE n.base_fee
           sent  == IF c.from = NoSender THEN Failure("MissingFromForNonce") ELSE n.nonce
           nonce == IF c.nonce # Unset THEN Success(c.nonce) ELSE sent
           gas   == IF c.gas # 0 THEN Success(0) ELSE n.estimate
           asked == <<tip, base, nonce, gas>>
           bad   == {i \in DOMAIN asked : ~asked[i].ok}
           first == asked[Min(bad)]
           other == Failure("ChainIdMismatch")
           good  == Success(Resolved(IF c.gas # 0 THEN c.gas ELSE gas_limit(gas.value),
                                     IF c.max_fee # Unset THEN c.max_fee ELSE max_fee(base.value, tip.value),
                                     tip.value, nonce.value))
           g1    == chain_.ok /\ chain_.value # 0 /\ chain_.value # c.params.chain_id
<1>1. resolve_rpc(c, n) = CASE g1 -> other [] bad # {} -> first [] OTHER -> good
  BY Zenon DEF resolve_rpc
<1>2. bad # {} => ~first.ok
  <2> HIDE DEF tip, base, nonce, gas
  <2>1. bad \subseteq Nat /\ \A i \in bad : ~asked[i].ok
    OBVIOUS
  <2> HIDE DEF bad, asked
  <2>3. bad # {} => Min(bad) \in bad
    BY <2>1, MinOf
  <2> QED BY <2>1, <2>3
<1>3. ~other.ok
  BY Results
<1>4. ~g1
  <2>1. ASSUME g1
        PROVE  resolve_rpc(c, n) \in {other, first}
    <3> HIDE DEF bad, first, other, good, g1
    <3>1. CASE bad # {}
      <4>1. (CASE g1 -> other [] bad # {} -> first [] OTHER -> good) \in {other, first}
        BY <2>1, <3>1, Zenon
      <4> QED BY <1>1, <4>1, Zenon
    <3>2. CASE ~(bad # {})
      <4>1. (CASE g1 -> other [] bad # {} -> first [] OTHER -> good) \in {other, first}
        BY <2>1, <3>2, Zenon
      <4> QED BY <1>1, <4>1, Zenon
    <3> QED BY <3>1, <3>2
  <2> HIDE DEF bad, first, other, good, g1
  <2>2. CASE g1 /\ bad = {}
    <3>1. resolve_rpc(c, n) = other
      BY <1>1, <2>2, Zenon
    <3> QED BY <1>3, <3>1, Zenon
  <2>3. CASE g1 /\ bad # {}
    <3> QED BY <1>2, <1>3, <2>1, <2>3, Zenon
  <2> QED BY <2>2, <2>3
<1>5. bad = {} /\ resolve_rpc(c, n) = good
  <2> HIDE DEF bad, first, other, good, g1
  <2>1. CASE bad # {}
    <3>1. resolve_rpc(c, n) = first
      BY <1>1, <1>4, <2>1, Zenon
    <3> QED BY <1>2, <2>1, <3>1, Zenon
  <2>2. CASE bad = {}
    BY <1>1, <1>4, <2>2, Zenon
  <2> QED BY <2>1, <2>2
<1>6. tip.ok /\ base.ok /\ nonce.ok /\ gas.ok
  <2> HIDE DEF tip, base, nonce, gas
  <2>1. \A i \in 1 .. 4 : asked[i].ok
    BY <1>5
  <2>2. asked[1] = tip /\ asked[2] = base /\ asked[3] = nonce /\ asked[4] = gas
    OBVIOUS
  <2>3. 1 \in 1 .. 4 /\ 2 \in 1 .. 4 /\ 3 \in 1 .. 4 /\ 4 \in 1 .. 4
    OBVIOUS
  <2> HIDE DEF asked
  <2> QED BY <2>1, <2>2, <2>3
<1>7. resolve_rpc(c, n) = good
  BY <1>5
<1> HIDE DEF bad
<1> QED BY <1>6, <1>7, Zenon

(* The parts of resolved fees. *)
LEMMA ResolvedParts ==
  \A g, m, t, n : /\ Resolved(g, m, t, n).gas = g /\ Resolved(g, m, t, n).max_fee = m
                 /\ Resolved(g, m, t, n).tip = t /\ Resolved(g, m, t, n).nonce = n
BY DEF Resolved

(* Fees with a node are good, and the node's unless gas or fee was typed. *)
LEMMA RpcFees ==
  ASSUME NEW c, FlagFees(c), NEW n, UsualAnswers(n), resolve_rpc(c, n).ok
  PROVE  \E r : resolve_rpc(c, n) = Success(r) /\ GoodFees(r, c.gas = 0 /\ c.max_fee = Unset)
<1> DEFINE tip   == IF c.tip # Unset THEN Success(c.tip) ELSE n.tip
           base  == IF c.max_fee # Unset THEN Success(0) ELSE n.base_fee
           sent  == IF c.from = NoSender THEN Failure("MissingFromForNonce") ELSE n.nonce
           nonce == IF c.nonce # Unset THEN Success(c.nonce) ELSE sent
           gas   == IF c.gas # 0 THEN Success(0) ELSE n.estimate
           G == IF c.gas # 0 THEN c.gas ELSE gas_limit(gas.value)
           M == IF c.max_fee # Unset THEN c.max_fee ELSE max_fee(base.value, tip.value)
<1>1. tip.ok /\ base.ok /\ nonce.ok /\ gas.ok /\ resolve_rpc(c, n) = Success(Resolved(G, M, tip.value, nonce.value))
  BY RpcAnswered, Zenon
<1>2. tip.value \in {1, 2}
  BY <1>1, Results DEF FlagFees, UsualAnswers
<1>3. nonce.value = SenderNonce
  <2>1. sent.ok => sent.value = SenderNonce
    BY Results DEF UsualAnswers
  <2> HIDE DEF sent
  <2> QED BY <1>1, <2>1, Results DEF FlagFees
<1>4. c.max_fee = Unset => base.value = BaseFee
  BY <1>1 DEF UsualAnswers
<1>5. c.gas = 0 => gas.value = GasNeeded
  BY <1>1 DEF UsualAnswers
<1> HIDE DEF tip, base, nonce, gas
<1>6. G \in {GasNeeded, gas_limit(GasNeeded)} /\ (c.gas = 0 => G = gas_limit(GasNeeded))
  BY <1>5, Zenon DEF FlagFees
<1>7. M \in {BaseFee, max_fee(BaseFee, tip.value)} /\ (c.max_fee = Unset => M = max_fee(BaseFee, tip.value))
  BY <1>4, Zenon DEF FlagFees
<1>8. G \in Amounts /\ M \in Amounts /\ tip.value \in Amounts /\ nonce.value \in Amounts
  <2>1. max_fee(BaseFee, tip.value) \in {max_fee(BaseFee, 1), max_fee(BaseFee, 2)}
    BY <1>2, Zenon
  <2> QED BY <1>2, <1>3, <1>6, <1>7, <2>1, Zenon DEF Amounts
<1> HIDE DEF G, M
<1>9. PICK r : r = Resolved(G, M, tip.value, nonce.value)
  OBVIOUS
<1>10. r.gas = G /\ r.max_fee = M /\ r.tip = tip.value /\ r.nonce = nonce.value
  BY <1>9, ResolvedParts
<1>11. GoodFees(r, c.gas = 0 /\ c.max_fee = Unset)
  BY <1>2, <1>3, <1>6, <1>7, <1>8, <1>10, Zenon DEF GoodFees
<1> QED BY <1>1, <1>9, <1>11, Zenon

(* The builder makes a transaction of one valid entry of the file. *)
LEMMA BuilderMakes ==
  ASSUME NEW c, NEW data, Sized(data.entries), NEW peer, build_unsigned_tx(c, data, peer).ok
  PROVE  \E entry, r : BuiltOf(c, data, peer, entry, r)
<1> DEFINE entries == Usage(entries_from_json(data))
           some    == Require(entries.value # <<>>, exit2("no-entries"))
           at      == Require(c.index \in 0 .. Len(entries.value) - 1, exit2("--index"))
           entry   == entries.value[c.index + 1]
           online  == c.rpc # Absent
           full    == IF online THEN [c EXCEPT !.rpc = TRUE] ELSE [OfflineDefaults(c) EXCEPT !.rpc = FALSE]
           valid   == Require(validate(entry), exit2("entry"))
           url     == IF online THEN As("Tx", NewEthClient(c.rpc[1])) ELSE Success("no-node")
           built   == build_unsigned(entry, full, Answers(peer))
           made    == BuildContext(built)
<1>1. build_unsigned_tx(c, data, peer) =
        IF entries.ok THEN IF some.ok THEN IF at.ok THEN IF valid.ok THEN IF url.ok THEN made ELSE url
                                                         ELSE valid ELSE at ELSE some ELSE entries
  BY Zenon DEF build_unsigned_tx, Then
<1>2. entries.ok /\ some.ok /\ at.ok /\ made.ok /\ build_unsigned_tx(c, data, peer) = made
  <2> HIDE DEF entries, some, at, valid, url, made
  <2> QED BY <1>1
<1>3. entries_from_json(data).ok /\ entries = entries_from_json(data)
  BY <1>2, Results, Zenon DEF Usage
<1>4. entries.value = [i \in DOMAIN data.entries |-> data.entries[i]]
  BY <1>3, EntriesAsWritten, Zenon
<1>5. c.index \in 0 .. Len(entries.value) - 1
  BY <1>2, Results, Zenon DEF Require
<1>6. built.ok /\ made = built
  <2> HIDE DEF built
  <2> QED BY <1>2, Results, Zenon DEF BuildContext
<1>7. PICK n \in Nat : DOMAIN data.entries = 1 .. n
  BY DEF Sized
<1>8. Len(data.entries) = n /\ Len(entries.value) = n
  BY <1>4, <1>7
<1>9. c.index \in 0 .. Len(data.entries) - 1 /\ entry = data.entries[c.index + 1]
  <2>1. PICK k \in 0 .. n - 1 : k = c.index
    BY <1>5, <1>8
  <2>2. k + 1 \in 1 .. n
    OBVIOUS
  <2>3. PICK f : f = [i \in 1 .. n |-> data.entries[i]]
    OBVIOUS
  <2>4. f[k + 1] = data.entries[k + 1]
    BY <2>2, <2>3
  <2> QED BY <1>4, <1>7, <1>8, <2>1, <2>3, <2>4, Zenon
<1>10. PICK e, w : e = entry /\ w = FullConfig(c)
  OBVIOUS
<1>11. full = w
  BY <1>10, Zenon DEF FullConfig
<1>12. PICK q : q = resolve_fields(w, Answers(peer))
  OBVIOUS
<1> DEFINE u == [chain_id |-> w.params.chain_id, to |-> Address(w.params.deposit_contract_address),
                 value |-> Quantity(32), data |-> Quantity(pack_deposit(e)),
                 gas |-> q.value.gas, maxFeePerGas |-> Quantity(q.value.max_fee),
                 maxPriorityFeePerGas |-> Quantity(q.value.tip), nonce |-> q.value.nonce]
<1>13. build_unsigned(e, w, Answers(peer)) =
         CASE ~ValidEntry(e) -> Failure("InvalidEntry")
           [] ValidEntry(e) /\ ~q.ok -> q
           [] OTHER -> Success(u)
  BY <1>12, Zenon DEF build_unsigned
<1>14. build_unsigned(e, w, Answers(peer)).ok /\ made = build_unsigned(e, w, Answers(peer))
  <2> HIDE DEF made, entry, full
  <2> QED BY <1>6, <1>10, <1>11, Zenon
<1>15. ValidEntry(e) /\ q.ok /\ build_unsigned(e, w, Answers(peer)) = Success(u)
  <2> HIDE DEF u
  <2> QED BY <1>13, <1>14, Results, Zenon
<1>17. u = UnsignedOf(w.params.chain_id, w.params.deposit_contract_address, e, q.value)
  BY Zenon DEF UnsignedOf
<1> HIDE DEF u, made, entry
<1>18. BuiltOf(c, data, peer, e, q.value)
  BY <1>2, <1>9, <1>10, <1>12, <1>14, <1>15, <1>17, Zenon DEF BuiltOf
<1> QED BY <1>18

-----------------------------------------------------------------------------
(* The configuration of a builder, from the flags it is given. *)

(* A configuration of the builder. *)
Config(p, u, i, g, m, t, n, s) ==
  [params |-> p, rpc |-> u, index |-> i, gas |-> g, max_fee |-> m, tip |-> t, nonce |-> n, from |-> s]

(* The parts of it. *)
LEMMA ConfigParts ==
  ASSUME NEW p, NEW u, NEW i, NEW g, NEW m, NEW t, NEW n, NEW s
  PROVE  LET c == Config(p, u, i, g, m, t, n, s)
         IN  /\ c.params = p /\ c.rpc = u /\ c.index = i /\ c.gas = g /\ c.max_fee = m /\ c.tip = t
             /\ c.nonce = n /\ c.from = s
             /\ \A x : [c EXCEPT !.from = x] = Config(p, u, i, g, m, t, n, x)
             /\ \A x : [c EXCEPT !.rpc = x] = Config(p, x, i, g, m, t, n, s)
BY DEF Config

(* What is not typed has a default if there is no node. *)
Filled(p, u, i, g, m, t, n, s) ==
  Config(p, u, i, IF g = 0 THEN DEFAULT_GAS_LIMIT ELSE g, Or(m, DEFAULT_MAX_FEE_PER_GAS),
         Or(t, DEFAULT_MAX_PRIORITY_FEE_PER_GAS), Or(n, 0), s)

(* OfflineDefaults fills in what is not typed. *)
LEMMA OfflineConfig ==
  ASSUME NEW p, NEW u, NEW i, NEW g, NEW m, NEW t, NEW n, NEW s
  PROVE  OfflineDefaults(Config(p, u, i, g, m, t, n, s)) = Filled(p, u, i, g, m, t, n, s)
<1>1. PICK a, b, c, d : /\ a = (IF g = 0 THEN DEFAULT_GAS_LIMIT ELSE g) /\ b = Or(m, DEFAULT_MAX_FEE_PER_GAS)
                        /\ c = Or(t, DEFAULT_MAX_PRIORITY_FEE_PER_GAS) /\ d = Or(n, 0)
  OBVIOUS
<1>2. PICK r : r = Config(p, u, i, g, m, t, n, s)
  OBVIOUS
<1>3. r.max_fee = m /\ r.tip = t /\ r.gas = g /\ r.nonce = n
  BY <1>2, ConfigParts
<1>4. OfflineDefaults(r) = [r EXCEPT !.max_fee = b, !.tip = c, !.gas = a, !.nonce = d]
  <2>1. OfflineDefaults(r) = [r EXCEPT !.max_fee = Or(r.max_fee, DEFAULT_MAX_FEE_PER_GAS),
                                       !.tip = Or(r.tip, DEFAULT_MAX_PRIORITY_FEE_PER_GAS),
                                       !.gas = (IF r.gas = 0 THEN DEFAULT_GAS_LIMIT ELSE r.gas),
                                       !.nonce = Or(r.nonce, 0)]
    BY DEF OfflineDefaults
  <2> QED BY <1>1, <1>3, <2>1, Zenon
<1>5. [r EXCEPT !.max_fee = b, !.tip = c, !.gas = a, !.nonce = d] = Config(p, u, i, a, b, c, d, s)
  <2>1. PICK r1 : r1 = [r EXCEPT !.max_fee = b]
    OBVIOUS
  <2>2. r1 = Config(p, u, i, g, b, t, n, s)
    BY <1>2, <2>1, SMTT(30) DEF Config
  <2>3. PICK r2 : r2 = [r1 EXCEPT !.tip = c]
    OBVIOUS
  <2>4. r2 = Config(p, u, i, g, b, c, n, s)
    BY <2>2, <2>3, SMTT(30) DEF Config
  <2>5. PICK r3 : r3 = [r2 EXCEPT !.gas = a]
    OBVIOUS
  <2>6. r3 = Config(p, u, i, a, b, c, n, s)
    BY <2>4, <2>5, SMTT(30) DEF Config
  <2>7. [r3 EXCEPT !.nonce = d] = Config(p, u, i, a, b, c, d, s)
    BY <2>6, SMTT(30) DEF Config
  <2>8. [r EXCEPT !.max_fee = b, !.tip = c, !.gas = a, !.nonce = d] = [r3 EXCEPT !.nonce = d]
    BY <2>1, <2>3, <2>5
  <2> QED BY <2>7, <2>8
<1> QED BY <1>1, <1>2, <1>4, <1>5, Zenon DEF Filled

(* Fees without a node are good if the configuration's are. *)
LEMMA StaticFees ==
  ASSUME NEW c, c.gas \in Amounts, c.max_fee \in Amounts, c.tip \in Amounts, c.nonce \in Amounts,
         resolve_static(c).ok
  PROVE  \E r : resolve_static(c) = Success(r) /\ GoodFees(r, FALSE)
<1>1. PICK r : r = Resolved(c.gas, c.max_fee, c.tip, c.nonce)
  OBVIOUS
<1>2. r.gas = c.gas /\ r.max_fee = c.max_fee /\ r.tip = c.tip /\ r.nonce = c.nonce
  BY <1>1, ResolvedParts
<1>3. resolve_static(c) = Success(r)
  BY <1>1, Results, Zenon DEF resolve_static
<1>4. GoodFees(r, FALSE)
  BY <1>2, Zenon DEF GoodFees
<1> QED BY <1>3, <1>4

(* A configuration for a network. *)
IsConfig(c, p) == \E u, i, g, m, t, n, s : c = Config(p, u, i, g, m, t, n, s)

(* Fees of a configuration are good, with or without a node. *)
LEMMA BuilderFees ==
  ASSUME NEW c, NEW p, IsConfig(c, p), FlagFees(c), NEW a, UsualAnswers(a),
         resolve_fields(FullConfig(c), a).ok
  PROVE  /\ FullConfig(c).params = p
         /\ GoodFees(resolve_fields(FullConfig(c), a).value, c.rpc # Absent /\ c.gas = 0 /\ c.max_fee = Unset)
<1>1. PICK u, i, g, m, t, n, s : c = Config(p, u, i, g, m, t, n, s)
  BY Zenon DEF IsConfig
<1>2. c.gas = g /\ c.max_fee = m /\ c.tip = t /\ c.nonce = n /\ c.rpc = u
  BY <1>1 DEF Config
<1>3. PICK w : w = FullConfig(c)
  OBVIOUS
<1>4. g \in {0, GasNeeded} /\ m \in {Unset, BaseFee} /\ t \in {Unset, 2} /\ n \in {Unset, SenderNonce}
  BY <1>1, <1>2, Zenon DEF FlagFees
<1>5. CASE u # Absent
  <2>1. w = Config(p, TRUE, i, g, m, t, n, s)
    <3>1. w = [c EXCEPT !.rpc = TRUE]
      BY <1>2, <1>3, <1>5, Zenon DEF FullConfig
    <3> QED BY <1>1, <3>1 DEF Config
  <2>2. w.rpc = TRUE /\ w.params = p /\ w.gas = g /\ w.max_fee = m /\ w.tip = t /\ w.nonce = n
    BY <2>1 DEF Config
  <2>3. FlagFees(w)
    BY <1>4, <2>2, Zenon DEF FlagFees
  <2>4. resolve_fields(w, a) = resolve_rpc(w, a)
    BY <2>2 DEF resolve_fields
  <2>5. resolve_rpc(w, a).ok
    BY <1>3, <2>4, Zenon
  <2>6. PICK r : resolve_rpc(w, a) = Success(r) /\ GoodFees(r, w.gas = 0 /\ w.max_fee = Unset)
    BY <2>3, <2>5, RpcFees
  <2>7. resolve_fields(w, a).value = r
    BY <2>4, <2>6, Results, Zenon
  <2>8. GoodFees(r, u # Absent /\ g = 0 /\ m = Unset)
    BY <2>2, <2>6, Zenon DEF GoodFees
  <2> QED BY <1>2, <1>3, <2>2, <2>7, <2>8, Zenon
<1>6. CASE u = Absent
  <2>1. PICK x, y, z, q : /\ x = (IF g = 0 THEN DEFAULT_GAS_LIMIT ELSE g) /\ y = Or(m, DEFAULT_MAX_FEE_PER_GAS)
                          /\ z = Or(t, DEFAULT_MAX_PRIORITY_FEE_PER_GAS) /\ q = Or(n, 0)
    OBVIOUS
  <2>2. w = Config(p, FALSE, i, x, y, z, q, s)
    <3>1. w = [OfflineDefaults(c) EXCEPT !.rpc = FALSE]
      BY <1>2, <1>3, <1>6, Zenon DEF FullConfig
    <3>2. OfflineDefaults(c) = Config(p, u, i, x, y, z, q, s)
      <4>1. OfflineDefaults(c) = Filled(p, u, i, g, m, t, n, s)
        BY <1>1, OfflineConfig, Zenon
      <4> QED BY <2>1, <4>1, Zenon DEF Filled
    <3>3. PICK d : d = Config(p, u, i, x, y, z, q, s)
      OBVIOUS
    <3>4. PICK h : h = [d EXCEPT !.rpc = FALSE]
      OBVIOUS
    <3>5. h = Config(p, FALSE, i, x, y, z, q, s)
      BY <3>3, <3>4 DEF Config
    <3> QED BY <3>1, <3>2, <3>3, <3>4, <3>5, Zenon
  <2>3. w.rpc = FALSE /\ w.params = p /\ w.gas = x /\ w.max_fee = y /\ w.tip = z /\ w.nonce = q
    BY <2>2 DEF Config
  <2>4. x \in Amounts /\ y \in Amounts /\ z \in Amounts /\ q \in Amounts
    BY <1>4, <2>1, Zenon DEF Amounts, Or
  <2>5. resolve_fields(w, a) = resolve_static(w)
    BY <2>3 DEF resolve_fields
  <2>6. resolve_static(w).ok
    BY <1>3, <2>5, Zenon
  <2>7. PICK r : resolve_static(w) = Success(r) /\ GoodFees(r, FALSE)
    BY <2>3, <2>4, <2>6, StaticFees, Zenon
  <2>8. resolve_fields(w, a).value = r
    BY <2>5, <2>7, Results, Zenon
  <2>9. GoodFees(r, u # Absent /\ g = 0 /\ m = Unset)
    BY <1>6, <2>7, Zenon DEF GoodFees
  <2> QED BY <1>2, <1>3, <2>3, <2>8, <2>9, Zenon
<1> QED BY <1>5, <1>6

(* Good fees are of few bytes. *)
LEMMA FeesAreSmall ==
  ASSUME NEW r, NEW asked, GoodFees(r, asked)
  PROVE  SmallFees(r)
BY AmountsSmall, Zenon DEF GoodFees, SmallFees

(* The configuration that is made of the flags. *)
LEMMA BuildConfigured ==
  ASSUME NEW m, build_config(m).ok
  PROVE  build_config(m).value =
           Config(lookup_network[parse_flag(m["network"][1]).value], m["rpc-url"], m["index"][1],
                  ValueOr(m["gas-limit"], 0), ValueOr(m["max-fee-per-gas"], Unset),
                  ValueOr(m["max-priority-fee-per-gas"], Unset), ValueOr(m["nonce"], Unset), NoSender)
         /\ parse_flag(m["network"][1]).ok
         /\ Parsed(m["gas-limit"]) /\ Parsed(m["max-fee-per-gas"])
         /\ Parsed(m["max-priority-fee-per-gas"]) /\ Parsed(m["nonce"])
<1> DEFINE net == parse_flag(m["network"][1])
           h1 == net.ok
           h2 == Parsed(m["gas-limit"]) /\ ValueOr(m["gas-limit"], 1) # 0
           h3 == Parsed(m["max-fee-per-gas"])
           h4 == Parsed(m["max-priority-fee-per-gas"])
           h5 == Parsed(m["nonce"])
           checks == <<Check("--network", h1), Check("--gas-limit", h2), Check("--max-fee-per-gas", h3),
                       Check("--max-priority-fee-per-gas", h4), Check("--nonce", h5)>>
           config == [params |-> lookup_network[net.value], rpc |-> m["rpc-url"], index |-> m["index"][1],
                      gas |-> ValueOr(m["gas-limit"], 0), max_fee |-> ValueOr(m["max-fee-per-gas"], Unset),
                      tip |-> ValueOr(m["max-priority-fee-per-gas"], Unset),
                      nonce |-> ValueOr(m["nonce"], Unset), from |-> NoSender]
<1>1. build_config(m) = Checked(checks, config)
  BY Zenon DEF build_config
<1>2. build_config(m).value = config /\ \A i \in DOMAIN checks : checks[i].holds
  <2> HIDE DEF checks, config
  <2> QED BY <1>1, CheckedOk
<1>3. h1 /\ h2 /\ h3 /\ h4 /\ h5
  <2>1. /\ 1 \in DOMAIN checks /\ 2 \in DOMAIN checks /\ 3 \in DOMAIN checks /\ 4 \in DOMAIN checks
        /\ 5 \in DOMAIN checks
        /\ checks[1] = Check("--network", h1) /\ checks[2] = Check("--gas-limit", h2)
        /\ checks[3] = Check("--max-fee-per-gas", h3) /\ checks[4] = Check("--max-priority-fee-per-gas", h4)
        /\ checks[5] = Check("--nonce", h5)
    <3> HIDE DEF h1, h2, h3, h4, h5
    <3> QED OBVIOUS
  <2>2. \A f, h : Check(f, h).holds = h
    BY DEF Check
  <2> HIDE DEF checks, h1, h2, h3, h4, h5
  <2> QED BY <1>2, <2>1, <2>2
<1> QED BY <1>2, <1>3, Zenon DEF Config

-----------------------------------------------------------------------------
(* What a node answers, and what the other inputs of the builder are. *)

(* A reply that has a quantity has the one that is meant.                    *)
Means(a, v) ==
  a.transport = "ok" /\ a.json /\ ~a.error /\ a.result.json = "hex" => a.result.value = v

(* What is read of an answer is what the node meant. *)
LEMMA QuantityMeant ==
  ASSUME NEW a, NEW v, Means(a, v), NEW m, Quantities(a, m).ok
  PROVE  Quantities(a, m).value = v
<1> DEFINE r == call(a)
<1>1. Quantities(a, m) = IF r.ok THEN parse_hex(r.value, m) ELSE r
  BY Zenon DEF Quantities
<1>2. r.ok /\ Quantities(a, m) = parse_hex(r.value, m)
  <2> HIDE DEF r
  <2> QED BY <1>1
<1>3. a.transport = "ok" /\ a.json /\ ~a.error /\ r = Success(a.result)
  <2> DEFINE f1 == Failure("transport")
             f2 == Failure("body")
             f3 == Failure("rpc-error")
             s == Success(a.result)
  <2>1. r = CASE a.transport # "ok" -> f1
              [] a.transport = "ok" /\ ~a.json -> f2
              [] a.transport = "ok" /\ a.json /\ a.error -> f3
              [] OTHER -> s
    BY Zenon DEF call
  <2>2. ~f1.ok /\ ~f2.ok /\ ~f3.ok
    BY Results
  <2> HIDE DEF r, f1, f2, f3, s
  <2>3. a.transport = "ok"
    <3> SUFFICES ASSUME a.transport # "ok" PROVE FALSE
      OBVIOUS
    <3>1. r = f1
      BY <2>1, Zenon
    <3> QED BY <1>2, <2>2, <3>1, Zenon
  <2>4. a.json
    <3> SUFFICES ASSUME ~a.json PROVE FALSE
      OBVIOUS
    <3>1. r = f2
      BY <2>1, <2>3, Zenon
    <3> QED BY <1>2, <2>2, <3>1, Zenon
  <2>5. ~a.error
    <3> SUFFICES ASSUME a.error PROVE FALSE
      OBVIOUS
    <3>1. r = f3
      BY <2>1, <2>3, <2>4, Zenon
    <3> QED BY <1>2, <2>2, <3>1, Zenon
  <2>6. r = s
    BY <2>1, <2>3, <2>4, <2>5, Zenon
  <2> QED BY <2>3, <2>4, <2>5, <2>6, Zenon DEF s
<1> HIDE DEF r
<1>4. r.value = a.result
  BY <1>3, Results, Zenon
<1>5. parse_hex(a.result, m).ok
  BY <1>2, <1>4, Zenon
<1>6. a.result.json = "hex" /\ parse_hex(a.result, m).value = a.result.value
  <2> DEFINE f == Failure("quantity")
             s == Success(a.result.value)
  <2>1. parse_hex(a.result, m) = IF a.result.json = "hex" /\ a.result.value < m THEN s ELSE f
    BY Zenon DEF parse_hex
  <2>2. ~f.ok /\ s.value = a.result.value
    BY Results, Zenon
  <2> HIDE DEF f, s
  <2> QED BY <1>5, <2>1, <2>2, Zenon
<1> QED BY <1>2, <1>3, <1>4, <1>6, Zenon DEF Means

(* Garbage means nothing else. *)
LEMMA GarbageMeans ==
  ASSUME NEW v, NEW r \in {Reply(Hex(v))} \cup Garbage(Reply(Hex(v)))
  PROVE  Means(r, v)
<1>1. PICK h, a, b, c : h = Hex(v) /\ a = Reply(h) /\ b = Reply(Null) /\ c = Reply(Text("words"))
  OBVIOUS
<1>2. /\ a = [transport |-> "ok", json |-> TRUE, error |-> FALSE, result |-> h]
      /\ b.result = Null /\ c.result = Text("words") /\ h.value = v
  BY <1>1 DEF Reply, Hex
<1>3. Null.json = "null" /\ Text("words").json = "text"
  BY DEF Null, Text
<1>4. Means(a, v)
  BY <1>2 DEF Means
<1>5. Means(b, v) /\ Means(c, v)
  BY <1>2, <1>3 DEF Means
<1>6. \A x : x = [a EXCEPT !.transport = "down"] => Means(x, v)
  BY <1>2 DEF Means
<1>7. \A x : x = [a EXCEPT !.json = FALSE] => Means(x, v)
  BY <1>2 DEF Means
<1>8. \A x : x = [a EXCEPT !.error = TRUE] => Means(x, v)
  BY <1>2 DEF Means
<1> QED BY <1>1, <1>4, <1>5, <1>6, <1>7, <1>8, Zenon DEF Garbage

(* A node answers what is true of the chain, or garbage. *)
NodeMeans(n) ==
  Means(n.tip, 1) /\ Means(n.base_fee, BaseFee) /\ Means(n.nonce, SenderNonce) /\ Means(n.estimate, GasNeeded)

(* What is read of the answers is what is usual. *)
LEMMA NodeAnswers ==
  ASSUME NEW n, NodeMeans(n)
  PROVE  UsualAnswers(Answers(n))
<1>1. PICK a, b, c, d, e : /\ a = chain_id(n.chain_id) /\ b = suggest_gas_tip_cap(n.tip)
                           /\ c = block_base_fee(n.base_fee) /\ d = pending_nonce_at(n.nonce)
                           /\ e = estimate_gas(n.estimate)
  OBVIOUS
<1>2. PICK w : w = [chain_id |-> a, tip |-> b, base_fee |-> c, nonce |-> d, estimate |-> e]
  OBVIOUS
<1>3. Answers(n) = w
  BY <1>1, <1>2, Zenon DEF Answers
<1>4. w.tip = b /\ w.base_fee = c /\ w.nonce = d /\ w.estimate = e
  BY <1>2
<1>5. b.ok => b.value = 1
  BY <1>1, QuantityMeant, Zenon DEF NodeMeans, suggest_gas_tip_cap
<1>6. c.ok => c.value = BaseFee
  BY <1>1, QuantityMeant, Zenon DEF NodeMeans, block_base_fee
<1>7. d.ok => d.value = SenderNonce
  BY <1>1, QuantityMeant, Zenon DEF NodeMeans, pending_nonce_at
<1>8. e.ok => e.value = GasNeeded
  BY <1>1, QuantityMeant, Zenon DEF NodeMeans, estimate_gas
<1> QED BY <1>3, <1>4, <1>5, <1>6, <1>7, <1>8, Zenon DEF UsualAnswers

(* The nodes of the model are such, as long as the chain has not moved. *)
LEMMA NodesMean ==
  ASSUME chain.base = BaseFee, chain.gas = GasNeeded
  PROVE  /\ NodeMeans(NodeUsual)
         /\ \A o \in NodeOthers({"tip", "base_fee", "nonce", "estimate"}) :
              \E n : o = ("node" := n) /\ NodeMeans(n)
<1>1. PICK a, b, c, d, e, f : /\ a = Reply(Hex(lookup_network[Chain].chain_id)) /\ b = Reply(Hex(1))
                              /\ c = Reply(Hex(BaseFee)) /\ d = Reply(Hex(SenderNonce))
                              /\ e = Reply(Hex(GasNeeded)) /\ f = Reply(Hash("of-the-transaction"))
  OBVIOUS
<1>2. PICK u : u = [chain_id |-> a, tip |-> b, base_fee |-> c, nonce |-> d, estimate |-> e, sent |-> f]
  OBVIOUS
<1>3. NodeUsual = u
  BY <1>1, <1>2, Zenon DEF NodeUsual
<1>4. u.tip = b /\ u.base_fee = c /\ u.nonce = d /\ u.estimate = e
  BY <1>2
<1>5. Means(b, 1) /\ Means(c, BaseFee) /\ Means(d, SenderNonce) /\ Means(e, GasNeeded)
  BY <1>1, GarbageMeans, Zenon
<1>6. NodeMeans(u)
  BY <1>4, <1>5, Zenon DEF NodeMeans
<1>7. ASSUME NEW call_ \in {"tip", "base_fee", "nonce", "estimate"}, NEW r \in Garbage(u[call_])
      PROVE  NodeMeans([u EXCEPT ![call_] = r])
  <2>1. PICK w : w = [u EXCEPT ![call_] = r]
    OBVIOUS
  <2>2. CASE call_ = "tip"
    <3>1. w.tip = r /\ w.base_fee = c /\ w.nonce = d /\ w.estimate = e
      BY <1>2, <2>1, <2>2
    <3>2. u[call_] = b
      BY <1>4, <2>2
    <3>3. Means(r, 1)
      BY <1>1, <1>7, <3>2, GarbageMeans, Zenon
    <3> QED BY <1>5, <2>1, <3>1, <3>3, Zenon DEF NodeMeans
  <2>3. CASE call_ = "base_fee"
    <3>1. w.tip = b /\ w.base_fee = r /\ w.nonce = d /\ w.estimate = e
      BY <1>2, <2>1, <2>3
    <3>2. u[call_] = c
      BY <1>4, <2>3
    <3>3. Means(r, BaseFee)
      BY <1>1, <1>7, <3>2, GarbageMeans, Zenon
    <3> QED BY <1>5, <2>1, <3>1, <3>3, Zenon DEF NodeMeans
  <2>4. CASE call_ = "nonce"
    <3>1. w.tip = b /\ w.base_fee = c /\ w.nonce = r /\ w.estimate = e
      BY <1>2, <2>1, <2>4
    <3>2. u[call_] = d
      BY <1>4, <2>4
    <3>3. Means(r, SenderNonce)
      BY <1>1, <1>7, <3>2, GarbageMeans, Zenon
    <3> QED BY <1>5, <2>1, <3>1, <3>3, Zenon DEF NodeMeans
  <2>5. CASE call_ = "estimate"
    <3>1. w.tip = b /\ w.base_fee = c /\ w.nonce = d /\ w.estimate = r
      BY <1>2, <2>1, <2>5
    <3>2. u[call_] = e
      BY <1>4, <2>5
    <3>3. Means(r, GasNeeded)
      BY <1>1, <1>7, <3>2, GarbageMeans, Zenon
    <3> QED BY <1>5, <2>1, <3>1, <3>3, Zenon DEF NodeMeans
  <2> QED BY <2>2, <2>3, <2>4, <2>5
<1>8. ASSUME NEW x
      PROVE  NodeMeans([u EXCEPT !.chain_id = x])
  <2>1. PICK w : w = [u EXCEPT !.chain_id = x]
    OBVIOUS
  <2>2. w.tip = b /\ w.base_fee = c /\ w.nonce = d /\ w.estimate = e
    BY <1>2, <2>1
  <2> QED BY <1>5, <2>1, <2>2, Zenon DEF NodeMeans
<1>9. ASSUME NEW o \in NodeOthers({"tip", "base_fee", "nonce", "estimate"})
      PROVE  \E n : o = ("node" := n) /\ NodeMeans(n)
  <2>1. \/ \E call_ \in {"tip", "base_fee", "nonce", "estimate"} : \E r \in Garbage(u[call_]) :
             o = ("node" := [u EXCEPT ![call_] = r])
        \/ \E x : o = ("node" := [u EXCEPT !.chain_id = x])
    BY <1>3, Zenon DEF NodeOthers
  <2> QED BY <1>7, <1>8, <2>1, Zenon
<1> QED BY <1>3, <1>6, <1>9, Zenon

-----------------------------------------------------------------------------
(* The inputs of build, sign and run. *)

(* A text that is a number is one of those that may be typed.                *)
Says(t, S) == t.text = "number" => t.value \in S

(* Inputs with the right file if any, a node of the chain, numbers that may  *)
(* be typed, and a device that has the sender's key.                         *)
Orderly(o, data) ==
  /\ "file" \in DOMAIN o /\ o["file"].ok => o["file"].value = data
  /\ "node" \in DOMAIN o => NodeMeans(o["node"])
  /\ "env" \in DOMAIN o => DOMAIN o["env"] \subseteq {"network"}
  /\ "gas-limit" \in DOMAIN o => Says(o["gas-limit"], {0, GasNeeded})
  /\ "max-fee-per-gas" \in DOMAIN o => Says(o["max-fee-per-gas"], {BaseFee})
  /\ "max-priority-fee-per-gas" \in DOMAIN o => Says(o["max-priority-fee-per-gas"], {2})
  /\ "nonce" \in DOMAIN o => Says(o["nonce"], {SenderNonce})
  /\ "device" \in DOMAIN o /\ o["device"].sign.ok => o["device"].sign.value = SenderKey

(* Inputs that name none of them are orderly, and so are inputs put          *)
(* together.                                                                 *)
LEMMA OrderlyInputs ==
  ASSUME NEW data
  PROVE  /\ Orderly(<<>>, data)
         /\ \A f, v : f \notin {"file", "node", "env", "gas-limit", "max-fee-per-gas",
                                "max-priority-fee-per-gas", "nonce", "device"} => Orderly(f := v, data)
         /\ Orderly("file" := Success(data), data) /\ Orderly("file" := Failure("NotFound"), data)
         /\ \A n : NodeMeans(n) => Orderly("node" := n, data)
         /\ Orderly("env" := <<>>, data) /\ \A v : Orderly("env" := ("network" := v), data)
         /\ \A f, g : Orderly(f, data) /\ Orderly(g, data) => Orderly(f ++ g, data)
<1>1. Orderly(<<>>, data)
  BY DEF Orderly
<1>2. ASSUME NEW f, NEW v, f \notin {"file", "node", "env", "gas-limit", "max-fee-per-gas",
                                     "max-priority-fee-per-gas", "nonce", "device"}
      PROVE  Orderly(f := v, data)
  BY <1>2 DEF Orderly, :=
<1>3. Orderly("file" := Success(data), data) /\ Orderly("file" := Failure("NotFound"), data)
  <2>1. PICK r, s : r = Success(data) /\ s = Failure("NotFound") /\ r.ok /\ r.value = data /\ ~s.ok
    BY Results
  <2>2. Orderly("file" := r, data) /\ Orderly("file" := s, data)
    BY <2>1 DEF Orderly, :=
  <2> QED BY <2>1, <2>2
<1>4. ASSUME NEW n, NodeMeans(n)
      PROVE  Orderly("node" := n, data)
  BY <1>4 DEF Orderly, :=
<1>5. Orderly("env" := <<>>, data)
  BY DEF Orderly, :=
<1>6. ASSUME NEW v
      PROVE  Orderly("env" := ("network" := v), data)
  <2>1. PICK e : e = ("network" := v)
    OBVIOUS
  <2>2. DOMAIN e \subseteq {"network"}
    BY <2>1 DEF :=
  <2>3. Orderly("env" := e, data)
    BY <2>2 DEF Orderly, :=
  <2> QED BY <2>1, <2>3
<1>7. ASSUME NEW f, NEW g, Orderly(f, data), Orderly(g, data)
      PROVE  Orderly(f ++ g, data)
  <2> DEFINE h == f ++ g
  <2>1. \A i \in DOMAIN h : h[i] = IF i \in DOMAIN f THEN f[i] ELSE g[i]
    BY DEF ++
  <2>2. DOMAIN h = DOMAIN f \cup DOMAIN g
    BY DEF ++
  <2> HIDE DEF h
  <2>3. Orderly(h, data)
    <3>1. "file" \in DOMAIN h /\ h["file"].ok => h["file"].value = data
      BY <1>7, <2>1, <2>2 DEF Orderly
    <3>2. "node" \in DOMAIN h => NodeMeans(h["node"])
      BY <1>7, <2>1, <2>2 DEF Orderly
    <3>3. "env" \in DOMAIN h => DOMAIN h["env"] \subseteq {"network"}
      BY <1>7, <2>1, <2>2 DEF Orderly
    <3>4. "gas-limit" \in DOMAIN h => Says(h["gas-limit"], {0, GasNeeded})
      BY <1>7, <2>1, <2>2 DEF Orderly
    <3>5. "max-fee-per-gas" \in DOMAIN h => Says(h["max-fee-per-gas"], {BaseFee})
      BY <1>7, <2>1, <2>2 DEF Orderly
    <3>6. "max-priority-fee-per-gas" \in DOMAIN h => Says(h["max-priority-fee-per-gas"], {2})
      BY <1>7, <2>1, <2>2 DEF Orderly
    <3>7. "nonce" \in DOMAIN h => Says(h["nonce"], {SenderNonce})
      BY <1>7, <2>1, <2>2 DEF Orderly
    <3>8. "device" \in DOMAIN h /\ h["device"].sign.ok => h["device"].sign.value = SenderKey
      BY <1>7, <2>1, <2>2 DEF Orderly
    <3> QED BY <3>1, <3>2, <3>3, <3>4, <3>5, <3>6, <3>7, <3>8, Zenon DEF Orderly
  <2> QED BY <2>3 DEF h
<1> QED BY <1>1, <1>2, <1>3, <1>4, <1>5, <1>6, <1>7

(* The numbers that may be typed. *)
LEMMA OrderlyFlags ==
  ASSUME NEW data
  PROVE  /\ \A t \in {Number(0), Number(GasNeeded), Empty, Signed(1)} : Orderly("gas-limit" := t, data)
         /\ \A t \in {Number(BaseFee), Signed(1)} : Orderly("max-fee-per-gas" := t, data)
         /\ \A t \in {Number(2), Signed(1)} : Orderly("max-priority-fee-per-gas" := t, data)
         /\ Orderly("nonce" := Number(SenderNonce), data)
<1>1. /\ \A v : Number(v).text = "number" /\ Number(v).value = v /\ Signed(v).text = "negative"
      /\ Empty.text = "empty"
  BY DEF Number, Signed, Empty
<1>2. /\ \A t \in {Number(0), Number(GasNeeded), Empty, Signed(1)} : Says(t, {0, GasNeeded})
      /\ \A t \in {Number(BaseFee), Signed(1)} : Says(t, {BaseFee})
      /\ \A t \in {Number(2), Signed(1)} : Says(t, {2})
      /\ Says(Number(SenderNonce), {SenderNonce})
  BY <1>1 DEF Says
<1>3. \A t : Says(t, {0, GasNeeded}) => Orderly("gas-limit" := t, data)
  BY DEF Orderly, :=
<1>4. \A t : Says(t, {BaseFee}) => Orderly("max-fee-per-gas" := t, data)
  BY DEF Orderly, :=
<1>5. \A t : Says(t, {2}) => Orderly("max-priority-fee-per-gas" := t, data)
  BY DEF Orderly, :=
<1>6. \A t : Says(t, {SenderNonce}) => Orderly("nonce" := t, data)
  BY DEF Orderly, :=
<1> QED BY <1>2, <1>3, <1>4, <1>5, <1>6, Zenon

(* A device that fails in one way or another. *)
LEMMA OrderlyDevices ==
  ASSUME NEW data
  PROVE  /\ Orderly("device" := Unlocked, data)
         /\ \A b : /\ Orderly("device" := [Unlocked EXCEPT !.supported = b], data)
                   /\ Orderly("device" := [Unlocked EXCEPT !.present = b], data)
                   /\ Orderly("device" := [Unlocked EXCEPT !.open = b], data)
                   /\ Orderly("device" := [Unlocked EXCEPT !.status = b], data)
                   /\ Orderly("device" := [Unlocked EXCEPT !.derive = b], data)
                   /\ Orderly("device" := [Unlocked EXCEPT !.sign = Failure(b)], data)
<1>1. \A d : (d.sign.ok => d.sign.value = SenderKey) => Orderly("device" := d, data)
  BY DEF Orderly, :=
<1>2. PICK s : s = Success(SenderKey) /\ s.ok /\ s.value = SenderKey
  BY Results
<1>3. PICK a, b, c : a = Success("hid") /\ b = Success("ready") /\ c = Success("an-address")
  OBVIOUS
<1>4. PICK u : u = [supported |-> TRUE, present |-> TRUE, open |-> a, status |-> b, derive |-> c, sign |-> s]
  OBVIOUS
<1>5. Unlocked = u
  BY <1>2, <1>3, <1>4, Zenon DEF Unlocked
<1>6. u.sign = s
  BY <1>4
<1>7. ASSUME NEW x
      PROVE  /\ [u EXCEPT !.supported = x].sign = s /\ [u EXCEPT !.present = x].sign = s
             /\ [u EXCEPT !.open = x].sign = s /\ [u EXCEPT !.status = x].sign = s
             /\ [u EXCEPT !.derive = x].sign = s /\ [u EXCEPT !.sign = x].sign = x
  BY <1>4
<1>8. \A x : ~Failure(x).ok
  BY Results
<1>9. Orderly("device" := u, data)
  BY <1>1, <1>2, <1>6, Zenon
<1>10. ASSUME NEW x
       PROVE  /\ Orderly("device" := [u EXCEPT !.supported = x], data)
              /\ Orderly("device" := [u EXCEPT !.present = x], data)
              /\ Orderly("device" := [u EXCEPT !.open = x], data)
              /\ Orderly("device" := [u EXCEPT !.status = x], data)
              /\ Orderly("device" := [u EXCEPT !.derive = x], data)
              /\ Orderly("device" := [u EXCEPT !.sign = Failure(x)], data)
  <2>1. Orderly("device" := [u EXCEPT !.supported = x], data) /\ Orderly("device" := [u EXCEPT !.present = x], data)
    BY <1>1, <1>2, <1>7, Zenon
  <2>2. Orderly("device" := [u EXCEPT !.open = x], data) /\ Orderly("device" := [u EXCEPT !.status = x], data)
    BY <1>1, <1>2, <1>7, Zenon
  <2>3. Orderly("device" := [u EXCEPT !.derive = x], data)
    BY <1>1, <1>2, <1>7, Zenon
  <2>4. Orderly("device" := [u EXCEPT !.sign = Failure(x)], data)
    <3>1. PICK f : f = Failure(x) /\ ~f.ok
      BY <1>8, Zenon
    <3>2. [u EXCEPT !.sign = f].sign = f
      BY <1>7, Zenon
    <3>3. Orderly("device" := [u EXCEPT !.sign = f], data)
      BY <1>1, <3>1, <3>2, Zenon
    <3> QED BY <3>1, <3>3, Zenon
  <2> QED BY <2>1, <2>2, <2>3, <2>4
<1> QED BY <1>5, <1>9, <1>10, Zenon

(* The inputs of build and run are orderly. *)
LEMMA BuildOrderly ==
  ASSUME chain.base = BaseFee, chain.gas = GasNeeded
  PROVE  /\ Orderly(BuildUsual, deposit[1]) /\ \A o \in BuildOthers : Orderly(o, deposit[1])
         /\ \A v : Orderly("from" := v, deposit[1])
<1>1. PICK data : data = deposit[1]
  OBVIOUS
<1>2. \A v : /\ Orderly("network" := v, data) /\ Orderly("rpc-url" := v, data) /\ Orderly("index" := v, data)
             /\ Orderly("without" := v, data) /\ Orderly("from" := v, data) /\ Orderly("input-file" := v, data)
             /\ Orderly("env" := ("network" := v), data)
  BY OrderlyInputs
<1>3. \A f, g : Orderly(f, data) /\ Orderly(g, data) => Orderly(f ++ g, data)
  BY OrderlyInputs
<1>4. \A o \in NodeOthers({"tip", "base_fee", "nonce", "estimate"}) : Orderly(o, data)
  <2>1. \A n : NodeMeans(n) => Orderly("node" := n, data)
    BY OrderlyInputs
  <2> QED BY <2>1, NodesMean, Zenon
<1>5. Orderly("file" := Failure("NotFound"), data) /\ Orderly("file" := Success(deposit[1]), data)
      /\ Orderly("env" := <<>>, data) /\ Orderly(<<>>, data)
  BY <1>1, OrderlyInputs
<1>6. \A o \in BuildOthers : Orderly(o, data)
  <2>1. /\ \A t \in {Number(0), Number(GasNeeded), Empty, Signed(1)} : Orderly("gas-limit" := t, data)
        /\ \A t \in {Number(BaseFee), Signed(1)} : Orderly("max-fee-per-gas" := t, data)
        /\ \A t \in {Number(2), Signed(1)} : Orderly("max-priority-fee-per-gas" := t, data)
        /\ Orderly("nonce" := Number(SenderNonce), data)
    BY OrderlyFlags
  <2> QED BY <1>2, <1>3, <1>4, <1>5, <2>1, SMT DEF BuildOthers
<1>7. Orderly(BuildUsual, data)
  <2>1. PICK g : g = IF Chain = "hoodi" THEN <<>> ELSE "network" := Chain
    OBVIOUS
  <2>2. Orderly(g, data)
    BY <1>2, <1>5, <2>1
  <2>3. BuildUsual = NoFlags ++ ("input-file" := "deposit.json") ++ ("rpc-url" := Http)
                     ++ ("file" := Success(deposit[1])) ++ ("node" := NodeUsual) ++ g
    BY <2>1, Zenon DEF BuildUsual
  <2>4. Orderly("node" := NodeUsual, data)
    BY NodesMean, OrderlyInputs
  <2>5. Orderly(NoFlags, data)
    BY <1>2, <1>3, <1>5, Zenon DEF NoFlags
  <2> QED BY <1>2, <1>3, <1>5, <2>2, <2>3, <2>4, <2>5, Zenon
<1> QED BY <1>1, <1>2, <1>6, <1>7, Zenon

(* The inputs of sign are orderly. *)
LEMMA SignOrderly ==
  ASSUME NEW data
  PROVE  Orderly(SignUsual, data) /\ \A o \in SignOthers : Orderly(o, data)
<1>1. \A v : Orderly("signer" := v, data) /\ Orderly("private-key-file" := v, data)
             /\ Orderly("key_file" := v, data) /\ Orderly("without" := v, data)
  BY OrderlyInputs
<1>2. \A f, g : Orderly(f, data) /\ Orderly(g, data) => Orderly(f ++ g, data)
  BY OrderlyInputs
<1>3. \A o \in SignOthers : Orderly(o, data)
  BY <1>1, <1>2, OrderlyDevices, Zenon DEF SignOthers
<1>4. Orderly(SignUsual, data)
  BY <1>1, <1>2, OrderlyDevices, Zenon DEF SignUsual
<1> QED BY <1>3, <1>4

-----------------------------------------------------------------------------
(* From what is typed to a configuration. *)

(* The value of a flag: typed, of the environment, or the default. *)
FlagValue(flags, x, env, f) ==
  IF f \in DOMAIN x /\ f \notin x["without"] THEN <<x[f]>>
  ELSE IF flags[f].env /\ f \in DOMAIN env THEN <<env[f]>> ELSE flags[f].default

(* The value of a flag after parsing. *)
LEMMA TypedMatched ==
  ASSUME NEW flags, NEW x, NEW env, NEW f \in DOMAIN flags, try_get_matches(flags, Args(x, flags), env).ok
  PROVE  try_get_matches(flags, Args(x, flags), env).value[f] = FlagValue(flags, x, env, f)
<1>1. PICK a : a = Args(x, flags)
  OBVIOUS
<1>2. /\ f \in DOMAIN a <=> f \in DOMAIN x /\ f \notin x["without"]
      /\ f \in DOMAIN a => a[f] = x[f]
  BY <1>1 DEF Args
<1>3. PICK r : r = try_get_matches(flags, a, env)
  OBVIOUS
<1>4. r.value = [g \in DOMAIN flags |->
                   IF g \in DOMAIN a THEN <<a[g]>>
                   ELSE IF flags[g].env /\ g \in DOMAIN env THEN <<env[g]>> ELSE flags[g].default]
  BY <1>1, <1>3, Matched
<1>5. r.value[f] = IF f \in DOMAIN a THEN <<a[f]>>
                   ELSE IF flags[f].env /\ f \in DOMAIN env THEN <<env[f]>> ELSE flags[f].default
  BY <1>4
<1>6. r.value[f] = FlagValue(flags, x, env, f)
  BY <1>2, <1>5, Zenon DEF FlagValue
<1> QED BY <1>1, <1>3, <1>6

(* The parts of a flag. *)
LEMMA FlagParts ==
  \A a, b, d : Flag(a, b, d).env = b /\ Flag(a, b, d).default = d
BY DEF Flag

(* The flags of the builder, in build and in run. *)
OptionalFlags == {"rpc-url", "gas-limit", "max-fee-per-gas", "max-priority-fee-per-gas", "nonce"}
EnvFlag(flags, f, default) == f \in DOMAIN flags /\ flags[f].env = TRUE /\ flags[f].default = default
BuilderFlags(flags) ==
  (\A f \in OptionalFlags : EnvFlag(flags, f, Absent)) /\ EnvFlag(flags, "network", <<"hoodi">>)

(* Maps put together. *)
LEMMA JoinedMaps ==
  /\ \A f, g, n : n \in DOMAIN f => n \in DOMAIN (f ++ g) /\ (f ++ g)[n] = f[n]
  /\ \A f, g, n : n \notin DOMAIN f /\ n \in DOMAIN g => n \in DOMAIN (f ++ g) /\ (f ++ g)[n] = g[n]
  /\ \A n, v : DOMAIN (n := v) = {n} /\ (n := v)[n] = v
  /\ \A f, g : DOMAIN (f ++ g) = DOMAIN f \cup DOMAIN g
<1>1. ASSUME NEW f, NEW g
      PROVE  DOMAIN (f ++ g) = DOMAIN f \cup DOMAIN g
             /\ \A n \in DOMAIN f \cup DOMAIN g : (f ++ g)[n] = IF n \in DOMAIN f THEN f[n] ELSE g[n]
  BY DEF ++
<1>2. \A n, v : DOMAIN (n := v) = {n} /\ (n := v)[n] = v
  BY DEF :=
<1>3. ASSUME NEW f, NEW g, NEW n, n \in DOMAIN f
      PROVE  n \in DOMAIN (f ++ g) /\ (f ++ g)[n] = f[n]
  BY <1>1, <1>3, Zenon
<1>4. ASSUME NEW f, NEW g, NEW n, n \notin DOMAIN f, n \in DOMAIN g
      PROVE  n \in DOMAIN (f ++ g) /\ (f ++ g)[n] = g[n]
  <2>1. n \in DOMAIN f \cup DOMAIN g
    BY <1>4
  <2>2. (f ++ g)[n] = IF n \in DOMAIN f THEN f[n] ELSE g[n]
    BY <2>1 DEF ++
  <2> QED BY <1>1, <1>4, <2>1, <2>2
<1> QED BY <1>1, <1>2, <1>3, <1>4, Zenon

(* The flags of run. *)
LEMMA RunArgsAre ==
  BuilderFlags(run_args)
<1>1. PICK a, b, c, g : /\ a = ("input-file" := Flag(TRUE, TRUE, Absent))
                        /\ b = ("network" := Flag(FALSE, TRUE, <<"hoodi">>))
                        /\ c = ("index" := Flag(FALSE, TRUE, <<0>>))
                        /\ g = [f \in {"rpc-url", "gas-limit", "max-fee-per-gas", "max-priority-fee-per-gas", "nonce"}
                                  |-> Flag(FALSE, TRUE, Absent)]
  OBVIOUS
<1>2. run_args = a ++ b ++ c ++ g
  BY <1>1, Zenon DEF run_args
<1>3. DOMAIN a = {"input-file"} /\ DOMAIN b = {"network"} /\ DOMAIN c = {"index"}
      /\ b["network"] = Flag(FALSE, TRUE, <<"hoodi">>)
  BY <1>1, JoinedMaps
<1>4. PICK h : h = a ++ b
  OBVIOUS
<1>5. DOMAIN h = {"input-file", "network"} /\ h["network"] = b["network"]
  <2>1. DOMAIN h = DOMAIN a \cup DOMAIN b
    BY <1>4, JoinedMaps, Zenon
  <2>2. "network" \notin DOMAIN a /\ "network" \in DOMAIN b
    BY <1>3
  <2>3. h["network"] = b["network"]
    BY <1>4, <2>2, JoinedMaps
  <2> QED BY <1>3, <2>1, <2>3
<1>6. PICK i : i = h ++ c
  OBVIOUS
<1>7. DOMAIN i = {"input-file", "network", "index"} /\ i["network"] = b["network"]
  <2>1. DOMAIN i = DOMAIN h \cup DOMAIN c
    BY <1>6, JoinedMaps, Zenon
  <2>2. "network" \in DOMAIN h
    BY <1>5
  <2>3. i["network"] = h["network"]
    BY <1>6, <2>2, JoinedMaps
  <2> QED BY <1>3, <1>5, <2>1, <2>3
<1>8. PICK r : r = i ++ g
  OBVIOUS
<1>9. "network" \in DOMAIN r /\ r["network"] = b["network"]
  BY <1>7, <1>8, JoinedMaps
<1>10. PICK e : e = Flag(FALSE, TRUE, Absent)
  OBVIOUS
<1>11. \A f \in {"rpc-url", "gas-limit", "max-fee-per-gas", "max-priority-fee-per-gas", "nonce"} :
         f \in DOMAIN g /\ g[f] = e
  BY <1>1, <1>10
<1>12. \A f \in {"rpc-url", "gas-limit", "max-fee-per-gas", "max-priority-fee-per-gas", "nonce"} :
         f \in DOMAIN r /\ r[f] = e
  BY <1>7, <1>8, <1>11, JoinedMaps
<1>13. \A f \in OptionalFlags : EnvFlag(r, f, Absent)
  <2>1. e.env = TRUE /\ e.default = Absent
    BY <1>10, FlagParts
  <2> QED BY <1>12, <2>1, Zenon DEF EnvFlag, OptionalFlags
<1>14. EnvFlag(r, "network", <<"hoodi">>)
  <2>1. PICK d : d = <<"hoodi">>
    OBVIOUS
  <2>2. PICK h_ : h_ = Flag(FALSE, TRUE, d)
    OBVIOUS
  <2>3. h_.env = TRUE /\ h_.default = d
    BY <2>2, FlagParts
  <2>4. r["network"] = h_
    BY <1>3, <1>9, <2>1, <2>2, Zenon
  <2> QED BY <1>9, <2>1, <2>3, <2>4, Zenon DEF EnvFlag
<1> QED BY <1>2, <1>4, <1>6, <1>8, <1>13, <1>14, Zenon DEF BuilderFlags

(* The flags of build, and of run with those of the signer. *)
LEMMA BuilderFlagsAre ==
  BuilderFlags(build_args) /\ BuilderFlags(run_args ++ run_sign_args)
<1>1. \A g : BuilderFlags(run_args ++ g)
  <2> SUFFICES ASSUME NEW g PROVE BuilderFlags(run_args ++ g)
    OBVIOUS
  <2>1. \A n : n \in DOMAIN run_args => n \in DOMAIN (run_args ++ g) /\ (run_args ++ g)[n] = run_args[n]
    BY JoinedMaps
  <2>2. \A f, d : EnvFlag(run_args, f, d) => EnvFlag(run_args ++ g, f, d)
    BY <2>1, Zenon DEF EnvFlag
  <2> QED BY <2>2, RunArgsAre, Zenon DEF BuilderFlags
<1> QED BY <1>1, Zenon DEF build_args

(* A flag that is absent or says what it may. *)
Spoken(flag, S) == flag = Absent \/ \E t : flag = <<t>> /\ Says(t, S)

(* The value of a flag is one that may be typed, or the default. *)
LEMMA ValueSaid ==
  ASSUME NEW flag, NEW S, Parsed(flag), Spoken(flag, S), NEW d
  PROVE  ValueOr(flag, d) \in S \cup {d} /\ (flag = Absent => ValueOr(flag, d) = d)
<1>1. CASE flag = Absent
  BY <1>1 DEF ValueOr, non_empty
<1>2. ASSUME NEW t, flag = <<t>>, Says(t, S)
      PROVE  ValueOr(flag, d) \in S \cup {d} /\ flag # Absent
  <2>1. flag # Absent /\ flag[1] = t /\ 1 \in DOMAIN flag
    BY <1>2 DEF Absent
  <2>2. CASE t.text = "empty"
    BY <2>1, <2>2 DEF ValueOr, non_empty
  <2>3. CASE t.text # "empty"
    <3>1. non_empty(flag) = flag
      BY <2>1, <2>3 DEF non_empty
    <3>2. t.text = "number"
      BY <2>1, <3>1, Zenon DEF Parsed
    <3>3. ValueOr(flag, d) = t.value
      BY <2>1, <3>1, Zenon DEF ValueOr
    <3> QED BY <1>2, <2>1, <3>2, <3>3 DEF Says
  <2> QED BY <2>2, <2>3, <2>1
<1> QED BY <1>1, <1>2, Zenon DEF Spoken

(* A configuration made of orderly inputs. *)
ConfigFor(c, x) ==
  \E u, i, g, m, t, n :
    /\ c = Config(lookup_network[Network(x)], u, i, g, m, t, n, NoSender)
    /\ \A s : FlagFees(Config(lookup_network[Network(x)], u, i, g, m, t, n, s))
    /\ FromNode(x) /\ "rpc-url" \in DOMAIN x => u # Absent /\ g = 0 /\ m = Unset

(* The environment names a network at most; a number among those that may be *)
(* typed.                                                                    *)
EnvOf(env) == DOMAIN env \subseteq {"network"}
SaysIn(x, f, S) == f \in DOMAIN x => Says(x[f], S)

(* A flag of orderly inputs. *)
LEMMA OrderlyFlag ==
  ASSUME NEW flags, NEW x, NEW env, EnvOf(env), NEW S,
         NEW f, f # "network", EnvFlag(flags, f, Absent), SaysIn(x, f, S),
         try_get_matches(flags, Args(x, flags), env).ok
  PROVE  /\ Spoken(try_get_matches(flags, Args(x, flags), env).value[f], S)
         /\ f \notin DOMAIN x => try_get_matches(flags, Args(x, flags), env).value[f] = Absent
<1>1. f \in DOMAIN flags
  BY DEF EnvFlag
<1>2. PICK v : v = try_get_matches(flags, Args(x, flags), env).value[f]
  OBVIOUS
<1>3. v = FlagValue(flags, x, env, f)
  BY <1>1, <1>2, TypedMatched
<1>4. f \notin DOMAIN env
  BY DEF EnvOf
<1>5. v = IF f \in DOMAIN x /\ f \notin x["without"] THEN <<x[f]>> ELSE Absent
  BY <1>3, <1>4, Zenon DEF FlagValue, EnvFlag
<1>6. Spoken(v, S) /\ (f \notin DOMAIN x => v = Absent)
  BY <1>5, Zenon DEF Spoken, SaysIn
<1> QED BY <1>2, <1>6, Zenon

(* The configuration of orderly inputs: the network's, with fees that may be *)
(* typed.                                                                    *)
LEMMA ConfigOfInputs ==
  ASSUME NEW flags, BuilderFlags(flags), NEW x, NEW data, Orderly(x, data), "env" \in DOMAIN x,
         try_get_matches(flags, Args(x, flags), x["env"]).ok,
         build_config(try_get_matches(flags, Args(x, flags), x["env"]).value).ok
  PROVE  ConfigFor(build_config(try_get_matches(flags, Args(x, flags), x["env"]).value).value, x)
<1>1. PICK env : env = x["env"]
  OBVIOUS
<1>2. PICK m : m = try_get_matches(flags, Args(x, flags), env).value
  OBVIOUS
<1>3. EnvOf(env)
  BY <1>1, Zenon DEF Orderly, EnvOf
<1>4. try_get_matches(flags, Args(x, flags), env).ok
  BY <1>1, Zenon
<1>5. /\ EnvFlag(flags, "rpc-url", Absent) /\ EnvFlag(flags, "gas-limit", Absent)
      /\ EnvFlag(flags, "max-fee-per-gas", Absent) /\ EnvFlag(flags, "max-priority-fee-per-gas", Absent)
      /\ EnvFlag(flags, "nonce", Absent) /\ EnvFlag(flags, "network", <<"hoodi">>)
  BY Zenon DEF BuilderFlags, OptionalFlags
<1>6. Spoken(m["gas-limit"], {0, GasNeeded}) /\ ("gas-limit" \notin DOMAIN x => m["gas-limit"] = Absent)
  <2>1. SaysIn(x, "gas-limit", {0, GasNeeded})
    BY Zenon DEF Orderly, SaysIn
  <2>2. PICK f, S : f = "gas-limit" /\ S = {0, GasNeeded}
    OBVIOUS
  <2>3. f # "network"
    BY <2>2
  <2>4. EnvFlag(flags, f, Absent) /\ SaysIn(x, f, S)
    BY <1>5, <2>1, <2>2, Zenon
  <2>5. Spoken(m[f], S) /\ (f \notin DOMAIN x => m[f] = Absent)
    BY <1>2, <1>3, <1>4, <2>3, <2>4, OrderlyFlag
  <2> QED BY <2>2, <2>5, Zenon
<1>7. Spoken(m["max-fee-per-gas"], {BaseFee}) /\ ("max-fee-per-gas" \notin DOMAIN x => m["max-fee-per-gas"] = Absent)
  <2>1. SaysIn(x, "max-fee-per-gas", {BaseFee})
    BY Zenon DEF Orderly, SaysIn
  <2>2. PICK f, S : f = "max-fee-per-gas" /\ S = {BaseFee}
    OBVIOUS
  <2>3. f # "network"
    BY <2>2
  <2>4. EnvFlag(flags, f, Absent) /\ SaysIn(x, f, S)
    BY <1>5, <2>1, <2>2, Zenon
  <2>5. Spoken(m[f], S) /\ (f \notin DOMAIN x => m[f] = Absent)
    BY <1>2, <1>3, <1>4, <2>3, <2>4, OrderlyFlag
  <2> QED BY <2>2, <2>5, Zenon
<1>8. Spoken(m["max-priority-fee-per-gas"], {2}) /\ ("max-priority-fee-per-gas" \notin DOMAIN x => m["max-priority-fee-per-gas"] = Absent)
  <2>1. SaysIn(x, "max-priority-fee-per-gas", {2})
    BY Zenon DEF Orderly, SaysIn
  <2>2. PICK f, S : f = "max-priority-fee-per-gas" /\ S = {2}
    OBVIOUS
  <2>3. f # "network"
    BY <2>2
  <2>4. EnvFlag(flags, f, Absent) /\ SaysIn(x, f, S)
    BY <1>5, <2>1, <2>2, Zenon
  <2>5. Spoken(m[f], S) /\ (f \notin DOMAIN x => m[f] = Absent)
    BY <1>2, <1>3, <1>4, <2>3, <2>4, OrderlyFlag
  <2> QED BY <2>2, <2>5, Zenon
<1>9. Spoken(m["nonce"], {SenderNonce}) /\ ("nonce" \notin DOMAIN x => m["nonce"] = Absent)
  <2>1. SaysIn(x, "nonce", {SenderNonce})
    BY Zenon DEF Orderly, SaysIn
  <2>2. PICK f, S : f = "nonce" /\ S = {SenderNonce}
    OBVIOUS
  <2>3. f # "network"
    BY <2>2
  <2>4. EnvFlag(flags, f, Absent) /\ SaysIn(x, f, S)
    BY <1>5, <2>1, <2>2, Zenon
  <2>5. Spoken(m[f], S) /\ (f \notin DOMAIN x => m[f] = Absent)
    BY <1>2, <1>3, <1>4, <2>3, <2>4, OrderlyFlag
  <2> QED BY <2>2, <2>5, Zenon
<1>10. FromNode(x) /\ "rpc-url" \in DOMAIN x => m["rpc-url"] # Absent
  <2> SUFFICES ASSUME FromNode(x), "rpc-url" \in DOMAIN x PROVE m["rpc-url"] # Absent
    OBVIOUS
  <2>1. "rpc-url" \notin x["without"]
    BY Zenon DEF FromNode
  <2>2. PICK f : f = "rpc-url"
    OBVIOUS
  <2>3. f \in DOMAIN flags
    BY <1>5, <2>2, Zenon DEF EnvFlag
  <2>5. m[f] = FlagValue(flags, x, env, f)
    BY <1>2, <1>4, <2>3, TypedMatched
  <2>4. m[f] = <<x[f]>>
    BY <2>1, <2>2, <2>5, Zenon DEF FlagValue
  <2> QED BY <2>2, <2>4 DEF Absent
<1>11. m["network"][1] = Network(x)
  <2>1. PICK f : f = "network"
    OBVIOUS
  <2>3. f \in DOMAIN flags /\ flags[f].env = TRUE /\ flags[f].default = <<"hoodi">>
    BY <1>5, <2>1, Zenon DEF EnvFlag
  <2>2. m[f] = FlagValue(flags, x, env, f)
    BY <1>2, <1>4, <2>3, TypedMatched
  <2>4. m[f] = IF f \in DOMAIN x /\ f \notin x["without"] THEN <<x[f]>>
               ELSE IF flags[f].env /\ f \in DOMAIN env THEN <<env[f]>> ELSE flags[f].default
    BY <2>2, Zenon DEF FlagValue
  <2>5. Network(x) = IF f \in DOMAIN x /\ f \notin x["without"] THEN x[f]
                     ELSE IF f \in DOMAIN env THEN env[f] ELSE "hoodi"
    BY <1>1, <2>1 DEF Network
  <2>6. m[f] = <<Network(x)>>
    BY <2>3, <2>4, <2>5, Zenon
  <2>7. PICK w : w = Network(x)
    OBVIOUS
  <2>8. m[f][1] = w
    BY <2>6, <2>7
  <2> QED BY <2>1, <2>7, <2>8
<1>12. build_config(m).ok
  BY <1>1, <1>2, Zenon
<1>13. PICK i, g, fee, tip, n, u :
         /\ i = m["index"][1] /\ g = ValueOr(m["gas-limit"], 0) /\ fee = ValueOr(m["max-fee-per-gas"], Unset)
         /\ tip = ValueOr(m["max-priority-fee-per-gas"], Unset) /\ n = ValueOr(m["nonce"], Unset)
         /\ u = m["rpc-url"]
  OBVIOUS
<1>14. /\ build_config(m).value = Config(lookup_network[parse_flag(m["network"][1]).value], u, i, g, fee, tip, n, NoSender)
       /\ parse_flag(m["network"][1]).ok
       /\ Parsed(m["gas-limit"]) /\ Parsed(m["max-fee-per-gas"])
       /\ Parsed(m["max-priority-fee-per-gas"]) /\ Parsed(m["nonce"])
  BY <1>12, <1>13, BuildConfigured, Zenon
<1>15. parse_flag(Network(x)).value = Network(x)
  <2>1. parse_flag(Network(x)).ok
    BY <1>11, <1>14, Zenon
  <2> QED BY <2>1, Results, Zenon DEF parse_flag
<1>16. g \in {0, GasNeeded} /\ ("gas-limit" \notin DOMAIN x => g = 0)
  <2>1. g \in {0, GasNeeded} \cup {0} /\ (m["gas-limit"] = Absent => g = 0)
    BY <1>6, <1>13, <1>14, ValueSaid, Zenon
  <2> QED BY <1>6, <2>1
<1>17. fee \in {Unset, BaseFee} /\ ("max-fee-per-gas" \notin DOMAIN x => fee = Unset)
  <2>1. fee \in {BaseFee} \cup {Unset} /\ (m["max-fee-per-gas"] = Absent => fee = Unset)
    BY <1>7, <1>13, <1>14, ValueSaid, Zenon
  <2> QED BY <1>7, <2>1
<1>18. tip \in {Unset, 2}
  <2>1. tip \in {2} \cup {Unset}
    BY <1>8, <1>13, <1>14, ValueSaid, Zenon
  <2> QED BY <2>1
<1>19. n \in {Unset, SenderNonce}
  <2>1. n \in {SenderNonce} \cup {Unset}
    BY <1>9, <1>13, <1>14, ValueSaid, Zenon
  <2> QED BY <2>1
<1>20. PICK p : p = lookup_network[Network(x)]
  OBVIOUS
<1>21. ASSUME NEW s
       PROVE  FlagFees(Config(p, u, i, g, fee, tip, n, s))
  <2>1. PICK c : c = Config(p, u, i, g, fee, tip, n, s)
    OBVIOUS
  <2>2. c.gas = g /\ c.max_fee = fee /\ c.tip = tip /\ c.nonce = n
    BY <2>1 DEF Config
  <2> QED BY <1>16, <1>17, <1>18, <1>19, <2>1, <2>2, Zenon DEF FlagFees
<1>22. FromNode(x) => "gas-limit" \notin DOMAIN x /\ "max-fee-per-gas" \notin DOMAIN x
  BY DEF FromNode
<1>23. build_config(m).value = Config(p, u, i, g, fee, tip, n, NoSender)
  BY <1>11, <1>14, <1>15, <1>20, Zenon
<1>24. FromNode(x) /\ "rpc-url" \in DOMAIN x => u # Absent /\ g = 0 /\ fee = Unset
  BY <1>10, <1>13, <1>16, <1>17, <1>22, Zenon
<1>25. ConfigFor(build_config(m).value, x)
  BY ONLY <1>20, <1>21, <1>23, <1>24, Zenon DEF ConfigFor
<1> QED BY <1>1, <1>2, <1>25, Zenon

-----------------------------------------------------------------------------
(* From a genuine deposit to an unsigned transaction. *)

(* A configuration of orderly inputs, with any sender. *)
SentConfig(c, x) ==
  \E u, i, g, m, t, n, s :
    /\ c = Config(lookup_network[Network(x)], u, i, g, m, t, n, s)
    /\ FlagFees(Config(lookup_network[Network(x)], u, i, g, m, t, n, s))
    /\ FromNode(x) /\ "rpc-url" \in DOMAIN x => u # Absent /\ g = 0 /\ m = Unset

(* Setting the sender changes nothing else. *)
LEMMA SenderSet ==
  ASSUME NEW c, NEW x, ConfigFor(c, x)
  PROVE  SentConfig(c, x) /\ \A s : SentConfig([c EXCEPT !.from = s], x)
<1>1. PICK p : p = lookup_network[Network(x)]
  OBVIOUS
<1>2. PICK u, i, g, m, t, n :
        /\ c = Config(p, u, i, g, m, t, n, NoSender)
        /\ \A s : FlagFees(Config(p, u, i, g, m, t, n, s))
        /\ FromNode(x) /\ "rpc-url" \in DOMAIN x => u # Absent /\ g = 0 /\ m = Unset
  BY <1>1, Zenon DEF ConfigFor
<1>3. SentConfig(c, x)
  BY <1>1, <1>2, Zenon DEF SentConfig
<1>4. ASSUME NEW s
      PROVE  SentConfig([c EXCEPT !.from = s], x)
  <2>1. [c EXCEPT !.from = s] = Config(p, u, i, g, m, t, n, s)
    BY ONLY <1>2, SMT DEF Config
  <2> QED BY ONLY <1>1, <1>2, <2>1, Zenon DEF SentConfig
<1> QED BY <1>3, <1>4

(* What was built of a deposit of gen, for the chain; and of a node's fees. *)
MadeOf(u, asked) ==
  \E e, r : /\ GoodDeposit(e) /\ GoodFees(r, asked)
            /\ u = UnsignedOf(lookup_network[Chain].chain_id, lookup_network[Chain].deposit_contract_address, e, r)

(* The deposit file: a list, of which each entry verifies if it is unedited. *)
SizedInv ==
  deposit # None => "edited" \in DOMAIN deposit[1] /\ (~deposit[1].edited => Sized(deposit[1].entries))

(* From a genuine file the builder makes a deposit of gen for the chain. *)
LEMMA GenuineBuilt ==
  ASSUME EntryInv, SizedInv, deposit # None, NEW x, Genuine(x), "rpc-url" \in DOMAIN x,
         NEW c, SentConfig(c, x), NEW peer, NodeMeans(peer),
         build_unsigned_tx(c, deposit[1], peer).ok
  PROVE  MadeOf(build_unsigned_tx(c, deposit[1], peer).value, FromNode(x))
<1>1. PICK data : data = deposit[1]
  OBVIOUS
<1>2. /\ ~data.edited /\ Network(x) = Chain
      /\ \A i \in DOMAIN data.entries : data.entries[i].network_name = Chain
  BY <1>1, Zenon DEF Genuine
<1>3. Sized(data.entries) /\ \A i \in DOMAIN data.entries : Verifies(data.entries[i])
  BY <1>1, <1>2, Zenon DEF EntryInv, SizedInv
<1>4. build_unsigned_tx(c, data, peer).ok
  BY <1>1, Zenon
<1>5. PICK entry, r : BuiltOf(c, data, peer, entry, r)
  BY <1>3, <1>4, BuilderMakes
<1>6. entry.network_name = Chain /\ Verifies(entry)
  <2>1. PICK n \in Nat : DOMAIN data.entries = 1 .. n
    BY <1>3 DEF Sized
  <2>2. PICK j : j = c.index
    OBVIOUS
  <2>3. j \in 0 .. Len(data.entries) - 1 /\ entry = data.entries[j + 1]
    BY <1>5, <2>2, Zenon DEF BuiltOf
  <2>4. j + 1 \in 1 .. n
    BY <2>1, <2>3
  <2> QED BY <1>2, <1>3, <2>1, <2>3, <2>4, Zenon
<1>7. entry.amount = Amount
  BY <1>5 DEF BuiltOf, ValidEntry
<1>8. GoodDeposit(entry)
  BY <1>6, <1>7, Zenon DEF GoodDeposit
<1>9. PICK p : p = lookup_network[Chain] /\ p = lookup_network[Network(x)]
  BY <1>2
<1>10. PICK u, i, g, m, t, n, s :
        /\ c = Config(p, u, i, g, m, t, n, s)
        /\ FlagFees(Config(p, u, i, g, m, t, n, s))
        /\ FromNode(x) /\ "rpc-url" \in DOMAIN x => u # Absent /\ g = 0 /\ m = Unset
  <2>1. PICK q : q = lookup_network[Network(x)]
    OBVIOUS
  <2>2. PICK u, i, g, m, t, n, s :
          /\ c = Config(q, u, i, g, m, t, n, s)
          /\ FlagFees(Config(q, u, i, g, m, t, n, s))
          /\ FromNode(x) /\ "rpc-url" \in DOMAIN x => u # Absent /\ g = 0 /\ m = Unset
    BY ONLY SentConfig(c, x), <2>1, SMT DEF SentConfig
  <2>3. q = p
    BY <1>9, <2>1
  <2> QED BY ONLY <2>2, <2>3, Zenon
<1>11. UsualAnswers(Answers(peer))
  BY NodeAnswers
<1>12. resolve_fields(FullConfig(c), Answers(peer)).ok /\ r = resolve_fields(FullConfig(c), Answers(peer)).value
  BY <1>5, Zenon DEF BuiltOf
<1>13. PICK a : a = Answers(peer)
  OBVIOUS
<1>14. c.rpc = u /\ c.gas = g /\ c.max_fee = m
  BY ONLY <1>10, SMT DEF Config
<1>15. FullConfig(c).params = p /\ GoodFees(r, u # Absent /\ g = 0 /\ m = Unset)
  <2>1. IsConfig(c, p) /\ FlagFees(c)
    BY ONLY <1>10, Zenon DEF IsConfig
  <2>2. /\ FullConfig(c).params = p
        /\ GoodFees(resolve_fields(FullConfig(c), a).value, c.rpc # Absent /\ c.gas = 0 /\ c.max_fee = Unset)
    BY <1>11, <1>12, <1>13, <2>1, BuilderFees, Zenon
  <2> QED BY <1>12, <1>13, <1>14, <2>2, Zenon
<1>16. GoodFees(r, FromNode(x))
  BY <1>10, <1>15, Zenon DEF GoodFees
<1>17. build_unsigned_tx(c, data, peer) = Success(UnsignedOf(p.chain_id, p.deposit_contract_address, entry, r))
  BY <1>5, <1>15, Zenon DEF BuiltOf
<1>18. build_unsigned_tx(c, data, peer).value = UnsignedOf(p.chain_id, p.deposit_contract_address, entry, r)
  BY <1>17, Results, Zenon
<1> QED BY <1>1, <1>8, <1>9, <1>16, <1>18, Zenon DEF MadeOf

-----------------------------------------------------------------------------
(* The commands that build and sign. *)

(* What is good is passed on as it is. *)
LEMMA UsageOk ==
  ASSUME NEW r, Usage(r).ok
  PROVE  r.ok /\ Usage(r) = r
BY Results, Zenon DEF Usage

(* deposit build makes of a genuine file a deposit of gen, and of a node's   *)
(* fees if it was asked.                                                     *)
LEMMA BuildMade ==
  ASSUME EntryInv, SizedInv, deposit # None, NEW x, Orderly(x, deposit[1]), Genuine(x),
         "env" \in DOMAIN x, "file" \in DOMAIN x, "node" \in DOMAIN x, "rpc-url" \in DOMAIN x,
         deposit_build(Args(x, build_args), x["env"], x["file"], x["node"]).ok
  PROVE  MadeOf(deposit_build(Args(x, build_args), x["env"], x["file"], x["node"]).value, FromNode(x))
<1>1. PICK args, env, data, peer : args = Args(x, build_args) /\ env = x["env"] /\ data = x["file"] /\ peer = x["node"]
  OBVIOUS
<1> DEFINE m       == Usage(try_get_matches(build_args, args, env))
           c0      == Usage(build_config(m.value))
           parsed  == Require(parse_from_flag(m.value["from"]), exit2("--from"))
           c       == [c0.value EXCEPT !.from = SenderOf(m.value["from"])]
           known   == Require(require_from_for_rpc(c), exit2("--from"))
           content == Usage(data)
           made    == build_unsigned_tx(c, content.value, peer)
<1>2. deposit_build(args, env, data, peer) =
        IF m.ok THEN IF c0.ok THEN IF parsed.ok THEN IF known.ok THEN IF content.ok THEN made ELSE content
                                                     ELSE known ELSE parsed ELSE c0 ELSE m
  BY Zenon DEF deposit_build, Then
<1>3. deposit_build(args, env, data, peer).ok
  BY <1>1, Zenon
<1>4. m.ok /\ c0.ok /\ content.ok /\ made.ok /\ deposit_build(args, env, data, peer) = made
  <2> HIDE DEF m, c0, parsed, known, content, made
  <2> QED BY <1>2, <1>3
<1>5. PICK t : t = try_get_matches(build_args, args, env)
  OBVIOUS
<1>6. t.ok /\ m = t
  <2>1. Usage(t).ok
    BY <1>4, <1>5, Zenon
  <2> QED BY <1>5, <2>1, UsageOk, Zenon
<1>7. build_config(t.value).ok /\ c0 = build_config(t.value)
  <2>1. c0 = Usage(build_config(t.value))
    <3> HIDE DEF m
    <3> QED BY <1>6, Zenon
  <2>2. Usage(build_config(t.value)).ok
    BY <1>4, <2>1, Zenon
  <2> HIDE DEF c0
  <2> QED BY <2>1, <2>2, UsageOk, Zenon
<1>8. ConfigFor(c0.value, x)
  <2>1. BuilderFlags(build_args)
    BY BuilderFlagsAre
  <2>2. ConfigFor(build_config(t.value).value, x)
    BY <1>1, <1>5, <1>6, <1>7, <2>1, ConfigOfInputs, Zenon
  <2> HIDE DEF c0
  <2> QED BY <1>7, <2>2, Zenon
<1>9. SentConfig(c, x)
  <2> HIDE DEF c0, m
  <2> QED BY <1>8, SenderSet, Zenon
<1>10. content.value = deposit[1]
  <2>1. data.ok /\ content = data
    BY <1>4, UsageOk, Zenon
  <2> QED BY <1>1, <2>1, Zenon DEF Orderly
<1>11. NodeMeans(peer)
  BY <1>1, Zenon DEF Orderly
<1>12. build_unsigned_tx(c, deposit[1], peer).ok /\ made = build_unsigned_tx(c, deposit[1], peer)
  <2> HIDE DEF c, content
  <2> QED BY <1>4, <1>10, Zenon
<1>13. MadeOf(build_unsigned_tx(c, deposit[1], peer).value, FromNode(x))
  <2> HIDE DEF c
  <2> QED BY <1>9, <1>11, <1>12, GenuineBuilt, Zenon
<1> HIDE DEF c, made
<1> QED BY <1>1, <1>4, <1>12, <1>13, Zenon

(* The key of a local signer is that of its file.                            *)
LEMMA LocalKey ==
  ASSUME NEW data, local_signer_from_file(data).ok
  PROVE  local_signer_from_file(data).value = data.read.value.key
<1> DEFINE s == new_local_signer_from_file(data)
           a == Failure(exit2("key-given-as-a-path"))
           b == Failure(context(FromSigner(s.err)))
           d == new_local_signer_from_hex(data.read.value)
           f == Failure("KeyGivenAsPath")
           g == Failure("KeyFile")
           h == Failure("InvalidKey")
           k == Success(data.read.value.key)
<1>1. local_signer_from_file(data) =
        CASE s.ok -> s [] ~s.ok /\ s.err = "KeyGivenAsPath" -> a [] OTHER -> b
  BY Zenon DEF local_signer_from_file
<1>2. ~a.ok /\ ~b.ok /\ ~f.ok /\ ~g.ok /\ ~h.ok /\ k.ok /\ k.value = data.read.value.key
  BY Results, Zenon
<1>3. PICK S, T : S = {f, g, d} /\ T = {h, k}
  OBVIOUS
<1>4. f \in S /\ g \in S /\ d \in S /\ h \in T /\ k \in T
  BY <1>3
<1>5. s \in S
  BY <1>4, Zenon DEF new_local_signer_from_file
<1>6. d \in T
  BY <1>4, Zenon DEF new_local_signer_from_hex
<1> HIDE DEF s, a, b, d, f, g, h, k
<1>7. s.ok /\ local_signer_from_file(data) = s
  <2>1. CASE s.ok
    BY <1>1, <2>1, Zenon
  <2>2. CASE ~s.ok /\ s.err = "KeyGivenAsPath"
    <3>1. local_signer_from_file(data) = a
      BY <1>1, <2>2, Zenon
    <3> QED BY <1>2, <3>1, Zenon
  <2>3. CASE ~s.ok /\ s.err # "KeyGivenAsPath"
    <3>1. local_signer_from_file(data) = b
      BY <1>1, <2>3, Zenon
    <3> QED BY <1>2, <3>1, Zenon
  <2> QED BY <2>1, <2>2, <2>3
<1>8. s = k
  BY <1>2, <1>3, <1>5, <1>6, <1>7
<1> QED BY <1>2, <1>7, <1>8, Zenon

(* The device has signed if its signer succeeds. *)
LEMMA LedgerAgreed ==
  ASSUME NEW u, NEW p, parse_unsigned_tx(u) = Success(p), NEW device, sign_ledger(u, device).ok
  PROVE  device.sign.ok
<1> DEFINE q    == parse_unsigned_tx(u)
           key  == device.sign.value
           hash == SigHash(q.value, u)
           sig  == Sig(key, hash, SIsHigh(key, hash))
           v    == OddY(key, hash) # sig.neg
           bad  == LedgerError(device.sign.err)
           good == SignedTx(u, q.value, recover_address(hash, sig, v), [sig |-> sig, v |-> v])
<1>1. sign_ledger(u, device) = CASE ~q.ok -> q [] q.ok /\ ~device.sign.ok -> bad [] OTHER -> good
  BY Zenon DEF sign_ledger
<1>2. q.ok
  BY Results, Zenon
<1>3. ~bad.ok
  <2> DEFINE a == Failure("ChainIdMismatch")
             b == Failure("UserRejected")
             c == Failure("Msg")
  <2>1. PICK S : S = {a, b, c}
    OBVIOUS
  <2>2. a \in S /\ b \in S /\ c \in S
    BY <2>1
  <2>3. bad \in S
    BY <2>2, Zenon DEF LedgerError
  <2>4. ~a.ok /\ ~b.ok /\ ~c.ok
    BY Results, Zenon
  <2> HIDE DEF a, b, c, bad
  <2> QED BY <2>1, <2>3, <2>4
<1> SUFFICES ASSUME ~device.sign.ok PROVE FALSE
  OBVIOUS
<1> HIDE DEF q, bad, good
<1>4. sign_ledger(u, device) = bad
  BY <1>1, <1>2, Zenon
<1> QED BY <1>3, <1>4, Zenon

(* Each signer signs with its key. *)
LEMMA SignerSigns ==
  ASSUME NEW signer, NEW k, NEW u, NEW device, NEW p, parse_unsigned_tx(u) = Success(p),
         sign_unsigned_tx(signer, k, u, device).ok
  PROVE  IF signer = <<"local">> THEN Signs(sign_unsigned_tx(signer, k, u, device).value.rawRLP, p, u, k)
         ELSE device.sign.ok /\ Signs(sign_unsigned_tx(signer, k, u, device).value.rawRLP, p, u, device.sign.value)
<1> DEFINE own    == sign_local(u, k)
           wallet == new_ledger_signer(device)
           far    == sign_ledger(u, device)
           r      == IF signer = <<"local">> THEN own ELSE IF wallet.ok THEN far ELSE wallet
<1>1. sign_unsigned_tx(signer, k, u, device) = SignerContext(r)
  BY Zenon DEF sign_unsigned_tx, Then
<1>2. r.ok /\ sign_unsigned_tx(signer, k, u, device) = r
  <2> HIDE DEF r
  <2> QED BY <1>1, Results, Zenon DEF SignerContext
<1>3. CASE signer = <<"local">>
  <2>1. r = own
    <3> HIDE DEF own, wallet, far
    <3> QED BY <1>3
  <2>2. sign_local(u, k).ok
    BY <1>2, <2>1, Zenon
  <2>3. Signs(sign_local(u, k).value.rawRLP, p, u, k)
    BY <2>2, LocalSigns
  <2> HIDE DEF r
  <2> QED BY <1>2, <1>3, <2>1, <2>3, Zenon
<1>4. CASE signer # <<"local">>
  <2>1. far.ok /\ r = far
    <3> HIDE DEF own, wallet, far
    <3> QED BY <1>2, <1>4
  <2>2. device.sign.ok
    BY <2>1, LedgerAgreed
  <2>3. Signs(sign_ledger(u, device).value.rawRLP, p, u, device.sign.value)
    BY <2>1, <2>2, LedgerSigns
  <2> HIDE DEF r
  <2> QED BY <1>2, <1>4, <2>1, <2>2, <2>3, Zenon
<1> QED BY <1>3, <1>4

(* The signer that a command is told. *)
SignerFlag(flags) ==
  "signer" \in DOMAIN flags /\ flags["signer"].env = FALSE /\ flags["signer"].default = Absent

(* The flags that name the signer. *)
LEMMA SignerFlags ==
  SignerFlag(sign_args) /\ SignerFlag(run_args ++ run_sign_args)
<1>1. PICK d, e : d = Flag(TRUE, FALSE, Absent) /\ e = Flag(FALSE, FALSE, Absent)
  OBVIOUS
<1>2. d.env = FALSE /\ d.default = Absent /\ e.env = FALSE /\ e.default = Absent
  BY <1>1, FlagParts, Zenon
<1>3. "signer" \in DOMAIN sign_args /\ sign_args["signer"] = d
  <2>1. PICK a, b : a = ("signer" := d) /\ b = [f \in {"input", "private-key-file"} |-> Flag(FALSE, FALSE, Absent)]
    OBVIOUS
  <2>2. sign_args = a ++ b
    BY <1>1, <2>1, Zenon DEF sign_args
  <2>3. "signer" \in DOMAIN a /\ a["signer"] = d
    BY <2>1 DEF :=
  <2>4. PICK n, h : n = "signer" /\ h = a ++ b
    OBVIOUS
  <2>5. n \in DOMAIN h /\ h[n] = d
    BY <2>3, <2>4, JoinedMaps
  <2> QED BY <2>2, <2>4, <2>5, Zenon
<1>4. PICK g : g = [f \in {"signer", "private-key-file"} |-> Flag(FALSE, FALSE, Absent)]
  OBVIOUS
<1>5. "signer" \in DOMAIN g /\ g["signer"] = e
  BY <1>1, <1>4
<1>6. "signer" \notin DOMAIN run_args
  <2>1. PICK a, b, c, h : /\ a = ("input-file" := Flag(TRUE, TRUE, Absent))
                          /\ b = ("network" := Flag(FALSE, TRUE, <<"hoodi">>))
                          /\ c = ("index" := Flag(FALSE, TRUE, <<0>>))
                          /\ h = [f \in {"rpc-url", "gas-limit", "max-fee-per-gas", "max-priority-fee-per-gas", "nonce"}
                                    |-> Flag(FALSE, TRUE, Absent)]
    OBVIOUS
  <2>2. run_args = a ++ b ++ c ++ h
    BY <2>1, Zenon DEF run_args
  <2>3. DOMAIN a = {"input-file"} /\ DOMAIN b = {"network"} /\ DOMAIN c = {"index"}
        /\ DOMAIN h = {"rpc-url", "gas-limit", "max-fee-per-gas", "max-priority-fee-per-gas", "nonce"}
    BY <2>1, JoinedMaps
  <2>5. PICK i, j : i = a ++ b /\ j = i ++ c
    OBVIOUS
  <2>6. DOMAIN i = DOMAIN a \cup DOMAIN b
    BY <2>5, JoinedMaps
  <2>7. DOMAIN j = DOMAIN i \cup DOMAIN c
    BY <2>5, JoinedMaps
  <2>8. DOMAIN (j ++ h) = DOMAIN j \cup DOMAIN h
    BY JoinedMaps
  <2>4. DOMAIN run_args = ((DOMAIN a \cup DOMAIN b) \cup DOMAIN c) \cup DOMAIN h
    BY <2>2, <2>5, <2>6, <2>7, <2>8, Zenon
  <2> QED BY <2>3, <2>4
<1>7. "signer" \in DOMAIN (run_args ++ run_sign_args) /\ (run_args ++ run_sign_args)["signer"] = e
  <2>1. run_sign_args = g
    BY <1>4, Zenon DEF run_sign_args
  <2>2. PICK n, h, q : n = "signer" /\ h = run_args /\ q = h ++ g
    OBVIOUS
  <2>3. n \notin DOMAIN h /\ n \in DOMAIN g /\ g[n] = e
    BY <1>5, <1>6, <2>2
  <2>4. n \in DOMAIN q /\ q[n] = e
    BY <2>2, <2>3, JoinedMaps
  <2> QED BY <2>1, <2>2, <2>4, Zenon
<1> QED BY <1>2, <1>3, <1>7, Zenon DEF SignerFlag

(* The local signer pays with the key of the file. *)
LEMMA SignerTyped ==
  ASSUME NEW flags, SignerFlag(flags), NEW x, NEW env, try_get_matches(flags, Args(x, flags), env).ok,
         try_get_matches(flags, Args(x, flags), env).value["signer"] = <<"local">>
  PROVE  Payer(x) = x["key_file"].read.value.key
<1>1. PICK f : f = "signer"
  OBVIOUS
<1>2. f \in DOMAIN flags /\ flags[f].env = FALSE /\ flags[f].default = Absent
  BY <1>1, Zenon DEF SignerFlag
<1>3. FlagValue(flags, x, env, f) = <<"local">>
  BY <1>1, <1>2, TypedMatched, Zenon
<1>4. <<"local">> = IF f \in DOMAIN x /\ f \notin x["without"] THEN <<x[f]>> ELSE Absent
  BY <1>2, <1>3, Zenon DEF FlagValue
<1>5. x[f] = "local"
  <2>1. PICK b \in BOOLEAN : b = (f \in DOMAIN x /\ f \notin x["without"])
    OBVIOUS
  <2>2. PICK v : v = x[f]
    OBVIOUS
  <2>3. <<"local">> = IF b THEN <<v>> ELSE <<>>
    BY <1>4, <2>1, <2>2, Zenon DEF Absent
  <2>4. v = "local"
    BY ONLY <2>1, <2>3, SMT
  <2> QED BY <2>2, <2>4
<1>6. x["signer"] # "ledger"
  BY <1>1, <1>5
<1> QED BY <1>6, Zenon DEF Payer

(* What was signed of a deposit of gen. *)
SealedOf(raw, asked) ==
  \E e, r, k :
    /\ GoodDeposit(e) /\ GoodFees(r, asked) /\ (asked => k = SenderKey)
    /\ Signs(raw, ParsedOf(lookup_network[Chain].chain_id, lookup_network[Chain].deposit_contract_address, e, r),
             UnsignedOf(lookup_network[Chain].chain_id, lookup_network[Chain].deposit_contract_address, e, r), k)

(* A device that has the sender's key, and a signer that has it if asked. *)
SendersDevice(device) == device.sign.ok => device.sign.value = SenderKey
Pays(signer, k, own) == signer = <<"local">> /\ own => k = SenderKey

(* Whichever signer signs it, a deposit stays one. *)
LEMMA Sealed ==
  ASSUME NEW u, NEW fees, MadeOf(u, fees), NEW signer, NEW k, NEW device,
         sign_unsigned_tx(signer, k, u, device).ok,
         SendersDevice(device), NEW own, Pays(signer, k, own)
  PROVE  SealedOf(sign_unsigned_tx(signer, k, u, device).value.rawRLP, fees /\ own)
<1>1. PICK id, to : id = lookup_network[Chain].chain_id /\ to = lookup_network[Chain].deposit_contract_address
  OBVIOUS
<1>2. PICK e, r : GoodDeposit(e) /\ GoodFees(r, fees) /\ u = UnsignedOf(id, to, e, r)
  BY <1>1, Zenon DEF MadeOf
<1>3. PICK p : p = ParsedOf(id, to, e, r)
  OBVIOUS
<1>4. parse_unsigned_tx(u) = Success(p)
  <2>1. id # 0
    BY <1>1, ChainIdSmall
  <2> QED BY <1>2, <1>3, <2>1, ParsedBuilt, Zenon
<1>5. PICK raw : raw = sign_unsigned_tx(signer, k, u, device).value.rawRLP
  OBVIOUS
<1>6. IF signer = <<"local">> THEN Signs(raw, p, u, k) ELSE device.sign.ok /\ Signs(raw, p, u, device.sign.value)
  BY <1>4, <1>5, SignerSigns, Zenon
<1>7. GoodFees(r, fees /\ own)
  BY <1>2, Zenon DEF GoodFees
<1>8. \E k_ : Signs(raw, p, u, k_) /\ (fees /\ own => k_ = SenderKey)
  BY <1>6, Zenon DEF SendersDevice, Pays
<1> QED BY <1>1, <1>2, <1>3, <1>5, <1>7, <1>8, Zenon DEF SealedOf

(* tx sign makes of a deposit a signed one. *)
LEMMA SignMade ==
  ASSUME NEW x, NEW u, NEW fees, MadeOf(u, fees), Orderly(x, u), "file" \in DOMAIN x, "device" \in DOMAIN x,
         tx_sign(Args(x, sign_args), x["file"], x["key_file"], x["device"]).ok
  PROVE  SealedOf(tx_sign(Args(x, sign_args), x["file"], x["key_file"], x["device"]).value.rawRLP,
                  fees /\ Payer(x) = SenderKey)
<1>1. PICK args, data, key_file, device :
        args = Args(x, sign_args) /\ data = x["file"] /\ key_file = x["key_file"] /\ device = x["device"]
  OBVIOUS
<1> DEFINE m     == Usage(try_get_matches(sign_args, args, <<>>))
           c     == Usage(sign_config(m.value))
           read  == Usage(data)
           local == Local(c.value.signer, key_file)
           made  == sign_unsigned_tx(c.value.signer, local.value, read.value, device)
<1>2. tx_sign(args, data, key_file, device) =
        IF m.ok THEN IF c.ok THEN IF read.ok THEN IF local.ok THEN made ELSE local ELSE read ELSE c ELSE m
  BY Zenon DEF tx_sign, Then
<1>3. tx_sign(args, data, key_file, device).ok
  BY <1>1, Zenon
<1>4. m.ok /\ c.ok /\ read.ok /\ local.ok /\ made.ok /\ tx_sign(args, data, key_file, device) = made
  <2> HIDE DEF m, c, read, local, made
  <2> QED BY <1>2, <1>3
<1>5. PICK t : t = try_get_matches(sign_args, args, <<>>)
  OBVIOUS
<1>6. t.ok /\ m = t
  <2>1. Usage(t).ok
    BY <1>4, <1>5, Zenon
  <2> QED BY <1>5, <2>1, UsageOk, Zenon
<1>7. PICK signer : signer = t.value["signer"]
  OBVIOUS
<1>8. c.value.signer = signer
  <2>1. c = Usage(sign_config(t.value))
    <3> HIDE DEF m
    <3> QED BY <1>6, Zenon
  <2>2. Usage(sign_config(t.value)).ok
    BY <1>4, <2>1, Zenon
  <2>3. sign_config(t.value).ok /\ Usage(sign_config(t.value)) = sign_config(t.value)
    BY <2>2, UsageOk, Zenon
  <2>4. PICK checks, key, conf : conf = [signer |-> signer, key |-> key] /\ sign_config(t.value) = Checked(checks, conf)
    BY <1>7, Zenon DEF sign_config
  <2>5. sign_config(t.value).value = conf
    BY <2>3, <2>4, CheckedOk, Zenon
  <2>6. conf.signer = signer
    BY <2>4
  <2> HIDE DEF c
  <2> QED BY <2>1, <2>3, <2>5, <2>6, Zenon
<1>9. read.value = u
  <2>1. data.ok /\ read = data
    BY <1>4, UsageOk, Zenon
  <2> QED BY <1>1, <2>1, Zenon DEF Orderly
<1>10. PICK k : k = local.value
  OBVIOUS
<1>11. signer = <<"local">> /\ Payer(x) = SenderKey => k = SenderKey
  <2> SUFFICES ASSUME signer = <<"local">>, Payer(x) = SenderKey PROVE k = SenderKey
    OBVIOUS
  <2>1. local = local_signer_from_file(key_file)
    <3> HIDE DEF c
    <3> QED BY <1>8, Zenon DEF Local
  <2>2. k = key_file.read.value.key
    <3>1. local_signer_from_file(key_file).ok
      BY <1>4, <2>1, Zenon
    <3> HIDE DEF local
    <3> QED BY <1>10, <2>1, <3>1, LocalKey, Zenon
  <2>3. Payer(x) = x["key_file"].read.value.key
    BY <1>1, <1>5, <1>6, <1>7, SignerFlags, SignerTyped, Zenon
  <2> QED BY <1>1, <2>2, <2>3, Zenon
<1>12. made = sign_unsigned_tx(signer, k, u, device)
  <2> HIDE DEF c, local, read
  <2> QED BY <1>8, <1>9, <1>10, Zenon
<1>13. device.sign.ok => device.sign.value = SenderKey
  BY <1>1, Zenon DEF Orderly
<1>14. SealedOf(sign_unsigned_tx(signer, k, u, device).value.rawRLP, fees /\ Payer(x) = SenderKey)
  <2>1. PICK own : own = (Payer(x) = SenderKey)
    OBVIOUS
  <2>2. sign_unsigned_tx(signer, k, u, device).ok
    <3> HIDE DEF made
    <3> QED BY <1>4, <1>12, Zenon
  <2>3. SealedOf(sign_unsigned_tx(signer, k, u, device).value.rawRLP, fees /\ own)
    <3>1. SendersDevice(device) /\ Pays(signer, k, own)
      BY <1>11, <1>13, <2>1, Zenon DEF SendersDevice, Pays
    <3> QED BY ONLY MadeOf(u, fees), <2>2, <3>1, Sealed, SMT
  <2> QED BY <2>1, <2>3, Zenon
<1> HIDE DEF made
<1> QED BY <1>1, <1>4, <1>12, <1>14, Zenon

(* tx run makes of a genuine file a signed deposit. *)
LEMMA RunMade ==
  ASSUME EntryInv, SizedInv, deposit # None, NEW x, Orderly(x, deposit[1]), Genuine(x),
         "env" \in DOMAIN x, "file" \in DOMAIN x, "node" \in DOMAIN x, "rpc-url" \in DOMAIN x, "device" \in DOMAIN x,
         tx_run(Args(x, run_args ++ run_sign_args), x["env"], x["file"], x["key_file"], x["device"], x["node"]).ok
  PROVE  SealedOf(tx_run(Args(x, run_args ++ run_sign_args), x["env"], x["file"], x["key_file"],
                         x["device"], x["node"]).value.rawRLP,
                  FromNode(x) /\ Payer(x) = SenderKey)
<1>1. PICK flags, args, env, data, key_file, device, peer :
        /\ flags = run_args ++ run_sign_args
        /\ args = Args(x, flags) /\ env = x["env"] /\ data = x["file"] /\ key_file = x["key_file"]
        /\ device = x["device"] /\ peer = x["node"]
  OBVIOUS
<1> DEFINE m       == Usage(try_get_matches(run_args ++ run_sign_args, args, env))
           c       == Usage(run_config(m.value))
           given   == Require(require_ledger_flags_for_rpc(c.value.signer[1], c.value.build), exit2("--signer-ledger"))
           content == Usage(data)
           local   == Local(c.value.signer, key_file)
           known   == c.value.signer = <<"local">> /\ c.value.build.rpc # Absent
           b       == IF known THEN [c.value.build EXCEPT !.from = secret_to_address(local.value)] ELSE c.value.build
           u       == build_unsigned_tx(b, content.value, peer)
           made    == sign_unsigned_tx(c.value.signer, local.value, u.value, device)
<1>2. tx_run(args, env, data, key_file, device, peer) =
        IF m.ok THEN IF c.ok THEN IF given.ok THEN IF content.ok THEN IF local.ok THEN IF u.ok THEN made ELSE u
                                                   ELSE local ELSE content ELSE given ELSE c ELSE m
  BY Zenon DEF tx_run, Then
<1>3. tx_run(args, env, data, key_file, device, peer).ok
  BY <1>1, Zenon
<1>4. /\ m.ok /\ c.ok /\ content.ok /\ local.ok /\ u.ok /\ made.ok
      /\ tx_run(args, env, data, key_file, device, peer) = made
  <2> HIDE DEF m, c, given, content, local, u, made
  <2> QED BY <1>2, <1>3
<1>5. PICK t : t = try_get_matches(flags, args, env)
  OBVIOUS
<1>6. t.ok /\ m = t
  <2>1. m = Usage(t)
    BY <1>1, <1>5, Zenon
  <2>2. Usage(t).ok
    BY <1>4, <2>1, Zenon
  <2> HIDE DEF m
  <2> QED BY <2>1, <2>2, UsageOk, Zenon
<1>7. PICK signer, build : signer = t.value["signer"] /\ build = build_config(t.value)
  OBVIOUS
<1>8. build.ok /\ c.value.build = build.value /\ c.value.signer = signer
  <2>1. c = Usage(run_config(t.value))
    <3> HIDE DEF m
    <3> QED BY <1>6, Zenon
  <2>2. Usage(run_config(t.value)).ok
    BY <1>4, <2>1, Zenon
  <2>3. run_config(t.value).ok /\ Usage(run_config(t.value)) = run_config(t.value)
    BY <2>2, UsageOk, Zenon
  <2>4. PICK checks, v, key, conf :
          /\ v = build.value /\ key = t.value["private-key-file"]
          /\ conf = [build |-> v, signer |-> signer, key |-> key] /\ checks = SignerChecks(t.value)
    OBVIOUS
  <2>5. run_config(t.value) = IF ~build.ok THEN build ELSE Checked(checks, conf)
    BY <1>7, <2>4, Zenon DEF run_config
  <2>6. build.ok /\ run_config(t.value) = Checked(checks, conf)
    BY <2>3, <2>5, Zenon
  <2>7. run_config(t.value).value = conf
    BY <2>3, <2>6, CheckedOk, Zenon
  <2>8. conf.build = v /\ conf.signer = signer
    BY <2>4
  <2> HIDE DEF c
  <2> QED BY <2>1, <2>3, <2>4, <2>6, <2>7, <2>8, Zenon
<1>9. ConfigFor(build.value, x)
  <2>1. BuilderFlags(flags)
    BY <1>1, BuilderFlagsAre, Zenon
  <2> QED BY <1>1, <1>5, <1>6, <1>7, <1>8, <2>1, ConfigOfInputs, Zenon
<1>10. SentConfig(b, x)
  <2>1. PICK v, s : v = build.value /\ s = secret_to_address(local.value)
    OBVIOUS
  <2>2. SentConfig(v, x) /\ SentConfig([v EXCEPT !.from = s], x)
    BY <1>9, <2>1, SenderSet, Zenon
  <2>3. b \in {v, [v EXCEPT !.from = s]}
    <3> HIDE DEF c, local, known
    <3> QED BY <1>8, <2>1
  <2> HIDE DEF b
  <2> QED BY <2>2, <2>3
<1>11. content.value = deposit[1]
  <2>1. data.ok /\ content = data
    BY <1>4, UsageOk, Zenon
  <2> QED BY <1>1, <2>1, Zenon DEF Orderly
<1>12. NodeMeans(peer)
  BY <1>1, Zenon DEF Orderly
<1>13. build_unsigned_tx(b, deposit[1], peer).ok /\ u = build_unsigned_tx(b, deposit[1], peer)
  <2> HIDE DEF b, content
  <2> QED BY <1>4, <1>11, Zenon
<1>14. PICK w, fees : w = u.value /\ fees = FromNode(x)
  OBVIOUS
<1>15. MadeOf(w, fees)
  <2>1. MadeOf(build_unsigned_tx(b, deposit[1], peer).value, FromNode(x))
    <3> HIDE DEF b
    <3> QED BY <1>10, <1>12, <1>13, GenuineBuilt, Zenon
  <2> HIDE DEF b, u
  <2> QED BY <1>13, <1>14, <2>1, Zenon
<1>16. PICK k : k = local.value
  OBVIOUS
<1>17. signer = <<"local">> /\ Payer(x) = SenderKey => k = SenderKey
  <2> SUFFICES ASSUME signer = <<"local">>, Payer(x) = SenderKey PROVE k = SenderKey
    OBVIOUS
  <2>1. local = local_signer_from_file(key_file)
    <3> HIDE DEF c
    <3> QED BY <1>8, Zenon DEF Local
  <2>2. k = key_file.read.value.key
    <3>1. local_signer_from_file(key_file).ok
      BY <1>4, <2>1, Zenon
    <3> HIDE DEF local
    <3> QED BY <1>16, <2>1, <3>1, LocalKey, Zenon
  <2>3. Payer(x) = x["key_file"].read.value.key
    <3>1. SignerFlag(flags)
      BY <1>1, SignerFlags, Zenon
    <3> QED BY <1>1, <1>5, <1>6, <1>7, <3>1, SignerTyped, Zenon
  <2> QED BY <1>1, <2>2, <2>3, Zenon
<1>18. made = sign_unsigned_tx(signer, k, w, device)
  <2> HIDE DEF c, local, u
  <2> QED BY <1>8, <1>14, <1>16, Zenon
<1>19. SealedOf(sign_unsigned_tx(signer, k, w, device).value.rawRLP, fees /\ Payer(x) = SenderKey)
  <2>1. PICK own : own = (Payer(x) = SenderKey)
    OBVIOUS
  <2>2. sign_unsigned_tx(signer, k, w, device).ok
    <3> HIDE DEF made
    <3> QED BY <1>4, <1>18, Zenon
  <2>3. SealedOf(sign_unsigned_tx(signer, k, w, device).value.rawRLP, fees /\ own)
    <3>1. SendersDevice(device)
      BY <1>1, Zenon DEF Orderly, SendersDevice
    <3>2. Pays(signer, k, own)
      BY <1>17, <2>1, Zenon DEF Pays
    <3> QED BY ONLY <1>15, <2>2, <3>1, <3>2, Sealed, SMT
  <2> QED BY <2>1, <2>3, Zenon
<1> HIDE DEF made
<1> QED BY <1>1, <1>4, <1>14, <1>18, <1>19, Zenon

-----------------------------------------------------------------------------
(* What the commands are always given. *)

(* The inputs that are always there. *)
LEMMA BuildGiven ==
  /\ \A n \in {"env", "file", "node", "rpc-url"} : n \in DOMAIN BuildUsual
  /\ "device" \in DOMAIN SignUsual
<1>1. \A n, v, g : n \in DOMAIN ((n := v) ++ g) /\ n \in DOMAIN (g ++ (n := v))
  BY Given
<1>2. \A n, f, g : n \in DOMAIN f \/ n \in DOMAIN g => n \in DOMAIN (f ++ g)
  BY Given
<1>3. "device" \in DOMAIN SignUsual
  BY <1>1, Zenon DEF SignUsual
<1>4. "env" \in DOMAIN BuildUsual
  BY <1>1, <1>2, Zenon DEF BuildUsual, NoFlags
<1>5. "rpc-url" \in DOMAIN BuildUsual
  BY <1>1, <1>2, Zenon DEF BuildUsual
<1>6. "file" \in DOMAIN BuildUsual
  BY <1>1, <1>2, Zenon DEF BuildUsual
<1>7. "node" \in DOMAIN BuildUsual
  BY <1>1, <1>2, Zenon DEF BuildUsual
<1> QED BY <1>3, <1>4, <1>5, <1>6, <1>7

-----------------------------------------------------------------------------
(* The deposit file stays a list. *)

(* As many entries as pubkeys were given. *)
LEMMA EntriesSized ==
  ASSUME NEW x, NEW listing, NEW pass, Mild(x), deposit_gen(Args(x, gen_args), listing, pass).ok
  PROVE  Sized(deposit_gen(Args(x, gen_args), listing, pass).value.entries)
<1>1. PICK args : args = Args(x, gen_args)
  OBVIOUS
<1> DEFINE m    == try_get_matches(gen_args, args, <<>>)
           c    == gen_config(m.value)
           run  == run_gen(c.value, listing, pass)
<1>2. /\ m.ok /\ c.ok /\ run.ok
      /\ deposit_gen(args, listing, pass).value.entries = run.value
  <2>1. m.ok
    BY <1>1, Results, Zenon DEF deposit_gen, Then, Usage
  <2>2. c.ok
    BY <1>1, <2>1, Results, Zenon DEF deposit_gen, Then, Usage
  <2> DEFINE read == IF c.value.passphrase_file # Absent THEN As("Keystore", pass) ELSE Success("asked-for")
  <2>3. deposit_gen(args, listing, pass) =
          Then(read, LAMBDA t : Then(run, LAMBDA entries :
            Success([dry_run |-> c.value.dry_run, json |-> TRUE, entries |-> entries])))
    BY <2>1, <2>2, Results DEF deposit_gen, Then, Usage
  <2> HIDE DEF read, run, c, m
  <2>7. PICK r : r = [dry_run |-> c.value.dry_run, json |-> TRUE, entries |-> run.value]
    OBVIOUS
  <2>4. PICK done : done = Success(r)
    OBVIOUS
  <2>5. deposit_gen(args, listing, pass) = IF ~read.ok THEN read ELSE IF ~run.ok THEN run ELSE done
    BY <2>3, <2>4, <2>7, Zenon DEF Then
  <2>6. done.value.entries = run.value
    <3>1. done.value = r
      BY <2>4, Results, Zenon
    <3> QED BY ONLY <2>7, <3>1
  <2> QED BY <1>1, <2>1, <2>2, <2>5, <2>6, Zenon
<1>3. PICK v : v = m.value
  OBVIOUS
<1>4. Sized(v["pubkeys"][1])
  <2>1. /\ gen_args["pubkeys"] = Flag(TRUE, FALSE, Absent) /\ "pubkeys" \in DOMAIN gen_args
    BY DEF gen_args, :=, ++
  <2>2. /\ gen_args["pubkeys"].required /\ ~gen_args["pubkeys"].env /\ gen_args["pubkeys"].default = Absent
    BY <2>1 DEF Flag
  <2>3. v["pubkeys"] = IF "pubkeys" \in DOMAIN args THEN <<args["pubkeys"]>> ELSE Absent
    <3>1. v = [f \in DOMAIN gen_args |->
                IF f \in DOMAIN args THEN <<args[f]>>
                ELSE IF gen_args[f].env /\ f \in DOMAIN <<>> THEN <<<<>>[f]>> ELSE gen_args[f].default]
      BY <1>2, <1>3, Matched
    <3> QED BY <2>1, <2>2, <3>1
  <2>4. v["pubkeys"] # Absent
    BY <1>2, <1>3, <2>1, <2>2, RequiredGiven
  <2>5. "pubkeys" \in DOMAIN args => "pubkeys" \in DOMAIN x /\ args["pubkeys"] = x["pubkeys"]
    BY <1>1 DEF Args
  <2> QED BY <2>3, <2>4, <2>5 DEF Mild
<1>5. c.ok /\ c = gen_config(v)
  BY <1>2, <1>3
<1>6. DOMAIN c.value.pubkeys = DOMAIN v["pubkeys"][1]
  <2> HIDE DEF c
  <2> QED BY <1>5, PubkeysOfGen
<1>7. PICK p : p = c.value
  OBVIOUS
<1>8. DOMAIN run.value = DOMAIN p.pubkeys
  <2> DEFINE made == [i \in DOMAIN p.pubkeys |-> process_pubkey(p, listing, pass, p.pubkeys[i])]
  <2>1. run = FirstErrorOr(made)
    BY <1>7 DEF run_gen
  <2>2. run.value = [i \in DOMAIN made |-> made[i].value]
    <3> HIDE DEF made
    <3> QED BY <1>2, <2>1, Results DEF FirstErrorOr
  <2> HIDE DEF run
  <2> QED BY <2>2
<1>9. Sized(run.value)
  BY <1>4, <1>6, <1>7, <1>8 DEF Sized
<1> HIDE DEF run
<1> QED BY <1>1, <1>2, <1>9

(* gen writes a list. *)
LEMMA GenSized ==
  ASSUME ShapeInv, SizedInv, DepositGen
  PROVE  SizedInv'
<1> DEFINE Listing(x) == IF x["order"] = "reversed" THEN Reverse(shelf) ELSE shelf
           Out(x) == deposit_gen(Args(x, gen_args), Listing(x), x["pw"])
<1>1. PICK o \in {<<>>} \cup GenOthers :
        deposit' = IF Out(o ++ GenUsual).ok /\ ~Out(o ++ GenUsual).value.dry_run
                   THEN <<[json |-> TRUE, entries |-> Out(o ++ GenUsual).value.entries, edited |-> FALSE]>>
                   ELSE deposit
  BY DEF DepositGen, With
<1>2. PICK x : x = o ++ GenUsual
  OBVIOUS
<1>3. Mild(x)
  <2>1. keys["validator"]["new"] # None /\ Pubkeys # <<>>
    BY DEF DepositGen
  <2>2. Mild(o) /\ Mild(GenUsual)
    BY <2>1, GenMild
  <2> QED BY <1>2, <2>2, MildInputs
<1>4. CASE deposit' = deposit
  BY <1>4 DEF SizedInv, None
<1>5. CASE /\ Out(x).ok
           /\ deposit' = <<[json |-> TRUE, entries |-> Out(x).value.entries, edited |-> FALSE]>>
  <2>1. Sized(Out(x).value.entries)
    <3> HIDE DEF Listing
    <3> QED BY <1>3, <1>5, EntriesSized
  <2> HIDE DEF Out
  <2>2. PICK entries : entries = Out(x).value.entries
    OBVIOUS
  <2>3. deposit'[1] = [json |-> TRUE, entries |-> entries, edited |-> FALSE]
    BY <1>5, <2>2
  <2> QED BY <2>1, <2>2, <2>3 DEF SizedInv
<1> QED
  <2> HIDE DEF Out
  <2> QED BY <1>1, <1>2, <1>4, <1>5

(* And no edit calls itself unedited. *)
LEMMA SizedStep ==
  ASSUME ShapeInv, SizedInv, Next
  PROVE  SizedInv'
<1>1. CASE EditDeposit
  <2>1. PICK d : "edited" \in DOMAIN d /\ deposit' = <<[d EXCEPT !.edited = TRUE]>>
    BY <1>1 DEF SizedInv, EditDeposit
  <2>2. "edited" \in DOMAIN deposit'[1] /\ deposit'[1].edited
    BY <2>1
  <2> QED BY <2>2 DEF SizedInv
<1>2. CASE UNCHANGED deposit
  BY <1>2 DEF SizedInv
<1> QED BY <1>1, <1>2, GenSized, DepositKept

-----------------------------------------------------------------------------
(* Who changes what after the deposit file. *)

(* Each artifact is changed by its own commands and edits. *)
LEMMA ArtifactsKept ==
  ASSUME Next
  PROVE  /\ DepositBuild \/ EditUnsigned \/ UNCHANGED unsigned
         /\ TxSign \/ TxRun \/ EditSigned \/ UNCHANGED signed
         /\ TxSend \/ UNCHANGED pool
         /\ Mine \/ UNCHANGED verdict
         /\ Drift \/ UNCHANGED chain
<1>1. ASSUME NEW k \in Kinds, KeygenNew(k) \/ KeygenRecover(k)
      PROVE  UNCHANGED <<unsigned, signed, pool, verdict, chain>>
  <2>1. \A how, words, x : Keygen(k, how, words, x) => UNCHANGED <<unsigned, signed, pool, verdict, chain>>
    BY DEF Keygen
  <2> QED BY <1>1, <2>1 DEF KeygenNew, KeygenRecover, With
<1>2. CASE DepositGen
  BY <1>2 DEF DepositGen, With
<1>3. CASE DepositBuild
  BY <1>3, Zenon DEF DepositBuild, With
<1>4. CASE TxSign
  BY <1>4 DEF TxSign, With
<1>5. CASE TxRun
  BY <1>5, Zenon DEF TxRun, With
<1>6. CASE TxSend
  BY <1>6 DEF TxSend, With
<1>7. CASE Edit
  BY <1>7 DEF Edit, EditDeposit, EditUnsigned, EditSigned, EditKeystore
<1>8. CASE Drift \/ Mine
  BY <1>8 DEF Drift, Mine
<1> QED BY <1>1, <1>2, <1>3, <1>4, <1>5, <1>6, <1>7, <1>8 DEF Next

(* What is made of a transaction is not unmade. *)
LEMMA NotUnmade ==
  ASSUME Next
  PROVE  (unsigned # None => unsigned' # None) /\ (signed # None => signed' # None)
<1>1. \A a : <<a>> # None
  BY DEF None
<1>2. unsigned' = unsigned \/ \E a : unsigned' = <<a>>
  <2>1. CASE DepositBuild
    BY <2>1 DEF DepositBuild, With
  <2>2. CASE EditUnsigned
    BY <2>2 DEF EditUnsigned
  <2> QED BY <2>1, <2>2, ArtifactsKept
<1>3. signed' = signed \/ \E a : signed' = <<a>>
  <2>1. CASE TxSign
    BY <2>1 DEF TxSign, With
  <2>2. CASE TxRun
    BY <2>2 DEF TxRun, With
  <2>3. CASE EditSigned
    BY <2>3 DEF EditSigned
  <2> QED BY <2>1, <2>2, <2>3, ArtifactsKept, Zenon
<1> QED BY <1>1, <1>2, <1>3

(* The chain moves once, and not before there is a transaction.              *)
ChainInv ==
  /\ chain.base \in {BaseFee, 2 * BaseFee} /\ chain.gas \in {GasNeeded, (6 * GasNeeded) \div 5}
  /\ ~chain.moved => chain.base = BaseFee /\ chain.gas = GasNeeded
  /\ unsigned = None /\ signed = None => ~chain.moved

(* Each step keeps it: the chain has not moved when fees are asked for. *)
LEMMA ChainStep ==
  ASSUME ChainInv, Next
  PROVE  ChainInv'
<1>1. CASE Drift
  <2>1. PICK b, g : chain' = [base |-> b, gas |-> g, moved |-> TRUE] /\ b \in {chain.base, 2 * chain.base}
                    /\ g = (chain.gas * 6) \div 5
    BY <1>1 DEF Drift
  <2>2. chain.base = BaseFee /\ chain.gas = GasNeeded /\ (unsigned # None \/ signed # None)
    BY <1>1 DEF Drift, ChainInv
  <2>3. b \in {BaseFee, 2 * BaseFee}
    BY <2>1, <2>2
  <2>4. g = (6 * GasNeeded) \div 5
    <3>1. PICK n \in Nat : n = GasNeeded
      BY LifecycleAssumption
    <3>2. n * 6 = 6 * n
      OBVIOUS
    <3> QED BY <2>1, <2>2, <3>1, <3>2
  <2>5. chain'.base = b /\ chain'.gas = g /\ chain'.moved
    BY <2>1
  <2> QED BY <2>2, <2>3, <2>4, <2>5, NotUnmade DEF ChainInv
<1>2. CASE UNCHANGED chain
  BY <1>2, NotUnmade DEF ChainInv
<1> QED BY <1>1, <1>2, ArtifactsKept

-----------------------------------------------------------------------------
(* What was built, signed and sent is of a deposit of gen, or says that it   *)
(* is not.                                                                   *)

(* An artifact; and how an edit, a signer and a sender change it. *)
Artifact(t, g, n) == [tx |-> t, genuine |-> g, from_node |-> n]
Forged(u)         == Artifact(u, FALSE, FALSE)
Edited(a, u)      == [a EXCEPT !.tx = u, !.genuine = FALSE, !.from_node = FALSE]
Paid(a, u, own)   == [a EXCEPT !.tx = u, !.from_node = @ /\ own]
Sent(a, u)        == [a EXCEPT !.tx = u]

(* A genuine unsigned transaction is one of gen's deposit. *)
UnsignedInv ==
  unsigned # None => \E t, g, n : unsigned = <<Artifact(t, g, n)>> /\ (g => MadeOf(t, n))

(* A genuine signed transaction is one of gen's deposit. *)
SignedInv ==
  signed # None => \E t, g, n : signed = <<Artifact(t, g, n)>> /\ (g => SealedOf(t.rawRLP, n))

(* And so is a genuine one that was sent. *)
PoolInv ==
  pool # None => \E raw, g, n : pool = <<Artifact(raw.value, g, n)>> /\ (g => SealedOf(raw, n))

(* An artifact that says it is not genuine is whatever it may be.            *)
LEMMA ArtifactParts ==
  ASSUME NEW t, NEW g, NEW n
  PROVE  Artifact(t, g, n).tx = t /\ Artifact(t, g, n).genuine = g /\ Artifact(t, g, n).from_node = n
BY DEF Artifact

(* What is sent is the raw bytes of the artifact. *)
LEMMA ArtifactSent ==
  ASSUME NEW t, NEW g, NEW n, NEW u
  PROVE  Sent(Artifact(t, g, n), u) = Artifact(u, g, n)
BY DEF Artifact, Sent

(* What is signed is as genuine as it was, and its fees are the node's for   *)
(* the account that pays.                                                    *)
LEMMA ArtifactPaid ==
  ASSUME NEW t, NEW g, NEW n, NEW u, NEW own
  PROVE  Paid(Artifact(t, g, n), u, own) = Artifact(u, g, n /\ own)
<1>1. PICK a : a = Artifact(u, g, n)
  OBVIOUS
<1>2. PICK b : b = (n /\ own)
  OBVIOUS
<1>3. a.from_node = n
  BY <1>1, ArtifactParts
<1>4. PICK d : d = (a.from_node /\ own)
  OBVIOUS
<1>5. d = b
  BY ONLY <1>2, <1>3, <1>4, Zenon
<1>6. [a EXCEPT !.from_node = d] = Artifact(u, g, d)
  BY ONLY <1>1, SMT DEF Artifact
<1>7. [a EXCEPT !.from_node = a.from_node /\ own] = [a EXCEPT !.from_node = d]
  BY ONLY <1>4, Zenon
<1>8. [a EXCEPT !.from_node = @ /\ own] = Artifact(u, g, n /\ own)
  BY ONLY <1>2, <1>5, <1>6, <1>7, Zenon
<1>9. [Artifact(t, g, n) EXCEPT !.tx = u] = a
  BY <1>1, ArtifactSent DEF Sent
<1> QED BY ONLY <1>8, <1>9, Zenon DEF Paid

(* What is edited is not genuine. *)
LEMMA ArtifactEdited ==
  ASSUME NEW t, NEW g, NEW n, NEW u
  PROVE  Edited(Artifact(t, g, n), u) = Forged(u)
<1>1. PICK f : f = FALSE
  OBVIOUS
<1>2. PICK a, b : a = Artifact(u, g, n) /\ b = Artifact(u, f, n)
  OBVIOUS
<1>3. [a EXCEPT !.genuine = f] = b
  BY ONLY <1>2, SMT DEF Artifact
<1>4. [b EXCEPT !.from_node = f] = Artifact(u, f, f)
  BY ONLY <1>2, SMT DEF Artifact
<1>5. [Artifact(t, g, n) EXCEPT !.tx = u] = a
  BY <1>2, ArtifactSent DEF Sent
<1> QED BY <1>1, <1>3, <1>4, <1>5, Zenon DEF Edited, Forged

(* build keeps it. *)
LEMMA BuiltStep ==
  ASSUME EntryInv, SizedInv, ChainInv, UnsignedInv, DepositBuild
  PROVE  UnsignedInv'
<1> DEFINE usual == BuildUsual ++ ("from" := AddressText(Sender, "lower-case"))
           Out(x) == deposit_build(Args(x, build_args), x["env"], x["file"], x["node"])
<1>1. PICK o \in {<<>>} \cup (BuildOthers \cup FromOthers) :
        unsigned' = IF Out(o ++ usual).ok
                    THEN <<[tx |-> Out(o ++ usual).value, genuine |-> Genuine(o ++ usual), from_node |-> FromNode(o ++ usual)]>>
                    ELSE unsigned
  BY DEF DepositBuild, With
<1>2. PICK x : x = o ++ usual
  OBVIOUS
<1>3. unsigned = None /\ signed = None /\ deposit # None
  BY DEF DepositBuild
<1>4. chain.base = BaseFee /\ chain.gas = GasNeeded
  BY <1>3 DEF ChainInv
<1>5. PICK data : data = deposit[1]
  OBVIOUS
<1>6. Orderly(x, data)
  <2>1. /\ Orderly(BuildUsual, data) /\ \A p \in BuildOthers : Orderly(p, data)
        /\ \A v : Orderly("from" := v, data)
    BY <1>4, <1>5, BuildOrderly, Zenon
  <2>2. Orderly(<<>>, data) /\ \A f, g : Orderly(f, data) /\ Orderly(g, data) => Orderly(f ++ g, data)
    BY OrderlyInputs
  <2>3. \A p \in FromOthers : Orderly(p, data)
    BY <2>1, Zenon DEF FromOthers
  <2>4. Orderly(o, data)
    BY <2>1, <2>2, <2>3
  <2> QED BY <1>2, <2>1, <2>2, <2>4, Zenon
<1>7. "env" \in DOMAIN x /\ "file" \in DOMAIN x /\ "node" \in DOMAIN x /\ "rpc-url" \in DOMAIN x
  <2>1. \A f, g, n : n \in DOMAIN f \/ n \in DOMAIN g => n \in DOMAIN (f ++ g)
    BY Given
  <2>2. \A n \in {"env", "file", "node", "rpc-url"} : n \in DOMAIN BuildUsual
    BY BuildGiven
  <2>3. \A n \in {"env", "file", "node", "rpc-url"} : n \in DOMAIN x
    BY <1>2, <2>1, <2>2, Zenon
  <2> QED BY <2>3
<1>8. CASE unsigned' = unsigned
  BY <1>3, <1>8 DEF UnsignedInv
<1>9. CASE Out(x).ok /\ unsigned' = <<Artifact(Out(x).value, Genuine(x), FromNode(x))>>
  <2>1. Genuine(x) => MadeOf(Out(x).value, FromNode(x))
    BY <1>3, <1>5, <1>6, <1>7, <1>9, BuildMade, Zenon
  <2>2. PICK u, g, n : u = Out(x).value /\ g = Genuine(x) /\ n = FromNode(x)
    OBVIOUS
  <2>3. unsigned' = <<Artifact(u, g, n)>> /\ (g => MadeOf(u, n))
    BY <1>9, <2>1, <2>2, Zenon
  <2> QED BY <2>3, Zenon DEF UnsignedInv
<1> HIDE DEF Out, usual
<1>10. unsigned' = IF Out(x).ok THEN <<Artifact(Out(x).value, Genuine(x), FromNode(x))>> ELSE unsigned
  BY <1>1, <1>2, Zenon DEF Artifact
<1> QED BY <1>8, <1>9, <1>10

(* And so does every step. *)
LEMMA UnsignedStep ==
  ASSUME EntryInv, SizedInv, ChainInv, UnsignedInv, Next
  PROVE  UnsignedInv'
<1>1. CASE EditUnsigned
  <2>1. PICK u : unsigned' = <<[unsigned[1] EXCEPT !.tx = u, !.genuine = FALSE, !.from_node = FALSE]>> /\ unsigned # None
    BY <1>1 DEF EditUnsigned
  <2>2. PICK t, g, n : unsigned = <<Artifact(t, g, n)>>
    BY <2>1 DEF UnsignedInv
  <2>3. unsigned[1] = Artifact(t, g, n)
    BY <2>2
  <2>4. Edited(unsigned[1], u) = Forged(u)
    BY <2>3, ArtifactEdited
  <2>5. unsigned' = <<Artifact(u, FALSE, FALSE)>>
    BY ONLY <2>1, <2>4, Zenon DEF Edited, Forged
  <2> QED BY <2>5, Zenon DEF UnsignedInv
<1>2. CASE UNCHANGED unsigned
  BY <1>2 DEF UnsignedInv
<1> QED BY <1>1, <1>2, BuiltStep, ArtifactsKept

(* tx sign: what is usual, and what may be otherwise. *)
SignGiven  == NoFlags ++ SignUsual ++ ("input" := "unsigned.json") ++ ("file" := Success(unsigned[1].tx))
SignWrongs == SignOthers \cup {"file" := Failure("NotFound"), "without" := {"input"}}

(* They are orderly for the unsigned transaction. *)
LEMMA SignGivenOrderly ==
  ASSUME NEW o \in {<<>>} \cup SignWrongs, NEW x, x = o ++ SignGiven
  PROVE  Orderly(x, unsigned[1].tx) /\ "file" \in DOMAIN x /\ "device" \in DOMAIN x
<1>1. PICK data : data = unsigned[1].tx
  OBVIOUS
<1>2. Orderly(<<>>, data) /\ \A f, g : Orderly(f, data) /\ Orderly(g, data) => Orderly(f ++ g, data)
  BY OrderlyInputs
<1>3. /\ Orderly("file" := Success(data), data) /\ Orderly("file" := Failure("NotFound"), data)
      /\ Orderly("env" := <<>>, data) /\ \A v : Orderly("without" := v, data) /\ Orderly("input" := v, data)
  BY OrderlyInputs
<1>4. Orderly(SignUsual, data) /\ \A p \in SignOthers : Orderly(p, data)
  BY SignOrderly
<1>5. Orderly(NoFlags, data)
  BY <1>2, <1>3, Zenon DEF NoFlags
<1>6. Orderly(SignGiven, data)
  BY <1>1, <1>2, <1>3, <1>4, <1>5, Zenon DEF SignGiven
<1>7. Orderly(o, data)
  BY <1>2, <1>3, <1>4, Zenon DEF SignWrongs
<1>8. Orderly(x, data)
  BY <1>2, <1>6, <1>7, Zenon
<1>9. \A f, g, n : n \in DOMAIN f \/ n \in DOMAIN g => n \in DOMAIN (f ++ g)
  BY Given
<1>10. "device" \in DOMAIN SignUsual /\ \A v : "file" \in DOMAIN ("file" := v)
  BY BuildGiven, Given
<1>11. "file" \in DOMAIN SignGiven /\ "device" \in DOMAIN SignGiven
  BY <1>9, <1>10, Zenon DEF SignGiven
<1> QED BY <1>1, <1>8, <1>9, <1>11, Zenon

(* sign makes of a genuine transaction a genuine one. *)
LEMMA SignStep ==
  ASSUME UnsignedInv, SignedInv, TxSign
  PROVE  SignedInv'
<1> DEFINE Out(x) == tx_sign(Args(x, sign_args), x["file"], x["key_file"], x["device"])
<1>1. PICK o \in {<<>>} \cup SignWrongs :
        signed' = IF Out(o ++ SignGiven).ok
                  THEN <<[unsigned[1] EXCEPT !.tx = Out(o ++ SignGiven).value,
                                             !.from_node = @ /\ Payer(o ++ SignGiven) = SenderKey]>>
                  ELSE signed
  BY Zenon DEF TxSign, With, SignGiven, SignWrongs
<1>2. PICK x : x = o ++ SignGiven
  OBVIOUS
<1>3. unsigned # None /\ signed = None
  BY DEF TxSign
<1>4. PICK u, g, n : unsigned = <<Artifact(u, g, n)>> /\ (g => MadeOf(u, n))
  BY <1>3, Zenon DEF UnsignedInv
<1>5. PICK a : a = unsigned[1] /\ a = Artifact(u, g, n)
  BY <1>4
<1>6. a.tx = u
  BY <1>5, ArtifactParts
<1>7. Orderly(x, u) /\ "file" \in DOMAIN x /\ "device" \in DOMAIN x
  BY <1>2, <1>5, <1>6, SignGivenOrderly, Zenon
<1>8. CASE signed' = signed
  BY <1>3, <1>8 DEF SignedInv
<1>9. CASE Out(x).ok /\ signed' = <<Paid(unsigned[1], Out(x).value, Payer(x) = SenderKey)>>
  <2>1. g => SealedOf(Out(x).value.rawRLP, n /\ Payer(x) = SenderKey)
    BY <1>4, <1>7, <1>9, SignMade, Zenon
  <2>2. PICK t, own : t = Out(x).value /\ own = (Payer(x) = SenderKey)
    OBVIOUS
  <2>3. Paid(a, t, own) = Artifact(t, g, n /\ own)
    BY <1>5, ArtifactPaid
  <2>4. PICK w : w = (n /\ own)
    OBVIOUS
  <2>5. signed' = <<Artifact(t, g, w)>>
    BY ONLY <1>5, <1>9, <2>2, <2>3, <2>4, Zenon
  <2>6. g => SealedOf(t.rawRLP, w)
    BY ONLY <2>1, <2>2, <2>4, Zenon
  <2> QED BY <2>5, <2>6, Zenon DEF SignedInv
<1> HIDE DEF Out
<1>10. signed' = IF Out(x).ok THEN <<Paid(unsigned[1], Out(x).value, Payer(x) = SenderKey)>> ELSE signed
  BY <1>1, <1>2, Zenon DEF Paid
<1> QED BY <1>8, <1>9, <1>10, Zenon

(* run makes one of a genuine file. *)
LEMMA RunStep ==
  ASSUME EntryInv, SizedInv, ChainInv, SignedInv, TxRun
  PROVE  SignedInv'
<1> DEFINE usual == BuildUsual ++ SignUsual
           Out(x) == tx_run(Args(x, run_args ++ run_sign_args), x["env"], x["file"], x["key_file"],
                            x["device"], x["node"])
<1>1. PICK o \in {<<>>} \cup (BuildOthers \cup SignOthers) :
        signed' = IF Out(o ++ usual).ok
                  THEN <<[tx |-> Out(o ++ usual).value, genuine |-> Genuine(o ++ usual),
                          from_node |-> FromNode(o ++ usual) /\ Payer(o ++ usual) = SenderKey]>>
                  ELSE signed
  BY DEF TxRun, With
<1>2. PICK x : x = o ++ usual
  OBVIOUS
<1>3. unsigned = None /\ signed = None /\ deposit # None
  BY DEF TxRun
<1>4. chain.base = BaseFee /\ chain.gas = GasNeeded
  BY <1>3 DEF ChainInv
<1>5. PICK data : data = deposit[1]
  OBVIOUS
<1>6. Orderly(x, data)
  <2>1. Orderly(BuildUsual, data) /\ \A p \in BuildOthers : Orderly(p, data)
    BY <1>4, <1>5, BuildOrderly, Zenon
  <2>2. Orderly(<<>>, data) /\ \A f, g : Orderly(f, data) /\ Orderly(g, data) => Orderly(f ++ g, data)
    BY OrderlyInputs
  <2>3. Orderly(SignUsual, data) /\ \A p \in SignOthers : Orderly(p, data)
    BY SignOrderly
  <2>4. Orderly(o, data)
    BY <2>1, <2>2, <2>3
  <2> QED BY <1>2, <2>1, <2>2, <2>3, <2>4, Zenon
<1>7. /\ "env" \in DOMAIN x /\ "file" \in DOMAIN x /\ "node" \in DOMAIN x /\ "rpc-url" \in DOMAIN x
      /\ "device" \in DOMAIN x
  <2>1. \A f, g, n : n \in DOMAIN f \/ n \in DOMAIN g => n \in DOMAIN (f ++ g)
    BY Given
  <2>2. \A n \in {"env", "file", "node", "rpc-url"} : n \in DOMAIN BuildUsual
    BY BuildGiven
  <2>3. "device" \in DOMAIN SignUsual
    BY BuildGiven
  <2>4. \A n \in {"env", "file", "node", "rpc-url"} : n \in DOMAIN x
    BY <1>2, <2>1, <2>2, Zenon
  <2>5. "device" \in DOMAIN x
    BY <1>2, <2>1, <2>3, Zenon
  <2> QED BY <2>4, <2>5
<1>8. CASE signed' = signed
  BY <1>3, <1>8 DEF SignedInv
<1>9. CASE Out(x).ok /\ signed' = <<Artifact(Out(x).value, Genuine(x), FromNode(x) /\ Payer(x) = SenderKey)>>
  <2>1. Genuine(x) => SealedOf(Out(x).value.rawRLP, FromNode(x) /\ Payer(x) = SenderKey)
    BY <1>3, <1>5, <1>6, <1>7, <1>9, RunMade, Zenon
  <2>2. PICK t, g, n : t = Out(x).value /\ g = Genuine(x) /\ n = (FromNode(x) /\ Payer(x) = SenderKey)
    OBVIOUS
  <2>3. signed' = <<Artifact(t, g, n)>> /\ (g => SealedOf(t.rawRLP, n))
    BY ONLY <1>9, <2>1, <2>2, Zenon
  <2> QED BY <2>3, Zenon DEF SignedInv
<1> HIDE DEF Out, usual
<1>10. signed' = IF Out(x).ok THEN <<Artifact(Out(x).value, Genuine(x), FromNode(x) /\ Payer(x) = SenderKey)>> ELSE signed
  BY <1>1, <1>2, Zenon DEF Artifact
<1> QED BY <1>8, <1>9, <1>10

(* Every step keeps it. *)
LEMMA SignedStep ==
  ASSUME EntryInv, SizedInv, ChainInv, UnsignedInv, SignedInv, Next
  PROVE  SignedInv'
<1>1. CASE EditSigned
  <2>1. PICK raw : /\ signed' = <<[signed[1] EXCEPT !.tx.rawRLP = raw, !.genuine = FALSE, !.from_node = FALSE]>>
                   /\ signed # None
    BY <1>1 DEF EditSigned
  <2>2. PICK t, g, n : signed = <<Artifact(t, g, n)>>
    BY <2>1 DEF SignedInv
  <2>3. PICK a : a = signed[1] /\ a = Artifact(t, g, n)
    BY <2>2
  <2>4. PICK u : u = [a.tx EXCEPT !.rawRLP = raw]
    OBVIOUS
  <2>5. [a EXCEPT !.tx.rawRLP = raw, !.genuine = FALSE, !.from_node = FALSE] = Edited(a, u)
    BY ONLY <2>4, Zenon DEF Edited
  <2>6. Edited(a, u) = Forged(u)
    BY <2>3, ArtifactEdited
  <2>7. signed' = <<Artifact(u, FALSE, FALSE)>>
    BY ONLY <2>1, <2>3, <2>5, <2>6, Zenon DEF Forged
  <2> QED BY <2>7, Zenon DEF SignedInv
<1>2. CASE UNCHANGED signed
  BY <1>2 DEF SignedInv
<1> QED BY <1>1, <1>2, SignStep, RunStep, ArtifactsKept

(* What is sent is what was signed, and stays. *)
LEMMA PoolStep ==
  ASSUME SignedInv, PoolInv, Next
  PROVE  PoolInv'
<1>1. CASE TxSend
  <2>1. signed # None /\ (pool' = pool \/ pool' = <<[signed[1] EXCEPT !.tx = @.rawRLP.value]>>)
    BY <1>1 DEF TxSend, With
  <2>2. PICK t, g, n : signed = <<Artifact(t, g, n)>> /\ (g => SealedOf(t.rawRLP, n))
    BY <2>1, Zenon DEF SignedInv
  <2>3. PICK a : a = signed[1] /\ a = Artifact(t, g, n)
    BY <2>2
  <2>4. PICK raw, v : raw = t.rawRLP /\ v = raw.value
    OBVIOUS
  <2>5. a.tx = t
    BY <2>3, ArtifactParts
  <2>6. [a EXCEPT !.tx = @.rawRLP.value] = Sent(a, v)
    BY ONLY <2>4, <2>5, Zenon DEF Sent
  <2>7. Sent(a, v) = Artifact(v, g, n)
    BY <2>3, ArtifactSent
  <2>8. CASE pool' = <<[signed[1] EXCEPT !.tx = @.rawRLP.value]>>
    <3>1. pool' = <<Artifact(raw.value, g, n)>>
      BY ONLY <2>3, <2>4, <2>6, <2>7, <2>8, Zenon
    <3>2. g => SealedOf(raw, n)
      BY <2>2, <2>4
    <3> QED BY <3>1, <3>2, Zenon DEF PoolInv
  <2>9. CASE pool' = pool
    BY <2>9 DEF PoolInv
  <2> QED BY <2>1, <2>8, <2>9, Zenon
<1>2. CASE UNCHANGED pool
  BY <1>2 DEF PoolInv
<1> QED BY <1>1, <1>2, ArtifactsKept

-----------------------------------------------------------------------------
(* What a node makes of it. *)

(* Fees that came from a node cover what the chain may have moved to. *)
LEMMA FeesEnough ==
  ASSUME ChainInv, NEW r, GoodFees(r, TRUE)
  PROVE  r.nonce = SenderNonce /\ ~(r.max_fee < chain.base) /\ ~(r.tip > r.max_fee) /\ ~(r.gas < chain.gas)
<1>1. PICK b \in Nat, g \in Nat : b = BaseFee /\ g = GasNeeded
  BY LifecycleAssumption
<1>2. r.nonce = SenderNonce /\ r.gas = gas_limit(GasNeeded) /\ r.tip \in {1, 2} /\ r.max_fee = max_fee(BaseFee, r.tip)
  BY Zenon DEF GoodFees
<1>3. r.gas = (6 * g) \div 5
  BY <1>1, <1>2, BuilderSums, Zenon
<1>4. r.tip \in {1, 2} /\ r.max_fee = 2 * b + r.tip
  BY <1>1, <1>2, BuilderSums
<1>5. chain.base \in {b, 2 * b} /\ chain.gas \in {g, (6 * g) \div 5}
  BY <1>1 DEF ChainInv
<1>6. PICK base, gas, tip, max : base = chain.base /\ gas = chain.gas /\ tip = r.tip /\ max = r.max_fee
  OBVIOUS
<1>7. ~(max < base) /\ ~(tip > max)
  <2>1. tip \in {1, 2} /\ max = 2 * b + tip /\ base \in {b, 2 * b}
    BY <1>4, <1>5, <1>6
  <2> QED BY ONLY b \in Nat, <2>1, SMT
<1>8. ~(r.gas < gas)
  <2>1. PICK h \in Nat : h = (6 * g) \div 5
    OBVIOUS
  <2>2. h >= g
    BY <2>1
  <2>3. r.gas = h /\ gas \in {g, h}
    BY <1>3, <1>5, <1>6, <2>1
  <2> QED BY <2>2, <2>3
<1> QED BY <1>2, <1>6, <1>7, <1>8

(* A signed deposit of gen is whole to a node, and effective if the fees are *)
(* the node's.                                                               *)
LEMMA SealedJudged ==
  ASSUME ChainInv, NEW raw, NEW asked, SealedOf(raw, asked)
  PROVE  /\ NodeVerdict(Fields(raw.value)) \in {"effective", "account", "underpriced", "out-of-gas"}
         /\ asked => NodeVerdict(Fields(raw.value)) = "effective"
<1>1. PICK id, to : id = lookup_network[Chain].chain_id /\ to = lookup_network[Chain].deposit_contract_address
  OBVIOUS
<1>2. PICK e, r, k : /\ GoodDeposit(e) /\ GoodFees(r, asked) /\ (asked => k = SenderKey)
                     /\ Signs(raw, ParsedOf(id, to, e, r), UnsignedOf(id, to, e, r), k)
  BY <1>1, Zenon DEF SealedOf
<1>3. SmallFees(r)
  BY <1>2, FeesAreSmall, Zenon
<1>4. SmallNumber(id) /\ id \in Nat \ {0}
  BY <1>1, ChainIdSmall, Zenon
<1>5. PICK f : Fields(raw.value) = Success(f) /\ DepositFields(f, id, to, e, r) /\ SignedFields(f, k)
  BY <1>2, <1>3, <1>4, NodeReads, Zenon
<1>6. NodeVerdict(Fields(raw.value)) = FieldsVerdict(f)
  BY <1>5, Results, Zenon DEF NodeVerdict
<1>7. /\ FieldsVerdict(f) \in {"effective", "account", "underpriced", "out-of-gas"}
      /\ k = SenderKey /\ r.nonce = SenderNonce /\ ~(r.max_fee < chain.base) /\ ~(r.tip > r.max_fee)
           /\ ~(r.gas < chain.gas)
         => FieldsVerdict(f) = "effective"
  BY <1>1, <1>2, <1>3, <1>4, <1>5, NodeJudges, Zenon
<1>8. ASSUME asked
      PROVE  FieldsVerdict(f) = "effective"
  <2>1. GoodFees(r, TRUE)
    BY <1>2, <1>8, Zenon DEF GoodFees
  <2>2. r.nonce = SenderNonce /\ ~(r.max_fee < chain.base) /\ ~(r.tip > r.max_fee) /\ ~(r.gas < chain.gas)
    BY <2>1, FeesEnough
  <2> QED BY <1>2, <1>7, <1>8, <2>2, Zenon
<1> QED BY <1>6, <1>7, <1>8, Zenon

(* Inductive with the rest: a verdict is on what was sent.                   *)
VerdictInv == (verdict # None => pool # None) /\ DepositEffective

(* Every step keeps it: a verdict is on what was sent, with the chain as it  *)
(* is when it is mined.                                                      *)
LEMMA VerdictStep ==
  ASSUME ChainInv, PoolInv, VerdictInv, Next
  PROVE  VerdictInv'
<1>1. CASE Mine
  <2>1. pool # None /\ pool' = pool /\ verdict' = <<NodeVerdict(Fields(pool[1].tx))>>
    BY <1>1 DEF Mine
  <2>2. PICK raw, g, n : pool = <<Artifact(raw.value, g, n)>> /\ (g => SealedOf(raw, n))
    BY <2>1, Zenon DEF PoolInv
  <2>3. PICK a : a = pool[1] /\ a = Artifact(raw.value, g, n)
    BY <2>2
  <2>4. a.tx = raw.value /\ a.genuine = g /\ a.from_node = n
    <3>1. PICK t : t = raw.value
      OBVIOUS
    <3> QED BY <2>3, <3>1, ArtifactParts
  <2>5. PICK v : v = NodeVerdict(Fields(raw.value))
    OBVIOUS
  <2>6. verdict' = <<v>>
    BY <2>1, <2>3, <2>4, <2>5, Zenon
  <2>7. verdict'[1] = v
    BY <2>6
  <2>8. g => v \in {"effective", "account", "underpriced", "out-of-gas"} /\ (n => v = "effective")
    BY <2>2, <2>5, SealedJudged, Zenon
  <2>9. pool'[1].genuine = g /\ pool'[1].from_node = n
    BY <2>1, <2>3, <2>4, Zenon
  <2>10. WholeToAll'
    BY <2>7, <2>8, <2>9, Zenon DEF WholeToAll
  <2>11. FeesCover'
    BY <2>7, <2>8, <2>9, Zenon DEF FeesCover
  <2> QED BY <2>1, <2>10, <2>11, Zenon DEF VerdictInv, DepositEffective
<1>2. CASE UNCHANGED <<verdict, pool>>
  BY <1>2, Zenon DEF VerdictInv, DepositEffective, WholeToAll, FeesCover
<1>3. CASE UNCHANGED verdict /\ verdict = None
  BY <1>3, Zenon DEF VerdictInv, DepositEffective, WholeToAll, FeesCover
<1>4. UNCHANGED pool \/ verdict = None
  <2>1. CASE TxSend
    BY <2>1 DEF TxSend, VerdictInv
  <2> QED BY <2>1, ArtifactsKept
<1> QED BY <1>1, <1>2, <1>3, <1>4, ArtifactsKept

(* A transaction made from what gen wrote, for the network gen was told, is  *)
(* whole to a node, whichever signer made it and whatever went wrong before, *)
(* and effective if its fees and account are good; if they came from the     *)
(* node they are, when the base fee has doubled and a fifth more gas is      *)
(* needed.                                                                   *)
THEOREM DepositsEffective == Spec => []DepositEffective
<1> DEFINE Inv == /\ SizedInv /\ ChainInv /\ UnsignedInv /\ SignedInv /\ PoolInv /\ VerdictInv
<1>1. Init => Inv
  <2> SUFFICES ASSUME Init PROVE Inv
    OBVIOUS
  <2>1. deposit = None /\ unsigned = None /\ signed = None /\ pool = None /\ verdict = None
    BY DEF Init
  <2>2. chain.base = BaseFee /\ chain.gas = GasNeeded /\ ~chain.moved
    BY DEF Init
  <2>3. ChainInv
    BY <2>1, <2>2 DEF ChainInv
  <2>4. SizedInv /\ UnsignedInv /\ SignedInv /\ PoolInv
    BY <2>1, Zenon DEF SizedInv, UnsignedInv, SignedInv, PoolInv
  <2>5. VerdictInv
    BY <2>1, Zenon DEF VerdictInv, DepositEffective, WholeToAll, FeesCover
  <2> QED BY <2>3, <2>4, <2>5
<1>2. EntryInv /\ ShapeInv /\ Inv /\ [Next]_vars => Inv'
  <2> SUFFICES ASSUME EntryInv, ShapeInv, Inv, [Next]_vars PROVE Inv'
    OBVIOUS
  <2>1. CASE Next
    BY <2>1, SizedStep, ChainStep, UnsignedStep, SignedStep, PoolStep, VerdictStep
  <2>2. CASE UNCHANGED vars
    <3>1. UNCHANGED <<deposit, unsigned, signed, pool, verdict, chain>>
      BY <2>2 DEF vars
    <3>2. SizedInv' /\ UnsignedInv' /\ SignedInv' /\ PoolInv' /\ ChainInv'
      BY <3>1, Zenon DEF SizedInv, UnsignedInv, SignedInv, PoolInv, ChainInv
    <3>3. VerdictInv'
      BY <3>1, Zenon DEF VerdictInv, DepositEffective, WholeToAll, FeesCover
    <3> QED BY <3>2, <3>3
  <2> QED BY <2>1, <2>2
<1>3. Inv => DepositEffective
  BY DEF VerdictInv
<1> HIDE DEF Inv
<1> QED BY <1>1, <1>2, <1>3, EntriesHold, KeysShaped, PTL DEF Spec

(* What build fills in from the node is enough once the base fee has doubled *)
(* and the gas needed has grown by a fifth: the node takes the transaction.  *)
THEOREM FeesSuffice == Spec => []FeesCover
<1>1. DepositEffective => FeesCover
  BY DEF DepositEffective
<1> QED BY <1>1, DepositsEffective, PTL

-----------------------------------------------------------------------------
(* tx send, for any number of runs: types and the deadline, the gate before  *)
(* the broadcast, and what the end of a run says of the node.                *)

Errors == {"Ok", "Receipt", "Timeout", "Usage", "ReceiptFile", "Aborted", "Cancelled",
           "RpcDial", "ChainIdMismatch", "BroadcastFailed"}

(* The types of what ExitCode is applied to, no error of a run before its   *)
(* end, and the time left before a sleep.                                   *)
Bounded ==
  /\ err \in [Runs -> Errors]
  /\ \A r \in Runs : pc[r] # "done" => err[r] = "Ok"
  /\ \A r \in Runs : pc[r] = "sleep" => age[r] <= Deadline

(* What every run has passed on its way to the broadcast. *)
Gates ==
  \A r \in DOMAIN job :
    /\ pc[r] \in {"confirm", "send"} => job[r].chain
    /\ pc[r] = "send" => job[r].yes \/ (typed[r] = "network" /\ ~job[r].stdin)
    /\ pc[r] \in {"read", "chain", "confirm", "send"} => wire[r] = "idle"

(* What a run knows of the node after the broadcast. *)
Known ==
  \A r \in DOMAIN job :
    /\ wire[r] = "accepted" => node # "unknown"
    /\ pc[r] \in {"poll", "sleep", "receipt"} => printed[r] /\ node # "unknown" /\ job[r].wait
    /\ pc[r] = "receipt" => node = receipt[r]

SendInv == SendTypeOK /\ Bounded /\ Gates /\ BroadcastIsGated /\ Known /\ ExitIsHonest

LEMMA JobTyped ==
  ASSUME SendTypeOK
  PROVE  /\ DOMAIN job \subseteq Runs
         /\ \A r \in DOMAIN job : job[r] \in Job /\ (job[r].out => job[r].wait)
BY JobsAssumption DEF SendTypeOK

LEMMA ErrorsHaveCodes == \A e \in Errors : ExitCode(e) \in {0, 1, 2, 4, 5}
BY DEF Errors, ExitCode

LEMMA SendInitial == SendInit => SendInv
<1> SUFFICES ASSUME SendInit PROVE SendInv
  OBVIOUS
<1>1. err \in [Runs -> Errors] /\ (\A r \in Runs : pc[r] \in {"read", "done"})
  BY DEF SendInit, Errors
<1>2. SendTypeOK /\ Bounded
  BY <1>1, ErrorsHaveCodes, DeadlineAssumption DEF SendInit, SendTypeOK, Bounded
<1>3. DOMAIN job \subseteq Runs
  BY <1>2, JobTyped
<1>4. Gates /\ BroadcastIsGated /\ Known /\ ExitIsHonest
  BY <1>3 DEF SendInit, Gates, BroadcastIsGated, Known, ExitIsHonest
<1> QED
  BY <1>2, <1>4 DEF SendInv

LEMMA SendTypeStep == SendTypeOK /\ Bounded /\ [SendNext]_sendVars => SendTypeOK' /\ Bounded'
<1> SUFFICES ASSUME SendTypeOK, Bounded, [SendNext]_sendVars PROVE SendTypeOK' /\ Bounded'
  OBVIOUS
<1>0. (\A e \in Errors : ExitCode(e) \in {0, 1, 2, 4, 5}) /\ DOMAIN job \subseteq Runs
  BY ErrorsHaveCodes, JobTyped
<1> USE DeadlineAssumption, <1>0 DEF SendTypeOK, Bounded
<1>1. ASSUME NEW r \in DOMAIN job, Step(r) PROVE SendTypeOK' /\ Bounded'
  <2> USE DEF Goto, Fail, Errors
  <2> HIDE DEF ExitCode
  <2>1. CASE Read(r)
    BY <2>1 DEF Read
  <2>2. CASE CheckChain(r)
    BY <2>2 DEF CheckChain
  <2>3. CASE Confirm(r)
    BY <2>3 DEF Confirm
  <2>4. CASE Send(r)
    BY <2>4 DEF Send
  <2>5. CASE Answer(r)
    <3>1. err' \in [Runs -> Errors]
      BY <2>5 DEF Answer
    <3>2. pc' \in [Runs -> {"read", "chain", "confirm", "send", "answer", "poll", "sleep",
                           "receipt", "done"}]
      BY <2>5 DEF Answer
    <3>3. \A q \in Runs : pc'[q] = "sleep" => pc[q] = "sleep"
      BY <2>5 DEF Answer
    <3>4. \A q \in Runs : pc'[q] # "done" => err'[q] = "Ok"
      BY <2>5 DEF Answer
    <3>5. printed' \in [Runs -> BOOLEAN]
      BY <2>5 DEF Answer
    <3> QED
      BY <2>5, <3>1, <3>2, <3>3, <3>4, <3>5 DEF Answer
  <2>6. CASE Poll(r)
    BY <2>6 DEF Poll
  <2>7. CASE Sleep(r)
    BY <2>7 DEF Sleep
  <2>8. CASE SaveReceipt(r)
    BY <2>8 DEF SaveReceipt
  <2> QED
    BY <1>1, <2>1, <2>2, <2>3, <2>4, <2>5, <2>6, <2>7, <2>8 DEF Step
<1>2. ASSUME NEW r \in DOMAIN job, Receive(r) PROVE SendTypeOK' /\ Bounded'
  BY <1>2 DEF Receive, progress
<1>3. ASSUME NEW r \in DOMAIN job, Interrupt(r) PROVE SendTypeOK' /\ Bounded'
  BY <1>3 DEF Interrupt, progress
<1>4. CASE MineBlock
  BY <1>4 DEF MineBlock, progress
<1>5. CASE UNCHANGED sendVars
  BY <1>5 DEF sendVars, progress
<1> QED
  BY <1>1, <1>2, <1>3, <1>4, <1>5 DEF SendNext, Finished

(* No run is ever in a state outside its program, and none waits for a      *)
(* receipt longer than one interval past the deadline, whatever the others  *)
(* do.                                                                      *)
THEOREM SendTypesHold == SendSpec => []SendTypeOK
<1>1. SendInit => SendTypeOK /\ Bounded
  BY SendInitial DEF SendInv
<1> QED
  BY <1>1, SendTypeStep, PTL DEF SendSpec
-----------------------------------------------------------------------------
(* The gate, and what a run knows at its end. *)

(* Nothing that another run, the node or the operator does disturbs what    *)
(* holds of a run; its own steps are taken one by one.                      *)
LEMMA SendRunStep ==
  ASSUME SendInv, NEW r \in DOMAIN job, Step(r), SendTypeOK'
  PROVE  Gates' /\ BroadcastIsGated' /\ Known' /\ ExitIsHonest'
<1> USE JobTyped
    DEF SendInv, SendTypeOK, Bounded, Gates, BroadcastIsGated, Known, ExitIsHonest, Goto, Fail
<1> HIDE DEF ExitCode
<1>1. CASE Read(r)
  BY <1>1 DEF Read
<1>2. CASE CheckChain(r)
  BY <1>2 DEF CheckChain
<1>3. CASE Confirm(r)
  BY <1>3 DEF Confirm
<1>4. CASE Send(r)
  BY <1>4 DEF Send
<1>5. CASE Answer(r)
  <2>1. UNCHANGED <<job, typed, wire, receipt, file, node>>
    BY <1>5 DEF Answer
  <2>2. \A q \in DOMAIN job \ {r} : UNCHANGED <<pc[q], err[q], printed[q]>>
    BY <1>5 DEF Answer
  <2>3. CASE err'[r] = "BroadcastFailed" /\ pc'[r] = "done"
    BY <2>1, <2>2, <2>3
  <2>4. CASE /\ wire[r] = "accepted" /\ printed'[r] /\ err'[r] = err[r]
             /\ pc'[r] = IF job[r].wait THEN "poll" ELSE "done"
    <3>1. err[r] = "Ok"
      BY <1>5 DEF Answer
    <3> QED
      BY <2>1, <2>2, <2>4, <3>1
  <2> QED
    BY <1>5, <2>3, <2>4 DEF Answer
<1>6. CASE Poll(r)
  BY <1>6 DEF Poll
<1>7. CASE Sleep(r)
  BY <1>7 DEF Sleep
<1>8. CASE SaveReceipt(r)
  <2>1. UNCHANGED <<job, typed, wire, printed, receipt, node>>
    BY <1>8 DEF SaveReceipt
  <2>2. \A q \in DOMAIN job \ {r} : UNCHANGED <<pc[q], err[q], file[q]>>
    BY <1>8 DEF SaveReceipt
  <2>3. pc[r] = "receipt" /\ pc'[r] = "done"
    BY <1>8 DEF SaveReceipt
  <2>4. \/ err'[r] = "ReceiptFile"
        \/ err'[r] = "Ok" /\ (job[r].out => file'[r] = receipt[r])
    BY <1>8 DEF SaveReceipt
  <2> QED
    BY <2>1, <2>2, <2>3, <2>4
<1> QED
  BY <1>1, <1>2, <1>3, <1>4, <1>5, <1>6, <1>7, <1>8 DEF Step

LEMMA SendInductive == SendSpec => []SendInv
<1>1. SendInv /\ [SendNext]_sendVars => SendInv'
  <2> SUFFICES ASSUME SendInv, [SendNext]_sendVars PROVE SendInv'
    OBVIOUS
  <2>1. SendTypeOK' /\ Bounded'
    BY SendTypeStep DEF SendInv
  <2>2. Gates' /\ BroadcastIsGated' /\ Known' /\ ExitIsHonest'
    <3> USE DEF SendInv, SendTypeOK, Gates, BroadcastIsGated, Known, ExitIsHonest
    <3> HIDE DEF ExitCode
    <3>1. ASSUME NEW r \in DOMAIN job, Step(r)
          PROVE  Gates' /\ BroadcastIsGated' /\ Known' /\ ExitIsHonest'
      BY <3>1, <2>1, SendRunStep
    <3>2. ASSUME NEW r \in DOMAIN job, Receive(r)
          PROVE  Gates' /\ BroadcastIsGated' /\ Known' /\ ExitIsHonest'
      BY <3>2, JobTyped DEF Receive, progress
    <3>3. ASSUME NEW r \in DOMAIN job, Interrupt(r)
          PROVE  Gates' /\ BroadcastIsGated' /\ Known' /\ ExitIsHonest'
      BY <3>3, JobTyped DEF Interrupt, progress
    <3>4. CASE MineBlock
      BY <3>4, JobTyped DEF MineBlock, progress
    <3>5. CASE UNCHANGED sendVars
      BY <3>5 DEF sendVars, progress
    <3> QED
      BY <3>1, <3>2, <3>3, <3>4, <3>5 DEF SendNext, Finished
  <2> QED
    BY <2>1, <2>2 DEF SendInv
<1> QED
  BY <1>1, SendInitial, PTL DEF SendSpec

(* "Broadcast is gated by chain-ID match and operator confirmation"         *)
(* (send_cmd.rs), for any number of runs at once: no interleaving of them,  *)
(* the node and SIGINT puts an unconfirmed transaction on the wire.         *)
THEOREM NothingSentUngated == SendSpec => []BroadcastIsGated
BY SendInductive, PTL DEF SendInv

(* The exit of every run can be relied on, also when others sent the same   *)
(* transaction before it or at the same time.                               *)
THEOREM HonestExit == SendSpec => []ExitIsHonest
BY SendInductive, PTL DEF SendInv
=============================================================================
