-------------------------- MODULE Packets_proofs --------------------------
(***************************************************************************)
(* Theorems about Packets, for packets of every length and content.        *)
(*                                                                         *)
(* The checksum: a number represents a sum if the two are equal modulo     *)
(* 65535, and of the numbers of 16 bits exactly one that is not zero does  *)
(* unless the sum is zero.  Folding the carries, adding word by word in    *)
(* one's complement and adding all bytes represent the same sum, so they   *)
(* are equal.  Hence what is built has checksum zero, and a change that    *)
(* moves the sum by less than 65535 is noticed.                            *)
(*                                                                         *)
(* The exchange: what is built parses to what was put into it; whatever    *)
(* bytes a client accepts hold the message of its reply (AcceptedMessage); *)
(* and a damaged reply fails a check unless it still holds what was built. *)
(***************************************************************************)
EXTENDS Packets, PathSet_proofs

LEMMA ByteBounds ==
  /\ \A b \in Byte : b \in Nat /\ b <= 255
  /\ \A b \in Nat : b <= 255 => b \in Byte
BY DEF Byte

LEMMA WordBounds ==
  /\ \A w \in Uint16 : w \in Nat /\ w <= 65535
  /\ \A w \in Nat : w <= 65535 => w \in Uint16
BY DEF Uint16

LEMMA TwoBytes ==
  ASSUME NEW a \in Nat, NEW b \in Nat, a <= 255, b <= 255
  PROVE  256 * a + b \in Uint16
<1>1. 256 * a + b \in Nat /\ 256 * a + b <= 65535
  OBVIOUS
<1> QED
  BY <1>1, WordBounds

LEMMA BytesAreNumbers ==
  ASSUME NEW f \in Seq(Byte), NEW i \in 1..Len(f)
  PROVE  /\ f[i] \in Byte /\ f[i] \in Nat /\ f[i] <= 255
         /\ Weighted(f, i) \in Nat /\ Weighted(f, i) <= 65280
<1>1. f[i] \in Byte
  OBVIOUS
<1>2. PICK b \in Nat : b <= 255 /\ f[i] = b
  BY <1>1, ByteBounds
<1> QED
  BY <1>1, <1>2 DEF Weighted

LEMMA WordSumsDef ==
  ASSUME NEW f \in Seq(Byte)
  PROVE  /\ WordSums(f) \in [0..Len(f) -> Nat]
         /\ WordSums(f)[0] = 0
         /\ \A k \in 1..Len(f) :
              WordSums(f)[k] = WordSums(f)[k - 1] + Weighted(f, k)
<1> DEFINE n    == Len(f)
           add  == [k \in 1..n |-> Weighted(f, k)]
           step == [k \in 1..n |-> [x \in Nat |-> x + add[k]]]
<1>1. n \in Nat /\ 0 \in Nat
  OBVIOUS
<1>2. \A k \in 1..n : add[k] = Weighted(f, k) /\ add[k] \in Nat
  BY BytesAreNumbers DEF n
<1> HIDE DEF add, n
<1>3. \A k \in 1..n : step[k] \in [Nat -> Nat]
  BY <1>1, <1>2
<1>4. PICK g \in [0..n -> Nat] : Follows(g, n, 0, step)
  <2> HIDE DEF step
  <2> QED
    BY <1>1, <1>3, RecursionExists
<1>5. g[0] = 0
  BY <1>4 DEF Follows
<1>6. ASSUME NEW k \in 1..n PROVE g[k] = g[k - 1] + add[k]
  <2>1. g[k] = step[k][g[k - 1]]
    <3> HIDE DEF step
    <3> QED
      BY <1>4 DEF Follows
  <2>2. g[k - 1] \in Nat
    BY <1>1
  <2> QED
    BY <2>1, <2>2
<1>7. g = [k \in 0..n |-> IF k = 0 THEN 0 ELSE g[k - 1] + Weighted(f, k)]
  <2>1. \A k \in 1..n : g[k] = g[k - 1] + Weighted(f, k)
    BY <1>2, <1>6, Zenon
  <2> HIDE DEF step
  <2> QED
    BY <1>1, <1>5, <2>1
<1>8. WordSums(f) = [k \in 0..n |->
                      IF k = 0 THEN 0 ELSE WordSums(f)[k - 1] + Weighted(f, k)]
  <2> HIDE DEF step
  <2> QED
    BY <1>7, Zenon DEF WordSums, n
<1>9. /\ WordSums(f)[0] = 0
      /\ \A k \in 1..n : WordSums(f)[k] = WordSums(f)[k - 1] + add[k]
  BY <1>1, <1>2, <1>8
<1> DEFINE G == {k \in 0..n : WordSums(f)[k] \in Nat}
<1>10. \A k \in 0..n : k \in G
  <2>1. 0 \in G
    BY <1>1, <1>9
  <2>2. ASSUME NEW k \in 1..n, k - 1 \in G PROVE k \in G
    <3>1. PICK x \in Nat : x = WordSums(f)[k - 1]
      BY <2>2
    <3>2. PICK a \in Nat : a = add[k]
      BY <1>2
    <3>3. WordSums(f)[k] = x + a
      BY <1>9, <3>1, <3>2, Zenon
    <3> QED
      BY <1>1, <3>3
  <2> HIDE DEF G
  <2> QED
    BY <1>1, <2>1, <2>2, SetInduction
<1>11. WordSums(f) \in [0..n -> Nat]
  BY <1>8, <1>10
<1> QED
  BY <1>2, <1>9, <1>11 DEF n

-----------------------------------------------------------------------------
(* Folding the carries of a sum.                                           *)

(* r is what is left of s: the two are equal modulo 65535, and r is 0 only *)
(* if s is.                                                                *)
Represents(r, s) ==
  /\ r \in Uint16 /\ (r = 0 <=> s = 0)
  /\ \E q \in Nat : s = 65535 * q + r

LEMMA RepresentsUnique ==
  ASSUME NEW s \in Nat, NEW r, NEW t, Represents(r, s), Represents(t, s)
  PROVE  r = t
<1>1. /\ r \in Nat /\ r <= 65535 /\ t \in Nat /\ t <= 65535
      /\ (r = 0 <=> s = 0) /\ (t = 0 <=> s = 0)
  BY WordBounds DEF Represents
<1>2. PICK q \in Nat, p \in Nat : s = 65535 * q + r /\ s = 65535 * p + t
  BY DEF Represents
<1>3. CASE q = p
  BY <1>1, <1>2, <1>3
<1>4. CASE q < p
  BY <1>1, <1>2, <1>4
<1>5. CASE p < q
  BY <1>1, <1>2, <1>5
<1> QED
  BY <1>3, <1>4, <1>5

LEMMA RepresentsItself ==
  ASSUME NEW s \in Nat, s < 65536
  PROVE  Represents(s, s)
<1>1. s \in Uint16 /\ s = 65535 * 0 + s
  BY WordBounds
<1> QED
  BY <1>1 DEF Represents

(* One more round of carries.                                              *)
LEMMA CarriesSmaller ==
  ASSUME NEW s \in Nat, s >= 65536
  PROVE  /\ CarryAdded(s) \in Nat /\ CarryAdded(s) < s
         /\ \A r : Represents(r, CarryAdded(s)) => Represents(r, s)
<1> DEFINE d == s \div 65536
           m == s % 65536
<1>1. d \in Nat /\ m \in Nat /\ m <= 65535 /\ s = 65536 * d + m
  OBVIOUS
<1> HIDE DEF d, m
<1>2. d >= 1 /\ m + d \in Nat /\ m + d < s /\ m + d > 0
  BY <1>1
<1>3. ASSUME NEW r, Represents(r, m + d) PROVE Represents(r, s)
  <2>1. PICK q \in Nat : m + d = 65535 * q + r
    BY <1>3 DEF Represents
  <2>2. r \in Nat
    BY <1>3, WordBounds DEF Represents
  <2>3. q + d \in Nat /\ s = 65535 * (q + d) + r
    BY <1>1, <2>1, <2>2
  <2> QED
    BY <1>2, <1>3, <2>3 DEF Represents
<1> QED
  BY <1>2, <1>3 DEF d, m, CarryAdded

LEMMA RepresentativeExists ==
  ASSUME NEW s \in Nat
  PROVE  \E r : Represents(r, s)
<1>1. CASE s = 0
  BY <1>1, RepresentsItself
<1>2. CASE s # 0
  <2> DEFINE q == (s - 1) \div 65535
             r == ((s - 1) % 65535) + 1
  <2>1. q \in Nat /\ r \in Nat /\ r > 0 /\ r <= 65535 /\ s = 65535 * q + r
    BY <1>2
  <2> HIDE DEF q, r
  <2> QED
    BY <1>2, <2>1, WordBounds DEF Represents
<1> QED
  BY <1>1, <1>2

LEMMA FoldDef ==
  \A s \in Nat : Fold[s] = IF s \in Uint16 THEN s ELSE Fold[CarryAdded(s)]
<1> DEFINE g == [s \in Nat |-> CHOOSE r : Represents(r, s)]
<1>1. ASSUME NEW s \in Nat PROVE Represents(g[s], s)
  BY RepresentativeExists
<1>2. g = [s \in Nat |-> g[s]]
  OBVIOUS
<1> HIDE DEF g
<1>3. ASSUME NEW s \in Nat
      PROVE  g[s] = IF s \in Uint16 THEN s ELSE g[CarryAdded(s)]
  <2>1. CASE s \in Uint16
    BY <1>1, <2>1, WordBounds, RepresentsItself, RepresentsUnique
  <2>2. CASE s \notin Uint16
    <3>1. /\ CarryAdded(s) \in Nat
          /\ \A r : Represents(r, CarryAdded(s)) => Represents(r, s)
      BY <2>2, WordBounds, CarriesSmaller
    <3>2. g[s] = g[CarryAdded(s)]
      BY <1>1, <3>1, RepresentsUnique
    <3> QED
      BY <2>2, <3>2
  <2> QED
    BY <2>1, <2>2
<1>4. g = [s \in Nat |-> IF s \in Uint16 THEN s ELSE g[CarryAdded(s)]]
  BY <1>2, <1>3
<1>5. Fold = [s \in Nat |-> IF s \in Uint16 THEN s ELSE Fold[CarryAdded(s)]]
  BY <1>4, Zenon DEF Fold
<1> QED
  BY <1>5

(* The fold ends, with what represents the sum.                            *)
LEMMA FoldRepresents ==
  ASSUME NEW sum \in Nat
  PROVE  Represents(Folded(sum), sum)
<1> DEFINE Bad == {s \in Nat : ~ Represents(Fold[s], s)}
<1> SUFFICES ASSUME Bad # {} PROVE FALSE
  BY DEF Folded
<1>1. PICK s \in Bad : \A x \in Bad : s <= x
  <2>1. Bad \in SUBSET Nat
    OBVIOUS
  <2> HIDE DEF Bad
  <2> QED
    BY <2>1, LeastNumber
<1>2. s \in Nat /\ ~ Represents(Fold[s], s)
  OBVIOUS
<1>3. s \notin Uint16
  BY <1>2, FoldDef, WordBounds, RepresentsItself
<1>4. /\ CarryAdded(s) \in Nat /\ CarryAdded(s) < s
      /\ \A r : Represents(r, CarryAdded(s)) => Represents(r, s)
  BY <1>2, <1>3, WordBounds, CarriesSmaller
<1>5. Fold[s] = Fold[CarryAdded(s)]
  BY <1>2, <1>3, FoldDef
<1>6. CarryAdded(s) \notin Bad
  <2> HIDE DEF Bad
  <2> QED
    BY <1>1, <1>2, <1>4
<1> QED
  BY <1>2, <1>4, <1>5, <1>6

-----------------------------------------------------------------------------
(* The checksum is the one of RFC 1071.                                    *)

LEMMA OnesPlusRepresents ==
  ASSUME NEW s \in Nat, NEW a, Represents(a, s), NEW w \in Uint16
  PROVE  OnesPlus(a, w) \in Uint16 /\ Represents(OnesPlus(a, w), s + w)
<1>1. /\ a \in Nat /\ a <= 65535 /\ (a = 0 <=> s = 0)
      /\ w \in Nat /\ w <= 65535
  BY WordBounds DEF Represents
<1>2. PICK q \in Nat : s = 65535 * q + a
  BY DEF Represents
<1>3. CASE a + w <= 65535
  <2>1. OnesPlus(a, w) = a + w
    BY <1>1, <1>3 DEF OnesPlus
  <2>2. a + w \in Uint16 /\ (a + w = 0 <=> s + w = 0) /\ s + w = 65535 * q + (a + w)
    BY <1>1, <1>2, <1>3, WordBounds
  <2> QED
    BY <2>1, <2>2 DEF Represents
<1>4. CASE a + w > 65535
  <2> DEFINE r == a + w - 65535
  <2>1. OnesPlus(a, w) = r
    BY <1>1, <1>4 DEF OnesPlus
  <2>2. /\ r \in Nat /\ r <= 65535 /\ r # 0 /\ s + w # 0
        /\ q + 1 \in Nat /\ s + w = 65535 * (q + 1) + r
    BY <1>1, <1>2, <1>4
  <2> HIDE DEF r
  <2>3. PICK p \in Nat : p = q + 1
    BY <2>2
  <2>4. r \in Uint16 /\ (r = 0 <=> s + w = 0) /\ s + w = 65535 * p + r
    BY <2>2, <2>3, WordBounds
  <2> QED
    BY <2>1, <2>4 DEF Represents
<1> QED
  BY <1>1, <1>3, <1>4

LEMMA PaddedWords ==
  ASSUME NEW f \in Seq(Byte), NEW k \in 1..WordCount(f)
  PROVE  /\ PaddedWord(f, k) \in Uint16
         /\ k \in Nat /\ 2 * k - 1 \in 1..Len(f) /\ 2 * k <= Len(f) + 1
<1>1. k \in Nat /\ 2 * k - 1 \in 1..Len(f) /\ 2 * k <= Len(f) + 1
  BY DEF WordCount
<1>2. PICK a \in Nat : a = f[2 * k - 1] /\ a <= 255
  BY <1>1, BytesAreNumbers
<1>3. CASE 2 * k <= Len(f)
  <2>1. PICK b \in Nat : b = f[2 * k] /\ b <= 255
    BY <1>1, <1>3, BytesAreNumbers
  <2>2. PaddedWord(f, k) = 256 * a + b
    BY <1>2, <1>3, <2>1 DEF PaddedWord
  <2>3. 256 * a + b \in Uint16
    BY <1>2, <2>1, TwoBytes
  <2> QED
    BY <1>1, <2>2, <2>3
<1>4. CASE ~(2 * k <= Len(f))
  <2>1. PICK z \in Nat : z = 0 /\ z <= 255
    OBVIOUS
  <2>2. PaddedWord(f, k) = 256 * a + z
    BY <1>2, <1>4, <2>1 DEF PaddedWord
  <2>3. 256 * a + z \in Uint16
    BY <1>2, <2>1, TwoBytes
  <2> QED
    BY <1>1, <2>2, <2>3
<1> QED
  BY <1>3, <1>4

LEMMA OnesSumsDef ==
  ASSUME NEW f \in Seq(Byte)
  PROVE  /\ OnesSums(f)[0] = 0
         /\ \A k \in 1..WordCount(f) :
              OnesSums(f)[k] = OnesPlus(OnesSums(f)[k - 1], PaddedWord(f, k))
<1> DEFINE n    == WordCount(f)
           step == [k \in 1..n |-> [x \in Uint16 |-> OnesPlus(x, PaddedWord(f, k))]]
<1>1. n \in Nat /\ 0 \in Uint16
  BY WordBounds DEF WordCount
<1>2. \A k \in 1..n : PaddedWord(f, k) \in Uint16
  BY PaddedWords
<1>3. \A x, w \in Uint16 : OnesPlus(x, w) \in Uint16
  BY WordBounds, RepresentsItself, OnesPlusRepresents
<1> HIDE DEF n
<1>4. \A k \in 1..n : step[k] \in [Uint16 -> Uint16]
  BY <1>2, <1>3
<1>5. PICK g \in [0..n -> Uint16] : Follows(g, n, 0, step)
  <2> HIDE DEF step
  <2> QED
    BY <1>1, <1>4, RecursionExists
<1>6. ASSUME NEW k \in 1..n PROVE g[k] = OnesPlus(g[k - 1], PaddedWord(f, k))
  <2>1. g[k] = step[k][g[k - 1]]
    <3> HIDE DEF step
    <3> QED
      BY <1>5 DEF Follows
  <2>2. g[k - 1] \in Uint16
    BY <1>1
  <2> QED
    BY <2>1, <2>2
<1>7. g = [k \in 0..n |-> IF k = 0 THEN 0 ELSE OnesPlus(g[k - 1], PaddedWord(f, k))]
  <2>1. g[0] = 0
    BY <1>5 DEF Follows
  <2> HIDE DEF step
  <2> QED
    BY <1>1, <1>6, <2>1
<1>8. OnesSums(f) =
        [k \in 0..n |->
          IF k = 0 THEN 0 ELSE OnesPlus(OnesSums(f)[k - 1], PaddedWord(f, k))]
  <2> HIDE DEF step
  <2> QED
    BY <1>7, Zenon DEF OnesSums, n
<1> HIDE DEF step
<1> QED
  BY <1>1, <1>8 DEF n

(* The two sums never part by more than a multiple of 65535.               *)
LEMMA SumsAgree ==
  ASSUME NEW f \in Seq(Byte)
  PROVE  Represents(OnesSums(f)[WordCount(f)], WordSum(f))
<1> DEFINE n    == WordCount(f)
           U(k) == IF 2 * k <= Len(f) THEN 2 * k ELSE Len(f)
           G    == {k \in 0..n : Represents(OnesSums(f)[k], WordSums(f)[U(k)])}
<1>1. Len(f) \in Nat /\ n \in Nat /\ U(0) = 0 /\ U(n) = Len(f)
  BY DEF WordCount
<1>2. 0 \in G
  BY <1>1, WordSumsDef, OnesSumsDef, RepresentsItself
<1>3. ASSUME NEW k \in 1..n, k - 1 \in G PROVE k \in G
  <2>1. /\ PaddedWord(f, k) \in Uint16
        /\ k \in Nat /\ 2 * k - 1 \in 1..Len(f) /\ 2 * k <= Len(f) + 1
    BY PaddedWords
  <2> DEFINE s == WordSums(f)[2 * (k - 1)]
  <2>2. U(k - 1) = 2 * (k - 1) /\ U(k - 1) \in 0..Len(f) /\ s \in Nat
    <3>1. 2 * (k - 1) \in 0..Len(f) /\ 2 * (k - 1) <= Len(f)
      BY <2>1
    <3>2. s \in Nat
      BY <3>1, WordSumsDef
    <3> HIDE DEF s
    <3> QED
      BY <3>1, <3>2
  <2>3. Represents(OnesSums(f)[k - 1], s)
    BY <1>3, <2>2
  <2>4. WordSums(f)[U(k)] = s + PaddedWord(f, k)
    <3>1. (2 * k - 1) % 2 = 1 /\ (2 * k) % 2 # 1
      BY <2>1
    <3>2. PICK a \in Nat : a = f[2 * k - 1]
      BY <2>1, BytesAreNumbers
    <3>3. WordSums(f)[2 * k - 1] = s + 256 * a
      BY <2>1, <3>1, <3>2, WordSumsDef DEF Weighted
    <3>4. CASE 2 * k <= Len(f)
      <4>1. PICK b \in Nat : b = f[2 * k]
        BY <2>1, <3>4, BytesAreNumbers
      <4>2. WordSums(f)[2 * k] = WordSums(f)[2 * k - 1] + b
        BY <2>1, <3>1, <3>4, <4>1, WordSumsDef DEF Weighted
      <4>3. PaddedWord(f, k) = 256 * a + b
        BY <3>2, <3>4, <4>1 DEF PaddedWord
      <4> QED
        BY <2>2, <3>3, <3>4, <4>2, <4>3
    <3>5. CASE ~(2 * k <= Len(f))
      <4>1. U(k) = 2 * k - 1
        BY <2>1, <3>5
      <4>2. PaddedWord(f, k) = 256 * a + 0
        BY <3>2, <3>5 DEF PaddedWord
      <4> QED
        BY <2>2, <3>3, <4>1, <4>2
    <3> QED
      BY <3>4, <3>5
  <2>5. OnesSums(f)[k] = OnesPlus(OnesSums(f)[k - 1], PaddedWord(f, k))
    BY OnesSumsDef
  <2> HIDE DEF s, U
  <2>6. Represents(OnesSums(f)[k], WordSums(f)[U(k)])
    BY <2>1, <2>2, <2>3, <2>4, <2>5, OnesPlusRepresents
  <2> QED
    BY <2>6
<1>4. n \in G
  <2> HIDE DEF G, n
  <2>1. \A k \in 0..n : k \in G
    BY <1>1, <1>2, <1>3, SetInduction
  <2> QED
    BY <1>1, <2>1
<1> QED
  BY <1>1, <1>4 DEF WordSum

(* Checksum(data) is the RFC's for every message.                          *)
THEOREM ChecksumOnesComplement ==
  ASSUME NEW f \in Seq(Byte)
  PROVE  Checksum(f) = 65535 - OnesSums(f)[WordCount(f)]
<1>1. WordSum(f) \in Nat
  BY WordSumsDef DEF WordSum
<1>2. Folded(WordSum(f)) = OnesSums(f)[WordCount(f)]
  BY <1>1, FoldRepresents, SumsAgree, RepresentsUnique
<1> QED
  BY <1>2 DEF Checksum

-----------------------------------------------------------------------------
(* What a checksum of zero says, and what makes it one.                    *)

LEMMA WordOfBytes ==
  ASSUME NEW w \in Uint16
  PROVE  /\ BytesOf(w) \in Seq(Byte) /\ Len(BytesOf(w)) = 2
         /\ BytesOf(w)[1] \in Byte /\ BytesOf(w)[2] \in Byte
         /\ 256 * BytesOf(w)[1] + BytesOf(w)[2] = w
<1> DEFINE hi == w \div 256
           lo == w % 256
<1>1. w \in Nat /\ w <= 65535
  BY WordBounds
<1>2. hi \in Nat /\ hi <= 255 /\ lo \in Nat /\ lo <= 255 /\ 256 * hi + lo = w
  BY <1>1
<1>3. BytesOf(w) = <<hi, lo>>
  BY DEF BytesOf
<1> HIDE DEF hi, lo
<1>4. hi \in Byte /\ lo \in Byte
  BY <1>2, ByteBounds
<1> QED
  BY <1>2, <1>3, <1>4

(* Where two messages have the same bytes their sums grow by the same.     *)
LEMMA SumsGrowAlike ==
  ASSUME NEW f \in Seq(Byte), NEW g \in Seq(Byte), NEW m \in Nat, NEW n \in Nat,
         m <= n, n <= Len(f), n <= Len(g), \A i \in (m + 1)..n : f[i] = g[i]
  PROVE  WordSums(g)[n] + WordSums(f)[m] = WordSums(f)[n] + WordSums(g)[m]
<1> DEFINE F == WordSums(f)
           H == WordSums(g)
           d == n - m
           G == {k \in 0..d : H[m + k] + F[m] = F[m + k] + H[m]}
<1>1. Len(f) \in Nat /\ Len(g) \in Nat /\ d \in Nat
  OBVIOUS
<1>2. \A k \in 0..d : F[m + k] \in Nat /\ H[m + k] \in Nat
  <2> SUFFICES ASSUME NEW k \in 0..d PROVE F[m + k] \in Nat /\ H[m + k] \in Nat
    OBVIOUS
  <2>1. m + k \in 0..Len(f) /\ m + k \in 0..Len(g)
    BY <1>1
  <2> QED
    BY <2>1, WordSumsDef
<1>3. 0 \in G
  <2>1. 0 \in 0..d /\ m + 0 = m
    BY <1>1
  <2> HIDE DEF F, H, d
  <2>2. F[m] \in Nat /\ H[m] \in Nat
    BY <1>2, <2>1
  <2>3. H[m + 0] + F[m] = F[m + 0] + H[m]
    BY <2>1, <2>2
  <2> QED
    BY <2>1, <2>3
<1>4. ASSUME NEW k \in 1..d, k - 1 \in G PROVE k \in G
  <2>1. /\ m + k \in 1..Len(f) /\ m + k \in 1..Len(g) /\ m + k \in (m + 1)..n
        /\ (m + k) - 1 = m + (k - 1) /\ k \in 0..d /\ k - 1 \in 0..d /\ 0 \in 0..d
    BY <1>1
  <2>2. PICK a \in Nat : a = Weighted(f, m + k) /\ a = Weighted(g, m + k)
    <3>1. Weighted(f, m + k) = Weighted(g, m + k)
      BY <2>1 DEF Weighted
    <3> QED
      BY <2>1, <3>1, BytesAreNumbers
  <2>3. F[m + k] = F[m + (k - 1)] + a /\ H[m + k] = H[m + (k - 1)] + a
    <3>1. F[m + k] = F[(m + k) - 1] + Weighted(f, m + k)
      BY <2>1, WordSumsDef
    <3>2. H[m + k] = H[(m + k) - 1] + Weighted(g, m + k)
      BY <2>1, WordSumsDef
    <3> HIDE DEF F, H
    <3> QED
      BY <2>1, <2>2, <3>1, <3>2
  <2>4. H[m + (k - 1)] + F[m] = F[m + (k - 1)] + H[m]
    BY <1>4
  <2> HIDE DEF F, H
  <2>5. F[m] \in Nat /\ H[m] \in Nat
    <3>1. m + 0 = m
      OBVIOUS
    <3> QED
      BY <1>2, <2>1, <3>1
  <2>6. PICK x \in Nat, y \in Nat, u \in Nat, v \in Nat :
          x = H[m + (k - 1)] /\ y = F[m + (k - 1)] /\ u = F[m] /\ v = H[m]
    BY <1>2, <2>1, <2>5
  <2>7. H[m + k] + F[m] = F[m + k] + H[m]
    <3>1. x + u = y + v
      BY <2>4, <2>6
    <3>2. H[m + k] = x + a /\ F[m + k] = y + a /\ F[m] = u /\ H[m] = v
      BY <2>3, <2>6
    <3>3. (x + a) + u = (y + a) + v
      BY <3>1
    <3> QED
      BY <3>2, <3>3
  <2> QED
    BY <2>1, <2>7
<1>5. d \in G
  <2> HIDE DEF G, d
  <2>1. \A k \in 0..d : k \in G
    BY <1>1, <1>3, <1>4, SetInduction
  <2> QED
    BY <1>1, <2>1
<1> QED
  BY <1>5

LEMMA SumsGrowToTheEnd ==
  ASSUME NEW f \in Seq(Byte), NEW g \in Seq(Byte), NEW m \in Nat,
         m <= Len(f), Len(f) <= Len(g), \A i \in (m + 1)..Len(f) : f[i] = g[i]
  PROVE  WordSums(g)[Len(f)] + WordSums(f)[m] = WordSums(f)[Len(f)] + WordSums(g)[m]
<1>1. PICK n \in Nat : n = Len(f)
  OBVIOUS
<1>2. m <= n /\ n <= Len(f) /\ n <= Len(g) /\ \A i \in (m + 1)..n : f[i] = g[i]
  BY <1>1
<1>3. WordSums(g)[n] + WordSums(f)[m] = WordSums(f)[n] + WordSums(g)[m]
  BY <1>2, SumsGrowAlike, Zenon
<1> QED
  BY <1>1, <1>3, Zenon

LEMMA SumIsBounded ==
  ASSUME NEW f \in Seq(Byte)
  PROVE  WordSum(f) \in Nat /\ WordSum(f) <= 65280 * Len(f)
<1> DEFINE F == WordSums(f)
           n == Len(f)
           G == {k \in 0..n : F[k] <= 65280 * k}
<1>1. n \in Nat
  OBVIOUS
<1>2. \A k \in 0..n : F[k] \in Nat
  BY WordSumsDef
<1>3. 0 \in G
  <2>1. 0 \in 0..n
    BY <1>1
  <2>2. F[0] = 0
    BY WordSumsDef
  <2> HIDE DEF F, n
  <2> QED
    BY <2>1, <2>2
<1>4. ASSUME NEW k \in 1..n, k - 1 \in G PROVE k \in G
  <2>1. PICK a \in Nat : a = Weighted(f, k) /\ a <= 65280
    BY BytesAreNumbers
  <2>2. F[k] = F[k - 1] + Weighted(f, k)
    BY WordSumsDef
  <2> HIDE DEF F, n
  <2>3. k \in 0..n /\ k - 1 \in 0..n /\ k \in Nat
    BY <1>1
  <2>4. PICK x \in Nat : x = F[k - 1] /\ x <= 65280 * (k - 1)
    BY <1>2, <1>4, <2>3
  <2>5. F[k] = x + a
    BY <2>1, <2>2, <2>4
  <2>6. x + a <= 65280 * k
    BY <2>1, <2>3, <2>4
  <2> QED
    BY <2>3, <2>5, <2>6
<1>5. \A k \in 0..n : k \in G
  <2>1. n \in Nat /\ 0 \in G /\ \A k \in 1..n : k - 1 \in G => k \in G
    BY <1>1, <1>3, <1>4
  <2> HIDE DEF G, n
  <2> QED
    BY <2>1, SetInduction
<1> QED
  <2>1. n \in 0..n
    BY <1>1
  <2>2. F[n] \in Nat /\ F[n] <= 65280 * n
    BY <1>2, <1>5, <2>1
  <2> QED
    BY <2>2 DEF WordSum

(* The code adds up in 32 bits: a packet of at most 65535 bytes, which is  *)
(* what a frame may hold, does not get to where they wrap.                 *)
THEOREM SumFitsIn32Bits ==
  ASSUME NEW f \in Seq(Byte), Len(f) <= 65535
  PROVE  WordSum(f) < 65536 * 65536
<1>1. PICK n \in Nat : n = Len(f) /\ n <= 65535
  OBVIOUS
<1>2. PICK t \in Nat : t = WordSum(f) /\ t <= 65280 * n
  BY <1>1, SumIsBounded
<1>3. t < 65536 * 65536
  BY <1>1, <1>2
<1> QED
  BY <1>2, <1>3

LEMMA ChecksumZero ==
  ASSUME NEW f \in Seq(Byte)
  PROVE  /\ Checksum(f) \in Uint16 /\ WordSum(f) \in Nat
         /\ Checksum(f) = 0 <=> \E q \in Nat : q >= 1 /\ WordSum(f) = 65535 * q
         /\ \E q \in Nat : q >= 1 /\ WordSum(f) + Checksum(f) = 65535 * q
<1> DEFINE s == WordSum(f)
           r == Folded(s)
<1>1. s \in Nat
  BY WordSumsDef DEF WordSum
<1>2. Represents(r, s)
  BY <1>1, FoldRepresents
<1>3. Checksum(f) = 65535 - r
  BY DEF Checksum
<1> HIDE DEF r, s
<1>4. r \in Nat /\ r <= 65535
  BY <1>2, WordBounds DEF Represents
<1>5. PICK q \in Nat : s = 65535 * q + r
  BY <1>2 DEF Represents
<1>6. Checksum(f) \in Uint16 /\ Checksum(f) \in Nat
  BY <1>3, <1>4, WordBounds
<1>7. PICK p \in Nat : p = q + 1
  OBVIOUS
<1>8. p >= 1 /\ s + Checksum(f) = 65535 * p
  BY <1>3, <1>4, <1>5, <1>7
<1>9. ASSUME Checksum(f) = 0 PROVE s = 65535 * p
  BY <1>1, <1>8, <1>9
<1>10. ASSUME NEW k \in Nat, k >= 1, s = 65535 * k PROVE Checksum(f) = 0
  <2>1. PICK j \in Nat : j = k - 1
    BY <1>10
  <2>2. s = 65535 * j + 65535 /\ s # 0 /\ 65535 \in Uint16 /\ 65535 # 0
    BY <1>10, <2>1, WordBounds
  <2>3. Represents(65535, s)
    BY <2>2 DEF Represents
  <2>4. r = 65535
    BY <1>1, <1>2, <2>3, RepresentsUnique
  <2> QED
    BY <1>3, <2>4
<1> QED
  BY <1>1, <1>6, <1>8, <1>9, <1>10 DEF s

(* A message with its checksum has the checksum zero.                      *)
LEMMA SummedProperties ==
  ASSUME NEW f \in Seq(Byte), NEW a \in Nat, a % 2 = 1, a + 1 <= Len(f),
         f[a] = 0, f[a + 1] = 0
  PROVE  /\ Summed(f, a) \in Seq(Byte) /\ Len(Summed(f, a)) = Len(f)
         /\ \A i \in 1..Len(f) : i # a /\ i # a + 1 => Summed(f, a)[i] = f[i]
         /\ Checksum(Summed(f, a)) = 0
<1>0. PICK c \in Nat : c = Checksum(f) /\ c \in Uint16
  BY ChecksumZero, WordBounds
<1> DEFINE h == [f EXCEPT ![a] = BytesOf(c)[1]]
           g == [h EXCEPT ![a + 1] = BytesOf(c)[2]]
<1>1. Summed(f, a) = g
  BY <1>0 DEF Summed
<1>2. PICK hi \in Nat, lo \in Nat :
        /\ hi = BytesOf(c)[1] /\ lo = BytesOf(c)[2] /\ 256 * hi + lo = c
        /\ hi \in Byte /\ lo \in Byte
  BY <1>0, WordOfBytes, ByteBounds
<1>3. a \in 1..Len(f) /\ a + 1 \in 1..Len(f) /\ a # a + 1 /\ Len(f) \in Nat
  OBVIOUS
<1>4. /\ h \in Seq(Byte) /\ Len(h) = Len(f)
      /\ \A i \in 1..Len(f) : h[i] = IF i = a THEN hi ELSE f[i]
  BY <1>2, <1>3, ExceptSeq
<1> HIDE DEF h
<1>5. /\ g \in Seq(Byte) /\ Len(g) = Len(f)
      /\ \A i \in 1..Len(f) : g[i] = IF i = a + 1 THEN lo ELSE h[i]
  BY <1>2, <1>3, <1>4, ExceptSeq
<1> HIDE DEF g
<1>6. /\ \A i \in 1..Len(f) : i # a /\ i # a + 1 => g[i] = f[i]
      /\ g[a] = hi /\ g[a + 1] = lo
  BY <1>3, <1>4, <1>5
<1> DEFINE F == WordSums(f)
           H == WordSums(g)
<1>7. PICK b \in Nat : b = a - 1 /\ b <= a
  BY <1>3
<1>8. PICK x \in Nat, y \in Nat, n \in Nat, m \in Nat, z \in Nat, u \in Nat :
        /\ x = F[b] /\ y = H[b] /\ n = F[a + 1] /\ m = H[a + 1]
        /\ z = F[Len(f)] /\ u = H[Len(f)] /\ F[0] = 0 /\ H[0] = 0
  <2>1. b \in 0..Len(f) /\ a + 1 \in 0..Len(f) /\ Len(f) \in 0..Len(f)
    BY <1>3, <1>7
  <2> QED
    BY <1>5, <2>1, WordSumsDef
<1>9. x = y
  <2>1. \A i \in (0 + 1)..b : f[i] = g[i]
    BY <1>3, <1>6, <1>7
  <2>2. 0 <= b /\ b <= Len(f) /\ b <= Len(g)
    BY <1>3, <1>5, <1>7
  <2>3. H[b] + F[0] = F[b] + H[0]
    BY <1>5, <2>1, <2>2, SumsGrowAlike
  <2>4. y + 0 = x + 0
    BY <1>8, <2>3
  <2> QED
    BY <2>4
<1>10. n = x /\ m = y + c
  <2>1. (a + 1) % 2 # 1 /\ (a + 1) - 1 = a /\ a + 1 \in 1..Len(g) /\ a \in 1..Len(g)
    BY <1>3, <1>5
  <2>2. F[a] = F[b] + Weighted(f, a) /\ F[a + 1] = F[a] + Weighted(f, a + 1)
    BY <1>3, <1>7, <2>1, WordSumsDef
  <2>3. H[a] = H[b] + Weighted(g, a) /\ H[a + 1] = H[a] + Weighted(g, a + 1)
    BY <1>5, <1>7, <2>1, WordSumsDef
  <2>4. Weighted(f, a) = 256 * 0 /\ Weighted(f, a + 1) = 0
    BY <2>1 DEF Weighted
  <2>5. Weighted(g, a) = 256 * hi /\ Weighted(g, a + 1) = lo
    BY <1>6, <2>1 DEF Weighted
  <2> HIDE DEF F, H
  <2>6. F[a] = x + 256 * 0 /\ n = F[a] + 0
    BY <1>8, <2>2, <2>4
  <2>7. H[a] = y + 256 * hi /\ m = H[a] + lo
    BY <1>8, <2>3, <2>5
  <2>8. n = x + 256 * 0 + 0 /\ m = (y + 256 * hi) + lo
    BY <2>6, <2>7
  <2>9. 256 * hi + lo = c
    BY <1>2
  <2> QED
    BY <2>8, <2>9
<1>11. u + n = z + m
  <2>1. \A i \in ((a + 1) + 1)..Len(f) : f[i] = g[i]
    BY <1>3, <1>6
  <2>2. /\ a + 1 \in Nat /\ a + 1 <= Len(f)
        /\ Len(f) <= Len(g)
    BY <1>3, <1>5
  <2>3. H[Len(f)] + F[a + 1] = F[Len(f)] + H[a + 1]
    BY <1>5, <2>1, <2>2, SumsGrowToTheEnd, Zenon
  <2> HIDE DEF F, H
  <2> QED
    BY <1>8, <2>3, Zenon
<1>12. u = z + c
  BY <1>9, <1>10, <1>11
<1>13. WordSum(g) = WordSum(f) + Checksum(f)
  BY <1>0, <1>5, <1>8, <1>12 DEF WordSum
<1>14. Checksum(g) = 0
  <2>1. \E q \in Nat : q >= 1 /\ WordSum(g) = 65535 * q
    BY <1>13, ChecksumZero
  <2> QED
    BY <1>5, <2>1, ChecksumZero
<1> QED
  BY <1>1, <1>5, <1>6, <1>14

-----------------------------------------------------------------------------
(* What a checksum detects.                                                *)

(* Sums that differ by less than 65535 are not both correct.               *)
LEMMA SmallDifference ==
  ASSUME NEW f \in Seq(Byte), NEW g \in Seq(Byte), NEW d \in Nat, d >= 1, d < 65535,
         WordSum(g) = WordSum(f) + d
  PROVE  ~ (Checksum(f) = 0 /\ Checksum(g) = 0)
<1> SUFFICES ASSUME Checksum(f) = 0, Checksum(g) = 0 PROVE FALSE
  OBVIOUS
<1>1. PICK q \in Nat : WordSum(f) = 65535 * q
  BY ChecksumZero
<1>2. PICK p \in Nat : WordSum(g) = 65535 * p
  BY ChecksumZero
<1>3. 65535 * p = 65535 * q + d
  BY <1>1, <1>2
<1>4. CASE p <= q
  BY <1>3, <1>4
<1>5. CASE p > q
  BY <1>3, <1>5
<1> QED
  BY <1>4, <1>5

LEMMA OneByteSum ==
  ASSUME NEW f \in Seq(Byte), NEW g \in Seq(Byte), Len(g) = Len(f), NEW i \in 1..Len(f),
         \A j \in 1..Len(f) : j # i => g[j] = f[j]
  PROVE  WordSum(g) + Weighted(f, i) = WordSum(f) + Weighted(g, i)
<1> DEFINE F == WordSums(f)
           H == WordSums(g)
<1>1. i \in Nat /\ i <= Len(f) /\ Len(f) \in Nat /\ Len(f) <= Len(g) /\ i <= Len(g)
  OBVIOUS
<1>2. PICK b \in Nat : b = i - 1 /\ b <= Len(f) /\ b <= Len(g) /\ 0 <= b
  BY <1>1
<1>3. PICK x \in Nat, y \in Nat, n \in Nat, m \in Nat, z \in Nat, u \in Nat,
           a \in Nat, c \in Nat :
        /\ x = F[b] /\ y = H[b] /\ n = F[i] /\ m = H[i]
        /\ z = F[Len(f)] /\ u = H[Len(f)] /\ F[0] = 0 /\ H[0] = 0
        /\ a = Weighted(f, i) /\ c = Weighted(g, i)
  <2>1. b \in 0..Len(f) /\ i \in 0..Len(f) /\ Len(f) \in 0..Len(f)
    BY <1>1, <1>2
  <2>2. /\ F[b] \in Nat /\ H[b] \in Nat /\ F[i] \in Nat /\ H[i] \in Nat
        /\ F[Len(f)] \in Nat /\ H[Len(f)] \in Nat /\ F[0] = 0 /\ H[0] = 0
    BY <2>1, WordSumsDef
  <2>3. Weighted(f, i) \in Nat /\ Weighted(g, i) \in Nat
    BY BytesAreNumbers
  <2> HIDE DEF F, H
  <2> QED
    BY <2>2, <2>3
<1>4. y = x
  <2>1. \A j \in (0 + 1)..b : f[j] = g[j]
    BY <1>1, <1>2
  <2>2. H[b] + F[0] = F[b] + H[0]
    BY <1>2, <2>1, SumsGrowAlike
  <2>3. y + 0 = x + 0
    BY <1>3, <2>2
  <2> QED
    BY <2>3
<1>5. n = x + a /\ m = y + c
  <2>1. F[i] = F[i - 1] + Weighted(f, i) /\ H[i] = H[i - 1] + Weighted(g, i)
    BY WordSumsDef
  <2> HIDE DEF F, H
  <2> QED
    BY <1>2, <1>3, <2>1, Zenon
<1>6. u + n = z + m
  <2>1. \A j \in (i + 1)..Len(f) : f[j] = g[j]
    BY <1>1
  <2>2. i \in Nat /\ i <= Len(f) /\ Len(f) <= Len(g)
    BY <1>1
  <2>3. H[Len(f)] + F[i] = F[Len(f)] + H[i]
    BY <2>1, <2>2, SumsGrowToTheEnd, Zenon
  <2> HIDE DEF F, H
  <2> QED
    BY <1>3, <2>3, Zenon
<1>7. u + a = z + c
  BY <1>4, <1>5, <1>6
<1> QED
  BY <1>3, <1>7 DEF WordSum

(* One byte that changes is noticed.                                       *)
LEMMA OneByteDetected ==
  ASSUME NEW f \in Seq(Byte), NEW g \in Seq(Byte), Len(g) = Len(f), NEW i \in 1..Len(f),
         \A j \in 1..Len(f) : j # i => g[j] = f[j], g[i] # f[i]
  PROVE  ~ (Checksum(f) = 0 /\ Checksum(g) = 0)
<1>1. PICK a \in Nat, b \in Nat : a = f[i] /\ b = g[i] /\ a <= 255 /\ b <= 255 /\ a # b
  BY BytesAreNumbers
<1>2. PICK v \in Nat, w \in Nat : v = Weighted(f, i) /\ w = Weighted(g, i)
  BY BytesAreNumbers
<1>3. (v = 256 * a /\ w = 256 * b) \/ (v = a /\ w = b)
  BY <1>1, <1>2 DEF Weighted
<1>4. v # w /\ v <= 65280 /\ w <= 65280
  BY <1>1, <1>3
<1>5. PICK s \in Nat, t \in Nat : s = WordSum(f) /\ t = WordSum(g)
  BY ChecksumZero
<1>6. t + v = s + w
  BY <1>2, <1>5, OneByteSum
<1>7. CASE v < w
  <2>1. PICK d \in Nat : d = w - v /\ d >= 1 /\ d < 65535
    BY <1>4, <1>7
  <2>2. t = s + d
    BY <1>6, <2>1
  <2>3. WordSum(g) = WordSum(f) + d
    BY <1>5, <2>2, Zenon
  <2> QED
    BY <2>1, <2>3, SmallDifference
<1>8. CASE w < v
  <2>1. PICK d \in Nat : d = v - w /\ d >= 1 /\ d < 65535
    BY <1>4, <1>8
  <2>2. s = t + d
    BY <1>6, <2>1
  <2>3. WordSum(f) = WordSum(g) + d
    BY <1>5, <2>2, Zenon
  <2> QED
    BY <2>1, <2>3, SmallDifference
<1> QED
  BY <1>4, <1>7, <1>8

-----------------------------------------------------------------------------
(* What is built, byte by byte.                                            *)

Joins(c, a, b) ==
  /\ c \in Seq(Byte) /\ Len(c) = Len(a) + Len(b)
  /\ \A i \in 1..Len(a) : c[i] = a[i]
  /\ \A i \in 1..Len(b) : c[Len(a) + i] = b[i]

LEMMA Joined ==
  ASSUME NEW a \in Seq(Byte), NEW b \in Seq(Byte)
  PROVE  Joins(a \o b, a, b)
<1>1. Len(a) \in Nat /\ Len(b) \in Nat
  OBVIOUS
<1>2. a \o b \in Seq(Byte)
  BY ConcatProperties
<1>3. Len(a \o b) = Len(a) + Len(b)
  BY ConcatProperties
<1>4. \A i \in 1..(Len(a) + Len(b)) :
        (a \o b)[i] = IF i <= Len(a) THEN a[i] ELSE b[i - Len(a)]
  BY ConcatProperties
<1>5. ASSUME NEW i \in 1..Len(a) PROVE (a \o b)[i] = a[i]
  <2>1. i \in 1..(Len(a) + Len(b)) /\ i <= Len(a)
    BY <1>1
  <2> QED
    BY <1>4, <2>1
<1>6. ASSUME NEW i \in 1..Len(b) PROVE (a \o b)[Len(a) + i] = b[i]
  <2>1. /\ Len(a) + i \in 1..(Len(a) + Len(b)) /\ ~(Len(a) + i <= Len(a))
        /\ (Len(a) + i) - Len(a) = i
    BY <1>1
  <2> QED
    BY <1>4, <2>1
<1> QED
  BY <1>2, <1>3, <1>5, <1>6 DEF Joins

LEMMA AddressBytes ==
  ASSUME NEW ip \in Addresses
  PROVE  ip \in Seq(Byte) /\ Len(ip) = 4
<1>1. ASSUME NEW f \in [1..4 -> Byte] PROVE f \in Seq(Byte) /\ Len(f) = 4
  <2>1. f \in Seq(Byte)
    BY 4 \in Nat, SeqDef
  <2>2. PICK n \in Nat : n = Len(f) /\ DOMAIN f = 1..n
    BY <2>1, LenProperties
  <2>3. 1..n = 1..4
    BY <2>2
  <2> QED
    BY <2>1, <2>2, <2>3
<1> QED
  BY <1>1 DEF Addresses

(* The message m has been built of these parts.                            *)
Says(m, type, id, seq, payload) ==
  /\ m \in Seq(Byte) /\ Len(m) = 8 + Len(payload)
  /\ m[1] = type /\ m[2] = 0 /\ Word(m, 5) = id /\ Word(m, 7) = seq
  /\ \A i \in 1..Len(payload) : m[8 + i] = payload[i]
  /\ Checksum(m) = 0

LEMMA MessageProperties ==
  ASSUME NEW type \in Byte, NEW id \in Uint16, NEW seq \in Uint16,
         NEW payload \in Seq(Byte)
  PROVE  Says(ICMPMessage(type, id, seq, payload), type, id, seq, payload)
<1> DEFINE m == ICMPMessage(type, id, seq, payload)
<1> HIDE DEF m
<1>1. PICK a \in Seq(Byte), b \in Seq(Byte) :
        /\ a = BytesOf(id) /\ Len(a) = 2 /\ 256 * a[1] + a[2] = id
        /\ b = BytesOf(seq) /\ Len(b) = 2 /\ 256 * b[1] + b[2] = seq
  BY WordOfBytes
<1>2. PICK h \in Seq(Byte) :
        /\ h = <<type, 0, 0, 0>> /\ Len(h) = 4
        /\ h[1] = type /\ h[2] = 0 /\ h[3] = 0 /\ h[4] = 0
  <2>1. 0 \in Byte
    BY ByteBounds
  <2>2. <<type, 0, 0, 0>> \in Seq(Byte)
    BY <2>1
  <2> QED
    BY <2>2
<1>3. PICK x \in Seq(Byte) : x = h \o a /\ Joins(x, h, a)
  <2>1. Joins(h \o a, h, a)
    BY Joined
  <2> QED
    BY <2>1 DEF Joins
<1>4. PICK y \in Seq(Byte) : y = x \o b /\ Joins(y, x, b)
  <2>1. Joins(x \o b, x, b)
    BY Joined
  <2> QED
    BY <2>1 DEF Joins
<1>5. PICK z \in Seq(Byte) : z = y \o payload /\ Joins(z, y, payload)
  <2>1. Joins(y \o payload, y, payload)
    BY Joined
  <2> QED
    BY <2>1 DEF Joins
<1>6. m = Summed(z, 3)
  BY <1>1, <1>2, <1>3, <1>4, <1>5 DEF ICMPMessage, m
<1>7. x \in Seq(Byte) /\ Len(x) = 6
  BY <1>1, <1>2, <1>3 DEF Joins
<1>8. y \in Seq(Byte) /\ Len(y) = 8
  BY <1>1, <1>4, <1>7 DEF Joins
<1>9. z \in Seq(Byte) /\ Len(z) = 8 + Len(payload) /\ Len(payload) \in Nat
  BY <1>5, <1>8 DEF Joins
<1>10. /\ x[1] = type /\ x[2] = 0 /\ x[3] = 0 /\ x[4] = 0
       /\ x[4 + 1] = a[1] /\ x[4 + 2] = a[2]
  BY <1>1, <1>2, <1>3 DEF Joins
<1>11. /\ y[1] = type /\ y[2] = 0 /\ y[3] = 0 /\ y[4] = 0 /\ y[5] = a[1] /\ y[6] = a[2]
       /\ y[7] = b[1] /\ y[8] = b[2]
  <2>1. (\A i \in 1..6 : y[i] = x[i]) /\ (\A i \in 1..2 : y[6 + i] = b[i])
    BY <1>1, <1>4, <1>7 DEF Joins
  <2>2. /\ y[1] = x[1] /\ y[2] = x[2] /\ y[3] = x[3] /\ y[4] = x[4]
        /\ y[5] = x[5] /\ y[6] = x[6]
    BY <2>1
  <2>3. y[6 + 1] = b[1] /\ y[6 + 2] = b[2]
    BY <2>1
  <2>4. 6 + 1 = 7 /\ 6 + 2 = 8 /\ 4 + 1 = 5 /\ 4 + 2 = 6
    OBVIOUS
  <2> QED
    BY <1>10, <2>2, <2>3, <2>4, Zenon
<1>12. /\ z[1] = type /\ z[2] = 0 /\ z[3] = 0 /\ z[4] = 0
       /\ z[5] = a[1] /\ z[6] = a[2] /\ z[7] = b[1] /\ z[8] = b[2]
  <2>1. \A i \in 1..8 : z[i] = y[i]
    BY <1>5, <1>8 DEF Joins
  <2>2. /\ z[1] = y[1] /\ z[2] = y[2] /\ z[3] = y[3] /\ z[4] = y[4]
        /\ z[5] = y[5] /\ z[6] = y[6] /\ z[7] = y[7] /\ z[8] = y[8]
    BY <2>1
  <2> QED
    BY <1>11, <2>2, Zenon
<1>13. \A i \in 1..Len(payload) : z[8 + i] = payload[i]
  BY <1>5, <1>8 DEF Joins
<1>14. 3 % 2 = 1 /\ 3 + 1 <= Len(z) /\ z[3] = 0 /\ z[3 + 1] = 0
  BY <1>9, <1>12
<1>15. /\ m \in Seq(Byte) /\ Len(m) = Len(z) /\ Checksum(m) = 0
       /\ \A i \in 1..Len(z) : i # 3 /\ i # 3 + 1 => m[i] = z[i]
  <2>1. /\ Summed(z, 3) \in Seq(Byte) /\ Len(Summed(z, 3)) = Len(z)
        /\ \A i \in 1..Len(z) : i # 3 /\ i # 3 + 1 => Summed(z, 3)[i] = z[i]
        /\ Checksum(Summed(z, 3)) = 0
    BY <1>9, <1>14, 3 \in Nat, SummedProperties
  <2> QED
    BY <1>6, <2>1
<1>16. /\ m[1] = z[1] /\ m[2] = z[2]
       /\ m[5] = z[5] /\ m[6] = z[6] /\ m[7] = z[7] /\ m[8] = z[8]
  BY <1>9, <1>15
<1>17. ASSUME NEW i \in 1..Len(payload) PROVE m[8 + i] = payload[i]
  <2>1. 8 + i \in 1..Len(z) /\ 8 + i # 3 /\ 8 + i # 3 + 1
    BY <1>9
  <2> QED
    BY <1>13, <1>15, <2>1
<1>18. Word(m, 5) = id /\ Word(m, 7) = seq
  BY <1>1, <1>12, <1>16 DEF Word
<1> QED
  <2>1. Says(m, type, id, seq, payload)
    BY <1>9, <1>12, <1>15, <1>16, <1>17, <1>18 DEF Says
  <2> QED
    BY <2>1 DEF m

(* The packet p has been built around the message m.                       *)
Around(p, s, d, m) ==
  /\ p \in Seq(Byte) /\ Len(p) = 20 + Len(m) /\ 20 + Len(m) \in Uint16
  /\ p[1] = 69 /\ p[2] = 0 /\ Word(p, 3) = 20 + Len(m) /\ p[10] = 1
  /\ \A i \in 1..4 : p[12 + i] = s[i]
  /\ \A i \in 1..4 : p[16 + i] = d[i]
  /\ \A i \in 1..Len(m) : p[20 + i] = m[i]
  /\ \E h \in Seq(Byte) :
       /\ Len(h) = 20 /\ Checksum(h) = 0 /\ \A i \in 1..20 : p[i] = h[i]

LEMMA PacketProperties ==
  ASSUME NEW s \in Addresses, NEW d \in Addresses, NEW m \in Seq(Byte), Fits(m)
  PROVE  Around(IPv4Packet(s, d, m), s, d, m)
<1> DEFINE p == IPv4Packet(s, d, m)
<1> HIDE DEF p
<1>0. PICK n \in Nat : n = 20 + Len(m) /\ n \in Uint16
  <2>1. PICK l \in Nat : l = Len(m)
    OBVIOUS
  <2>2. PICK t \in Nat : t = MaxTotal /\ t <= 65535
    BY MaxTotalAssumption, WordBounds
  <2>3. 20 + l <= t
    BY <2>1, <2>2 DEF Fits, HeaderMin
  <2>4. 20 + l \in Nat /\ 20 + l <= 65535
    BY <2>2, <2>3
  <2> QED
    BY <2>1, <2>4, WordBounds
<1>1. PICK a \in Seq(Byte) : a = BytesOf(n) /\ Len(a) = 2 /\ 256 * a[1] + a[2] = n
  BY <1>0, WordOfBytes
<1>2. PICK x \in Seq(Byte) : x = <<69, 0>> /\ Len(x) = 2 /\ x[1] = 69 /\ x[2] = 0
  <2>1. 0 \in Byte /\ 69 \in Byte
    BY ByteBounds
  <2>2. <<69, 0>> \in Seq(Byte)
    BY <2>1
  <2> QED
    BY <2>2
<1>3. PICK y \in Seq(Byte) :
        /\ y = <<0, 0, 0, 0, DefaultTTL, ICMP, 0, 0>> /\ Len(y) = 8
        /\ y[6] = 1 /\ y[7] = 0 /\ y[8] = 0
  <2>1. 0 \in Byte /\ 64 \in Byte /\ 1 \in Byte
    BY ByteBounds
  <2>2. <<0, 0, 0, 0, 64, 1, 0, 0>> \in Seq(Byte)
    BY <2>1
  <2> QED
    BY <2>2 DEF DefaultTTL, ICMP
<1>4. PICK f \in Seq(Byte), g \in Seq(Byte) : f = s /\ g = d /\ Len(f) = 4 /\ Len(g) = 4
  BY AddressBytes
<1>5. PICK c1 \in Seq(Byte) : c1 = x \o a /\ Joins(c1, x, a)
  <2>1. Joins(x \o a, x, a)
    BY Joined
  <2> QED
    BY <2>1 DEF Joins
<1>6. PICK c2 \in Seq(Byte) : c2 = c1 \o y /\ Joins(c2, c1, y)
  <2>1. Joins(c1 \o y, c1, y)
    BY Joined
  <2> QED
    BY <2>1 DEF Joins
<1>7. PICK c3 \in Seq(Byte) : c3 = c2 \o f /\ Joins(c3, c2, f)
  <2>1. Joins(c2 \o f, c2, f)
    BY Joined
  <2> QED
    BY <2>1 DEF Joins
<1>8. PICK c4 \in Seq(Byte) : c4 = c3 \o g /\ Joins(c4, c3, g)
  <2>1. Joins(c3 \o g, c3, g)
    BY Joined
  <2> QED
    BY <2>1 DEF Joins
<1>9. Len(c1) = 4 /\ (\A i \in 1..2 : c1[i] = x[i]) /\ (\A i \in 1..2 : c1[2 + i] = a[i])
  BY <1>1, <1>2, <1>5 DEF Joins
<1>10. /\ Len(c2) = 12 /\ (\A i \in 1..4 : c2[i] = c1[i])
       /\ (\A i \in 1..8 : c2[4 + i] = y[i])
  <2>1. Len(c2) = Len(c1) + Len(y) /\ Len(c1) = 4 /\ Len(y) = 8
    BY <1>3, <1>6, <1>9 DEF Joins
  <2>2. \A i \in 1..4 : c2[i] = c1[i]
    BY <1>3, <1>6, <1>9 DEF Joins
  <2>3. \A i \in 1..8 : c2[4 + i] = y[i]
    BY <1>3, <1>6, <1>9 DEF Joins
  <2> QED
    BY <2>1, <2>2, <2>3
<1>11. /\ Len(c3) = 16 /\ (\A i \in 1..12 : c3[i] = c2[i])
       /\ (\A i \in 1..4 : c3[12 + i] = f[i])
  <2>1. Len(c3) = Len(c2) + Len(f) /\ Len(c2) = 12 /\ Len(f) = 4
    BY <1>4, <1>7, <1>10 DEF Joins
  <2>2. \A i \in 1..12 : c3[i] = c2[i]
    BY <1>4, <1>7, <1>10 DEF Joins
  <2>3. \A i \in 1..4 : c3[12 + i] = f[i]
    BY <1>4, <1>7, <1>10 DEF Joins
  <2> QED
    BY <2>1, <2>2, <2>3
<1>12. /\ Len(c4) = 20 /\ (\A i \in 1..16 : c4[i] = c3[i])
       /\ (\A i \in 1..4 : c4[16 + i] = g[i])
  <2>1. Len(c4) = Len(c3) + Len(g) /\ Len(c3) = 16 /\ Len(g) = 4
    BY <1>4, <1>8, <1>11 DEF Joins
  <2>2. \A i \in 1..16 : c4[i] = c3[i]
    BY <1>4, <1>8, <1>11 DEF Joins
  <2>3. \A i \in 1..4 : c4[16 + i] = g[i]
    BY <1>4, <1>8, <1>11 DEF Joins
  <2> QED
    BY <2>1, <2>2, <2>3
<1>13. /\ c4[1] = 69 /\ c4[2] = 0 /\ c4[3] = a[1] /\ c4[4] = a[2]
       /\ c4[10] = 1 /\ c4[11] = 0 /\ c4[12] = 0
  <2>1. c1[1] = 69 /\ c1[2] = 0 /\ c1[2 + 1] = a[1] /\ c1[2 + 2] = a[2]
    BY <1>2, <1>9
  <2>2. c2[1] = 69 /\ c2[2] = 0 /\ c2[3] = a[1] /\ c2[4] = a[2]
    <3>1. c2[1] = c1[1] /\ c2[2] = c1[2] /\ c2[3] = c1[3] /\ c2[4] = c1[4]
      BY <1>10
    <3>2. 2 + 1 = 3 /\ 2 + 2 = 4
      OBVIOUS
    <3> QED
      BY <2>1, <3>1, <3>2, Zenon
  <2>3. c2[4 + 6] = 1 /\ c2[4 + 7] = 0 /\ c2[4 + 8] = 0
    BY <1>3, <1>10
  <2>4. \A i \in 1..12 : c4[i] = c2[i]
    <3> SUFFICES ASSUME NEW i \in 1..12 PROVE c4[i] = c2[i]
      OBVIOUS
    <3>1. c3[i] = c2[i]
      BY <1>11
    <3>2. i \in 1..16
      OBVIOUS
    <3>3. c4[i] = c3[i]
      BY <1>12, <3>2
    <3> QED
      BY <3>1, <3>3
  <2>5. /\ c4[1] = c2[1] /\ c4[2] = c2[2] /\ c4[3] = c2[3] /\ c4[4] = c2[4]
        /\ c4[10] = c2[10] /\ c4[11] = c2[11] /\ c4[12] = c2[12]
    BY <2>4
  <2> QED
    BY <2>2, <2>3, <2>5
<1>14. \A i \in 1..4 : c4[12 + i] = f[i] /\ c4[16 + i] = g[i]
  <2> SUFFICES ASSUME NEW i \in 1..4 PROVE c4[12 + i] = f[i] /\ c4[16 + i] = g[i]
    OBVIOUS
  <2>1. c3[12 + i] = f[i]
    BY <1>11
  <2>2. 12 + i \in 1..16
    OBVIOUS
  <2>3. c4[12 + i] = c3[12 + i]
    BY <1>12, <2>2
  <2>4. c4[16 + i] = g[i]
    BY <1>12
  <2> QED
    BY <2>1, <2>3, <2>4
<1>15. PICK h \in Seq(Byte) :
         /\ h = Summed(c4, 11) /\ Len(h) = 20 /\ Checksum(h) = 0
         /\ \A i \in 1..20 : i # 11 /\ i # 12 => h[i] = c4[i]
  <2>1. 11 % 2 = 1 /\ 11 + 1 <= Len(c4) /\ c4[11] = 0 /\ c4[11 + 1] = 0
    BY <1>12, <1>13
  <2>2. /\ Summed(c4, 11) \in Seq(Byte) /\ Len(Summed(c4, 11)) = Len(c4)
        /\ \A i \in 1..Len(c4) : i # 11 /\ i # 11 + 1 => Summed(c4, 11)[i] = c4[i]
        /\ Checksum(Summed(c4, 11)) = 0
    BY <2>1, 11 \in Nat, SummedProperties
  <2> QED
    BY <1>12, <2>2
<1>16. p = h \o m
  <2>1. HeaderMin + Len(m) = n
    BY <1>0 DEF HeaderMin
  <2> QED
    BY <1>1, <1>2, <1>3, <1>4, <1>5, <1>6, <1>7, <1>8, <1>15, <2>1, Zenon
       DEF IPv4Packet, p
<1>17. Joins(p, h, m)
  BY <1>16, Joined
<1>18. /\ p \in Seq(Byte) /\ Len(p) = 20 + Len(m)
       /\ (\A i \in 1..20 : p[i] = h[i]) /\ (\A i \in 1..Len(m) : p[20 + i] = m[i])
  BY <1>15, <1>17 DEF Joins
<1>19. p[1] = 69 /\ p[2] = 0 /\ p[3] = a[1] /\ p[4] = a[2] /\ p[10] = 1
  <2>1. p[1] = h[1] /\ p[2] = h[2] /\ p[3] = h[3] /\ p[4] = h[4] /\ p[10] = h[10]
    BY <1>18
  <2>2. h[1] = c4[1] /\ h[2] = c4[2] /\ h[3] = c4[3] /\ h[4] = c4[4] /\ h[10] = c4[10]
    BY <1>15
  <2> QED
    BY <1>13, <2>1, <2>2
<1>20. Word(p, 3) = n
  BY <1>1, <1>19 DEF Word
<1>21. (\A i \in 1..4 : p[12 + i] = s[i]) /\ (\A i \in 1..4 : p[16 + i] = d[i])
  <2> SUFFICES ASSUME NEW i \in 1..4 PROVE p[12 + i] = s[i] /\ p[16 + i] = d[i]
    OBVIOUS
  <2>1. /\ 12 + i \in 1..20 /\ 12 + i # 11 /\ 12 + i # 12
        /\ 16 + i \in 1..20 /\ 16 + i # 11 /\ 16 + i # 12
    OBVIOUS
  <2>2. p[12 + i] = c4[12 + i] /\ p[16 + i] = c4[16 + i]
    BY <1>15, <1>18, <2>1
  <2> QED
    BY <1>4, <1>14, <2>2
<1> QED
  <2>1. Around(p, s, d, m)
    BY <1>0, <1>15, <1>18, <1>19, <1>20, <1>21 DEF Around
  <2> QED
    BY <2>1 DEF p

-----------------------------------------------------------------------------
(* What is parsed.                                                         *)

LEMMA SameBytes ==
  ASSUME NEW f \in Seq(Byte), NEW g \in Seq(Byte), Len(f) = Len(g),
         \A i \in 1..Len(f) : f[i] = g[i]
  PROVE  f = g
BY SeqEqual

Alike(f, g, n) ==
  /\ f \in Seq(Byte) /\ Len(f) = n /\ g \in Seq(Byte) /\ Len(g) = n
  /\ \A i \in 1..n : f[i] = g[i]

LEMMA SameText ==
  ASSUME NEW n, NEW f, NEW g, Alike(f, g, n)
  PROVE  f = g
BY SameBytes DEF Alike

(* c is the part of f that starts at byte i and has n bytes.               *)
Cuts(c, f, i, n) ==
  /\ c \in Seq(Byte) /\ Len(c) = n
  /\ \A k \in 1..n : c[k] = f[i - 1 + k]

LEMMA CutOut ==
  ASSUME NEW f \in Seq(Byte), NEW i \in Nat, i >= 1, NEW n \in Nat, i - 1 + n <= Len(f)
  PROVE  Cuts(From(f, i, n), f, i, n)
<1>1. PICK j \in Int : j = i + n - 1 /\ j - i + 1 = n
  OBVIOUS
<1>2. i \in 1..(Len(f) + 1) /\ j \in (i - 1)..Len(f) /\ Len(f) \in Nat
  BY <1>1
<1>3. SubSeq(f, i, j) \in Seq(Byte)
  BY <1>2, SubSeqProperties
<1>4. Len(SubSeq(f, i, j)) = IF i <= j THEN j - i + 1 ELSE 0
  BY <1>2, SubSeqProperties
<1>5. \A k \in 1..(j - i + 1) : SubSeq(f, i, j)[k] = f[i + k - 1]
  BY <1>2, SubSeqProperties
<1>6. Len(SubSeq(f, i, j)) = n
  <2>1. (IF i <= j THEN j - i + 1 ELSE 0) = n
    BY <1>1
  <2> QED
    BY <1>4, <2>1
<1>7. ASSUME NEW k \in 1..n PROVE SubSeq(f, i, j)[k] = f[i - 1 + k]
  <2>1. k \in 1..(j - i + 1) /\ i + k - 1 = i - 1 + k
    BY <1>1
  <2> QED
    BY <1>5, <2>1
<1>8. From(f, i, n) = SubSeq(f, i, j)
  BY <1>1 DEF From
<1> QED
  BY <1>3, <1>6, <1>7, <1>8 DEF Cuts

(* The parser finds in a built message what was put into it.               *)
LEMMA SaidIsParsed ==
  ASSUME NEW m, NEW type, NEW id, NEW seq, NEW payload \in Seq(Byte),
         Says(m, type, id, seq, payload)
  PROVE  /\ IsICMP(m)
         /\ ICMPOf(m) = [type |-> type, code |-> 0, id |-> id, seq |-> seq,
                         payload |-> payload]
<1>1. PICK n \in Nat : n = Len(payload) /\ Len(m) = 8 + n /\ m \in Seq(Byte)
  BY DEF Says
<1>2. Cuts(From(m, 9, n), m, 9, n)
  BY <1>1, CutOut
<1>3. /\ From(m, 9, n) \in Seq(Byte) /\ Len(From(m, 9, n)) = n
      /\ \A k \in 1..n : From(m, 9, n)[k] = m[8 + k]
  BY <1>2 DEF Cuts
<1>4. \A k \in 1..n : From(m, 9, n)[k] = payload[k]
  BY <1>1, <1>3 DEF Says
<1>5. From(m, 9, n) = payload
  BY <1>1, <1>3, <1>4, SameBytes
<1>6. SubSeq(m, 9, Len(m)) = payload
  <2>1. 9 + n - 1 = 8 + n
    OBVIOUS
  <2> QED
    BY <1>1, <1>5, <2>1, Zenon DEF From
<1>7. IsICMP(m)
  BY <1>1 DEF IsICMP
<1>8. m[1] = type /\ m[2] = 0 /\ Word(m, 5) = id /\ Word(m, 7) = seq
  BY DEF Says
<1> QED
  BY <1>6, <1>7, <1>8, Zenon DEF ICMPOf

(* The parser finds in a built packet what was put into it.                *)
LEMMA BuiltIsParsed ==
  ASSUME NEW s \in Addresses, NEW d \in Addresses, NEW m \in Seq(Byte), NEW p,
         Around(p, s, d, m)
  PROVE  /\ p \in Seq(Byte) /\ HasEndpoints(p) /\ IsIPv4ICMP(p)
         /\ HeaderLen(p) = 20 /\ TotalLen(p) = Len(p) /\ Len(p) = 20 + Len(m)
         /\ Source(p) = s /\ Destination(p) = d /\ IPPayload(p) = m
         /\ Checksum(From(p, 1, 20)) = 0 /\ From(p, 1, TotalLen(p)) = p
<1>1. /\ p \in Seq(Byte) /\ Len(p) = 20 + Len(m) /\ 20 + Len(m) \in Uint16
      /\ p[1] = 69 /\ Word(p, 3) = 20 + Len(m) /\ p[10] = 1
  BY DEF Around
<1>2. /\ \A i \in 1..4 : p[12 + i] = s[i]
      /\ \A i \in 1..4 : p[16 + i] = d[i]
      /\ \A i \in 1..Len(m) : p[20 + i] = m[i]
  BY DEF Around
<1>3. PICK h \in Seq(Byte) :
        Len(h) = 20 /\ Checksum(h) = 0 /\ \A i \in 1..20 : p[i] = h[i]
  BY DEF Around
<1>4. PICK n \in Nat : n = Len(m) /\ Len(p) = 20 + n
  BY <1>1
<1>5. HeaderLen(p) = 20 /\ p[1] \div 16 = 4
  BY <1>1 DEF HeaderLen
<1>6. TotalLen(p) = 20 + n
  BY <1>1, <1>4 DEF TotalLen
<1>7. HasEndpoints(p) /\ IsIPv4ICMP(p)
  BY <1>1, <1>4, <1>5, <1>6 DEF HasEndpoints, IsIPv4ICMP, HeaderMin, ICMP
<1>8. Source(p) = s
  <2>1. s \in Seq(Byte) /\ Len(s) = 4
    BY AddressBytes
  <2>2. Cuts(From(p, 13, 4), p, 13, 4)
    BY <1>1, <1>4, CutOut
  <2>3. /\ From(p, 13, 4) \in Seq(Byte) /\ Len(From(p, 13, 4)) = 4
        /\ \A k \in 1..4 : From(p, 13, 4)[k] = p[12 + k]
    BY <2>2 DEF Cuts
  <2>4. \A k \in 1..4 : From(p, 13, 4)[k] = s[k]
    BY <1>2, <2>3
  <2>5. From(p, 13, 4) = s
    BY <2>1, <2>3, <2>4, SameBytes
  <2> QED
    BY <2>5 DEF Source
<1>9. Destination(p) = d
  <2>1. d \in Seq(Byte) /\ Len(d) = 4
    BY AddressBytes
  <2>2. Cuts(From(p, 17, 4), p, 17, 4)
    BY <1>1, <1>4, CutOut
  <2>3. /\ From(p, 17, 4) \in Seq(Byte) /\ Len(From(p, 17, 4)) = 4
        /\ \A k \in 1..4 : From(p, 17, 4)[k] = p[16 + k]
    BY <2>2 DEF Cuts
  <2>4. \A k \in 1..4 : From(p, 17, 4)[k] = d[k]
    BY <1>2, <2>3
  <2>5. From(p, 17, 4) = d
    BY <2>1, <2>3, <2>4, SameBytes
  <2> QED
    BY <2>5 DEF Destination
<1>10. IPPayload(p) = m
  <2>1. Cuts(From(p, 21, n), p, 21, n)
    BY <1>1, <1>4, CutOut
  <2>2. /\ From(p, 21, n) \in Seq(Byte) /\ Len(From(p, 21, n)) = n
        /\ \A k \in 1..n : From(p, 21, n)[k] = p[20 + k]
    BY <2>1 DEF Cuts
  <2>3. From(p, 21, n) = m
    BY <1>2, <1>4, <2>2, SameBytes
  <2>4. 20 + 1 = 21 /\ 21 + n - 1 = 20 + n
    OBVIOUS
  <2> QED
    BY <1>5, <1>6, <2>3, <2>4, Zenon DEF IPPayload, From
<1>11. Checksum(From(p, 1, 20)) = 0
  <2>1. Cuts(From(p, 1, 20), p, 1, 20)
    BY <1>1, <1>4, CutOut
  <2>2. PICK c \in Seq(Byte) :
          c = From(p, 1, 20) /\ Len(c) = 20 /\ \A k \in 1..20 : c[k] = p[k]
    BY <2>1 DEF Cuts
  <2>3. \A k \in 1..20 : c[k] = h[k]
    BY <1>3, <2>2
  <2>4. h \in Seq(Byte) /\ Len(h) = 20
    BY <1>3
  <2>5. c = h
    <3>1. Alike(c, h, 20)
      BY <2>2, <2>3, <2>4 DEF Alike
    <3> QED
      BY <3>1, SameText, Zenon
  <2> QED
    BY <1>3, <2>2, <2>5
<1>12. From(p, 1, TotalLen(p)) = p
  <2>1. Cuts(From(p, 1, 20 + n), p, 1, 20 + n)
    BY <1>1, <1>4, CutOut
  <2>2. /\ From(p, 1, 20 + n) \in Seq(Byte) /\ Len(From(p, 1, 20 + n)) = 20 + n
        /\ \A k \in 1..(20 + n) : From(p, 1, 20 + n)[k] = p[k]
    BY <2>1 DEF Cuts
  <2> QED
    BY <1>1, <1>4, <1>6, <2>2, SameBytes
<1> QED
  BY <1>1, <1>4, <1>5, <1>6, <1>7, <1>8, <1>9, <1>10, <1>11, <1>12

-----------------------------------------------------------------------------
(* What a packet may become on its way.                                    *)

(* The first n bytes of two packets are the same.                          *)
SameUpTo(g, f, n) == \A j \in 1..n : g[j] = f[j]

OneByteOff(g, f) ==
  /\ Len(g) = Len(f)
  /\ \E i \in 1..Len(f) : g[i] # f[i] /\ \A j \in 1..Len(f) : j # i => g[j] = f[j]

CutShort(g, f)   == Len(g) < Len(f) /\ SameUpTo(g, f, Len(g))
Lengthened(g, f) == Len(g) > Len(f) /\ SameUpTo(g, f, Len(f))

(* Its header is one word longer.                                          *)
MoreHeader(g, f) ==
  /\ Len(g) >= 20 /\ g[1] = f[1] + 1 /\ g[2] = 0 /\ Word(g, 3) = Len(f) + 4
  /\ \A j \in 5..20 : g[j] = f[j]

LEMMA MoreHeaderBytes ==
  ASSUME NEW f \in Seq(Byte), Len(f) >= 20, f[1] = 69, NEW n \in Uint16, n = Len(f) + 4
  PROVE  Widened(f, n) \in Seq(Byte) /\ MoreHeader(Widened(f, n), f)
<1> DEFINE g == Widened(f, n)
<1> HIDE DEF g
<1>0. PICK k \in Nat : k = Len(f) /\ k >= 20
  OBVIOUS
<1>1. PICK a \in Seq(Byte) : a = BytesOf(n) /\ Len(a) = 2 /\ 256 * a[1] + a[2] = n
  BY WordOfBytes
<1>2. PICK x \in Seq(Byte) : x = <<f[1] + 1, 0>> /\ Len(x) = 2 /\ x[1] = 70 /\ x[2] = 0
  <2>1. 0 \in Byte /\ 70 \in Byte
    BY ByteBounds
  <2>2. <<70, 0>> \in Seq(Byte)
    BY <2>1
  <2>3. f[1] + 1 = 70
    OBVIOUS
  <2>4. <<70, 0>> = <<f[1] + 1, 0>>
    BY <2>3
  <2> QED
    BY <2>2, <2>4
<1>3. PICK y \in Seq(Byte) :
        y = SubSeq(f, 5, 20) /\ Len(y) = 16 /\ \A i \in 1..16 : y[i] = f[4 + i]
  <2>1. Cuts(From(f, 5, 16), f, 5, 16)
    BY <1>0, CutOut
  <2>2. 5 + 16 - 1 = 20
    OBVIOUS
  <2>3. From(f, 5, 16) = SubSeq(f, 5, 20)
    BY <2>2, Zenon DEF From
  <2>4. /\ From(f, 5, 16) \in Seq(Byte) /\ Len(From(f, 5, 16)) = 16
        /\ \A i \in 1..16 : From(f, 5, 16)[i] = f[4 + i]
    BY <2>1 DEF Cuts
  <2> QED
    BY <2>3, <2>4, Zenon
<1>4. PICK z \in Seq(Byte) : z = <<1, 1, 1, 1>>
  <2>1. 1 \in Byte
    BY ByteBounds
  <2>2. <<1, 1, 1, 1>> \in Seq(Byte)
    BY <2>1
  <2> QED
    BY <2>2
<1>5. PICK u \in Seq(Byte) : u = SubSeq(f, 21, Len(f))
  <2>1. PICK r \in Nat : r = k - 20 /\ 21 - 1 + r <= Len(f) /\ 21 + r - 1 = k
    <3>1. k - 20 \in Nat /\ 21 - 1 + (k - 20) <= k /\ 21 + (k - 20) - 1 = k
      BY <1>0
    <3> QED
      BY <1>0, <3>1
  <2>2. Cuts(From(f, 21, r), f, 21, r)
    BY <2>1, CutOut
  <2>3. From(f, 21, r) = SubSeq(f, 21, Len(f))
    BY <1>0, <2>1, Zenon DEF From
  <2> QED
    BY <2>2, <2>3 DEF Cuts
<1>6. PICK c1 \in Seq(Byte) : c1 = x \o a /\ Joins(c1, x, a)
  <2>1. Joins(x \o a, x, a)
    BY Joined
  <2> QED
    BY <2>1 DEF Joins
<1>7. PICK c2 \in Seq(Byte) : c2 = c1 \o y /\ Joins(c2, c1, y)
  <2>1. Joins(c1 \o y, c1, y)
    BY Joined
  <2> QED
    BY <2>1 DEF Joins
<1>8. PICK c3 \in Seq(Byte) : c3 = c2 \o z /\ Joins(c3, c2, z)
  <2>1. Joins(c2 \o z, c2, z)
    BY Joined
  <2> QED
    BY <2>1 DEF Joins
<1>9. g = c3 \o u
  BY <1>1, <1>2, <1>3, <1>4, <1>5, <1>6, <1>7, <1>8, Zenon DEF Widened, g
<1>10. Joins(g, c3, u)
  BY <1>9, Joined
<1>11. /\ Len(c1) = 4 /\ (\A i \in 1..2 : c1[i] = x[i])
       /\ (\A i \in 1..2 : c1[2 + i] = a[i])
  <2>1. Len(c1) = Len(x) + Len(a)
    BY <1>6 DEF Joins
  <2>2. \A i \in 1..2 : c1[i] = x[i]
    BY <1>2, <1>6 DEF Joins
  <2>3. \A i \in 1..2 : c1[2 + i] = a[i]
    BY <1>1, <1>2, <1>6 DEF Joins
  <2> QED
    BY <1>1, <1>2, <2>1, <2>2, <2>3
<1>12. /\ Len(c2) = 20 /\ (\A i \in 1..4 : c2[i] = c1[i])
       /\ (\A i \in 1..16 : c2[4 + i] = y[i])
  <2>1. Len(c2) = Len(c1) + Len(y)
    BY <1>7 DEF Joins
  <2>2. \A i \in 1..4 : c2[i] = c1[i]
    BY <1>7, <1>11 DEF Joins
  <2>3. \A i \in 1..16 : c2[4 + i] = y[i]
    BY <1>3, <1>7, <1>11 DEF Joins
  <2> QED
    BY <1>3, <1>11, <2>1, <2>2, <2>3
<1>13. g \in Seq(Byte) /\ Len(g) >= 20 /\ \A i \in 1..20 : g[i] = c2[i]
  <2>1. PICK l3 \in Nat, l4 \in Nat, l5 \in Nat, l6 \in Nat :
          l3 = Len(c3) /\ l4 = Len(z) /\ l5 = Len(u) /\ l6 = Len(g)
    <3>1. g \in Seq(Byte)
      BY <1>10 DEF Joins
    <3> QED
      BY <3>1
  <2>2. l3 = 20 + l4
    BY <1>8, <1>12, <2>1 DEF Joins
  <2>3. l6 = l3 + l5
    BY <1>10, <2>1 DEF Joins
  <2>4. \A i \in 1..20 : c3[i] = c2[i]
    BY <1>8, <1>12 DEF Joins
  <2>5. \A i \in 1..l3 : g[i] = c3[i]
    BY <1>10, <2>1 DEF Joins
  <2>6. g \in Seq(Byte)
    BY <1>10 DEF Joins
  <2>7. l6 >= 20 /\ \A i \in 1..20 : i \in 1..l3
    BY <2>2, <2>3
  <2>8. \A i \in 1..20 : g[i] = c2[i]
    BY <2>4, <2>5, <2>7
  <2> QED
    BY <2>1, <2>6, <2>7, <2>8
<1>14. c1[1] = 70 /\ c1[2] = 0 /\ c1[2 + 1] = a[1] /\ c1[2 + 2] = a[2]
  BY <1>2, <1>11
<1>15. g[1] = c1[1] /\ g[2] = c1[2] /\ g[3] = c1[2 + 1] /\ g[4] = c1[2 + 2]
  <2>1. g[1] = c2[1] /\ g[2] = c2[2] /\ g[3] = c2[3] /\ g[4] = c2[4]
    <3>1. \A i \in 1..20 : g[i] = c2[i]
      BY <1>13
    <3> QED
      BY <3>1
  <2>2. c2[1] = c1[1] /\ c2[2] = c1[2] /\ c2[3] = c1[3] /\ c2[4] = c1[4]
    BY <1>12
  <2>3. 2 + 1 = 3 /\ 2 + 2 = 4
    OBVIOUS
  <2> QED
    BY <2>1, <2>2, <2>3, Zenon
<1>16. Word(g, 3) = n
  <2>1. g[3] = a[1] /\ g[3 + 1] = a[2]
    <3>1. 3 + 1 = 4
      OBVIOUS
    <3> QED
      BY <1>14, <1>15, <3>1, Zenon
  <2> QED
    BY <1>1, <2>1, Zenon DEF Word
<1>17. ASSUME NEW j \in 5..20 PROVE g[j] = f[j]
  <2>1. PICK i \in 1..16 : j = 4 + i
    <3>1. j - 4 \in 1..16 /\ j = 4 + (j - 4)
      OBVIOUS
    <3> QED
      BY <3>1
  <2>2. j \in 1..20
    OBVIOUS
  <2>3. g[j] = c2[4 + i]
    BY <1>13, <2>1, <2>2
  <2>4. c2[4 + i] = y[i]
    BY <1>12
  <2>5. y[i] = f[4 + i]
    BY <1>3
  <2> QED
    BY <2>1, <2>3, <2>4, <2>5, Zenon
<1>18. g[1] = f[1] + 1 /\ g[2] = 0
  <2>1. f[1] + 1 = 70
    OBVIOUS
  <2> QED
    BY <1>14, <1>15, <2>1, Zenon
<1> QED
  BY <1>13, <1>16, <1>17, <1>18 DEF MoreHeader, g

LEMMA NearCases ==
  ASSUME NEW f \in Seq(Byte), Len(f) >= 28, f[1] = 69, NEW g \in Near(f)
  PROVE  /\ g \in Seq(Byte)
         /\ OneByteOff(g, f) \/ CutShort(g, f) \/ Lengthened(g, f) \/ MoreHeader(g, f)
<1>0. PICK k \in Nat : k = Len(f) /\ k >= 28
  OBVIOUS
<1>1. CASE \E i \in DOMAIN f, d \in Offsets : g = [f EXCEPT ![i] = (@ + d) % 256]
  <2>1. PICK i \in 1..Len(f), d \in Offsets : g = [f EXCEPT ![i] = (@ + d) % 256]
    <3>1. DOMAIN f = 1..Len(f)
      OBVIOUS
    <3> QED
      BY <1>1, <3>1
  <2>2. PICK b \in Nat, e \in Nat : b = f[i] /\ e = d /\ b <= 255 /\ e >= 1 /\ e <= 255
    <3>1. d \in Byte /\ d # 0
      BY OffsetsAssumption
    <3>2. d \in Nat /\ d <= 255 /\ d >= 1
      BY <3>1, ByteBounds
    <3> QED
      BY <3>2, BytesAreNumbers
  <2>3. PICK c \in Nat : c = (b + e) % 256 /\ c # b /\ c <= 255
    <3>1. (b + e) % 256 \in Nat /\ (b + e) % 256 <= 255 /\ (b + e) % 256 # b
      BY <2>2
    <3> QED
      BY <3>1
  <2>4. c \in Byte /\ g = [f EXCEPT ![i] = c]
    BY <2>1, <2>2, <2>3, ByteBounds
  <2>5. /\ g \in Seq(Byte) /\ Len(g) = Len(f) /\ g[i] = c
        /\ \A j \in 1..Len(f) : j # i => g[j] = f[j]
    <3>1. g \in Seq(Byte) /\ Len(g) = Len(f)
      BY <2>4, ExceptSeq
    <3> QED
      BY <2>4, <3>1
  <2>6. g[i] # f[i]
    BY <2>2, <2>3, <2>5
  <2> QED
    BY <2>5, <2>6 DEF OneByteOff
<1>2. CASE \E n \in {0, 4, 19, 20, Len(f) - 1} : g = SubSeq(f, 1, n)
  <2>1. PICK n \in Nat : g = SubSeq(f, 1, n) /\ n < k
    BY <1>0, <1>2
  <2>2. Cuts(From(f, 1, n), f, 1, n)
    BY <1>0, <2>1, CutOut
  <2>3. 1 + n - 1 = n
    OBVIOUS
  <2>4. From(f, 1, n) = g
    BY <2>1, <2>3, Zenon DEF From
  <2>5. g \in Seq(Byte) /\ Len(g) = n /\ \A j \in 1..n : g[j] = f[j]
    BY <2>2, <2>4 DEF Cuts
  <2> QED
    BY <1>0, <2>1, <2>5 DEF CutShort, SameUpTo
<1>3. CASE g = Append(f, 1)
  <2>1. 1 \in Byte
    BY ByteBounds
  <2>2. g \in Seq(Byte) /\ Len(g) = Len(f) + 1 /\ \A j \in 1..Len(f) : g[j] = f[j]
    BY <1>3, <2>1, AppendProperties
  <2> QED
    BY <1>0, <2>2 DEF Lengthened, SameUpTo
<1>4. CASE \E n \in {Len(f) + 4} \cap Uint16 :
             g = Widened(f, n)
  <2>1. PICK n \in Uint16 :
          n = Len(f) + 4 /\ g = Widened(f, n)
    BY <1>4, Zenon
  <2>2. Len(f) >= 20
    BY <1>0
  <2> QED
    BY <2>1, <2>2, MoreHeaderBytes
<1> QED
  <2>1. \/ g \in {[f EXCEPT ![i] = (@ + d) % 256] : i \in DOMAIN f, d \in Offsets}
        \/ g \in {SubSeq(f, 1, n) : n \in {0, 4, 19, 20, Len(f) - 1}}
        \/ g \in {Append(f, 1)}
        \/ g \in {Widened(f, n) : n \in {Len(f) + 4} \cap Uint16}
    BY DEF Near
  <2>2. CASE g \in {[f EXCEPT ![i] = (@ + d) % 256] : i \in DOMAIN f, d \in Offsets}
    BY <1>1, <2>2
  <2>3. CASE g \in {SubSeq(f, 1, n) : n \in {0, 4, 19, 20, Len(f) - 1}}
    BY <1>2, <2>3
  <2>4. CASE g \in {Append(f, 1)}
    BY <1>3, <2>4
  <2>5. CASE g \in {Widened(f, n) : n \in {Len(f) + 4} \cap Uint16}
    BY <1>4, <2>5
  <2> QED
    BY <2>1, <2>2, <2>3, <2>4, <2>5

LEMMA FirstWords ==
  ASSUME NEW f \in Seq(Byte), Len(f) >= 4
  PROVE  WordSums(f)[4] = Word(f, 1) + Word(f, 3)
<1> DEFINE F == WordSums(f)
<1>1. PICK a \in Nat, b \in Nat, c \in Nat, d \in Nat :
        a = f[1] /\ b = f[2] /\ c = f[3] /\ d = f[4]
  <2>1. 1 \in 1..Len(f) /\ 2 \in 1..Len(f) /\ 3 \in 1..Len(f) /\ 4 \in 1..Len(f)
    OBVIOUS
  <2>2. f[1] \in Nat /\ f[2] \in Nat /\ f[3] \in Nat /\ f[4] \in Nat
    BY <2>1, BytesAreNumbers
  <2> QED
    BY <2>2
<1>2. /\ F[0] = 0 /\ F[1] = F[1 - 1] + Weighted(f, 1) /\ F[2] = F[2 - 1] + Weighted(f, 2)
      /\ F[3] = F[3 - 1] + Weighted(f, 3) /\ F[4] = F[4 - 1] + Weighted(f, 4)
  <2>1. 1 \in 1..Len(f) /\ 2 \in 1..Len(f) /\ 3 \in 1..Len(f) /\ 4 \in 1..Len(f)
    OBVIOUS
  <2> QED
    BY <2>1, WordSumsDef
<1> HIDE DEF F
<1>3. /\ Weighted(f, 1) = 256 * a /\ Weighted(f, 2) = b
      /\ Weighted(f, 3) = 256 * c /\ Weighted(f, 4) = d
  BY <1>1 DEF Weighted
<1>4. F[1] = 0 + 256 * a /\ F[2] = F[1] + b /\ F[3] = F[2] + 256 * c /\ F[4] = F[3] + d
  <2>1. 1 - 1 = 0 /\ 2 - 1 = 1 /\ 3 - 1 = 2 /\ 4 - 1 = 3
    OBVIOUS
  <2> QED
    BY <1>2, <1>3, <2>1, Zenon
<1>5. F[4] = 0 + 256 * a + b + 256 * c + d
  <2>1. F[2] = 0 + 256 * a + b
    BY <1>4, Zenon
  <2>2. F[3] = 0 + 256 * a + b + 256 * c
    BY <1>4, <2>1, Zenon
  <2> QED
    BY <1>4, <2>2, Zenon
<1>6. Word(f, 1) = 256 * a + b /\ Word(f, 3) = 256 * c + d
  BY <1>1 DEF Word
<1>7. F[4] = (256 * a + b) + (256 * c + d)
  BY <1>5
<1> QED
  BY <1>6, <1>7, Zenon DEF F

(* The header of a packet that is one word longer, and its own.            *)
GrownHeader(g, f, n) ==
  /\ Len(f) = 20 /\ f[1] = 69 /\ f[2] = 0 /\ Word(f, 3) = n
  /\ Len(g) = 20 /\ g[1] = 70 /\ g[2] = 0 /\ Word(g, 3) = n + 4
  /\ \A j \in 5..20 : g[j] = f[j]

LEMMA HeaderGrows ==
  ASSUME NEW f \in Seq(Byte), NEW g \in Seq(Byte), NEW n \in Nat, GrownHeader(g, f, n)
  PROVE  WordSum(g) = WordSum(f) + 260
<1>0. /\ Len(f) = 20 /\ f[1] = 69 /\ f[2] = 0 /\ Word(f, 3) = n
      /\ Len(g) = 20 /\ g[1] = 70 /\ g[2] = 0 /\ Word(g, 3) = n + 4
      /\ \A j \in 5..20 : g[j] = f[j]
  BY DEF GrownHeader
<1>1. Word(f, 1) = 256 * 69 + 0 /\ Word(g, 1) = 256 * 70 + 0
  <2>1. f[1 + 1] = 0 /\ g[1 + 1] = 0
    BY <1>0
  <2> QED
    BY <1>0, <2>1, Zenon DEF Word
<1>2. WordSums(f)[4] = 256 * 69 + 0 + n /\ WordSums(g)[4] = 256 * 70 + 0 + (n + 4)
  <2>1. Len(f) >= 4 /\ Len(g) >= 4
    BY <1>0
  <2>2. WordSums(f)[4] = Word(f, 1) + Word(f, 3)
    BY <2>1, FirstWords
  <2>3. WordSums(g)[4] = Word(g, 1) + Word(g, 3)
    BY <2>1, FirstWords
  <2> QED
    BY <1>0, <1>1, <2>2, <2>3, Zenon
<1>3. WordSums(g)[20] + WordSums(f)[4] = WordSums(f)[20] + WordSums(g)[4]
  <2>1. ASSUME NEW i \in (4 + 1)..20 PROVE f[i] = g[i]
    <3>1. i \in 5..20
      OBVIOUS
    <3> QED
      BY <1>0, <3>1, Zenon
  <2>2. 4 \in Nat /\ 20 \in Nat /\ 4 <= 20 /\ 20 <= Len(f) /\ 20 <= Len(g)
    BY <1>0
  <2> QED
    BY <2>1, <2>2, SumsGrowAlike
<1>4. PICK x \in Nat, y \in Nat : x = WordSum(f) /\ y = WordSum(g)
  <2>1. WordSum(f) \in Nat
    BY ChecksumZero
  <2>2. WordSum(g) \in Nat
    BY ChecksumZero
  <2> QED
    BY <2>1, <2>2
<1>5. x = WordSums(f)[20] /\ y = WordSums(g)[20]
  BY <1>0, <1>4 DEF WordSum
<1>6. y + (256 * 69 + 0 + n) = x + (256 * 70 + 0 + (n + 4))
  BY <1>2, <1>3, <1>5, Zenon
<1>7. y = x + 260
  BY <1>6
<1> QED
  BY <1>4, <1>7

(* A packet that has become another one on its way and whose checksums are *)
(* right still holds what has been built.                                  *)
THEOREM ChecksumsDetect ==
  ASSUME NEW s \in Addresses, NEW d \in Addresses,
         NEW m \in Seq(Byte), Len(m) >= 8, Checksum(m) = 0,
         NEW p, Around(p, s, d, m), NEW g \in Near(p),
         IsIPv4ICMP(g), Checksum(From(g, 1, 20)) = 0, Checksum(IPPayload(g)) = 0
  PROVE  From(g, 1, TotalLen(g)) = p
<1>1. /\ p \in Seq(Byte) /\ TotalLen(p) = Len(p) /\ Len(p) = 20 + Len(m)
      /\ IPPayload(p) = m /\ Checksum(From(p, 1, 20)) = 0
  BY BuiltIsParsed
<1>2. p[1] = 69 /\ p[2] = 0
  BY DEF Around
<1>3. PICK n \in Nat : n = Len(m) /\ n >= 8 /\ Len(p) = 20 + n
  BY <1>1
<1>4. /\ g \in Seq(Byte)
      /\ OneByteOff(g, p) \/ CutShort(g, p) \/ Lengthened(g, p) \/ MoreHeader(g, p)
  BY <1>1, <1>2, <1>3, NearCases
<1>5. PICK l \in Nat : l = Len(g) /\ l >= 20 /\ TotalLen(g) <= l
  BY <1>4 DEF IsIPv4ICMP, HeaderMin
<1>6. PICK h \in Seq(Byte) :
        Len(h) = 20 /\ Checksum(h) = 0 /\ \A j \in 1..20 : h[j] = p[j]
  <2>1. Cuts(From(p, 1, 20), p, 1, 20)
    BY <1>1, <1>3, CutOut
  <2>2. /\ From(p, 1, 20) \in Seq(Byte) /\ Len(From(p, 1, 20)) = 20
        /\ \A j \in 1..20 : From(p, 1, 20)[j] = p[j]
    BY <2>1 DEF Cuts
  <2> QED
    BY <1>1, <2>2
<1>7. PICK k \in Seq(Byte) :
        Len(k) = 20 /\ Checksum(k) = 0 /\ \A j \in 1..20 : k[j] = g[j]
  <2>1. Cuts(From(g, 1, 20), g, 1, 20)
    BY <1>4, <1>5, CutOut
  <2>2. /\ From(g, 1, 20) \in Seq(Byte) /\ Len(From(g, 1, 20)) = 20
        /\ \A j \in 1..20 : From(g, 1, 20)[j] = g[j]
    BY <2>1 DEF Cuts
  <2> QED
    BY <2>2
<1>8. ASSUME \A j \in 3..4 : g[j] = p[j] PROVE TotalLen(g) = 20 + n
  <2>1. g[3] = p[3] /\ g[3 + 1] = p[3 + 1]
    BY <1>8
  <2>2. Word(g, 3) = Word(p, 3)
    BY <2>1, Zenon DEF Word
  <2> QED
    BY <1>1, <1>3, <2>2 DEF TotalLen
<1>9. CASE OneByteOff(g, p)
  <2>1. PICK i \in 1..Len(p) : g[i] # p[i] /\ \A j \in 1..Len(p) : j # i => g[j] = p[j]
    BY <1>9 DEF OneByteOff
  <2>2. CASE i <= 20
    <3>1. i \in 1..20 /\ \A j \in 1..20 : j \in 1..Len(p)
      BY <1>3, <2>2
    <3>2. k[i] # h[i] /\ \A j \in 1..20 : j # i => k[j] = h[j]
      BY <1>6, <1>7, <2>1, <3>1
    <3>3. /\ i \in 1..Len(h) /\ Len(k) = Len(h)
          /\ \A j \in 1..Len(h) : j # i => k[j] = h[j]
      BY <1>6, <1>7, <3>1, <3>2
    <3>4. ~ (Checksum(h) = 0 /\ Checksum(k) = 0)
      BY <3>2, <3>3, OneByteDetected
    <3> QED
      BY <1>6, <1>7, <3>4
  <2>3. CASE i > 20
    <3>1. \A j \in 3..4 : g[j] = p[j]
      BY <1>3, <2>1, <2>3
    <3>2. TotalLen(g) = 20 + n
      BY <1>8, <3>1
    <3>3. g[1] = 69
      BY <1>2, <1>3, <2>1, <2>3
    <3>4. HeaderLen(g) = 20
      BY <3>3 DEF HeaderLen
    <3>5. l = 20 + n
      BY <1>3, <1>5, <1>9 DEF OneByteOff
    <3>6. PICK c \in Seq(Byte) :
            c = From(g, 21, n) /\ Len(c) = n /\ \A j \in 1..n : c[j] = g[20 + j]
      <4>0. 21 \in Nat /\ 21 >= 1 /\ 21 - 1 + n <= Len(g)
        BY <1>5, <3>5
      <4>1. Cuts(From(g, 21, n), g, 21, n)
        BY <1>4, <4>0, CutOut
      <4>2. /\ From(g, 21, n) \in Seq(Byte) /\ Len(From(g, 21, n)) = n
            /\ \A j \in 1..n : From(g, 21, n)[j] = g[20 + j]
        BY <4>1 DEF Cuts
      <4> QED
        BY <4>2
    <3>7. IPPayload(g) = c
      <4>1. 20 + 1 = 21 /\ 21 + n - 1 = 20 + n
        OBVIOUS
      <4> QED
        BY <3>2, <3>4, <3>6, <4>1, Zenon DEF IPPayload, From
    <3>8. PICK e \in 1..n : i = 20 + e
      <4>1. i - 20 \in 1..n /\ i = 20 + (i - 20)
        BY <1>3, <2>3
      <4> QED
        BY <4>1
    <3>9. \A j \in 1..n : m[j] = p[20 + j]
      BY <1>3 DEF Around
    <3>10. c[e] # m[e]
      BY <2>1, <3>6, <3>8, <3>9
    <3>11. ASSUME NEW j \in 1..n, j # e PROVE c[j] = m[j]
      <4>1. 20 + j \in 1..Len(p) /\ 20 + j # i
        BY <1>3, <3>8, <3>11
      <4>2. g[20 + j] = p[20 + j]
        BY <2>1, <4>1
      <4> QED
        BY <3>6, <3>9, <4>2
    <3> QED
      BY <1>3, <3>6, <3>7, <3>8, <3>10, <3>11, OneByteDetected
  <2> QED
    BY <1>3, <2>2, <2>3
<1>10. CASE CutShort(g, p)
  <2>1. l < 20 + n /\ \A j \in 1..l : g[j] = p[j]
    BY <1>3, <1>5, <1>10 DEF CutShort, SameUpTo
  <2>2. \A j \in 3..4 : g[j] = p[j]
    BY <1>5, <2>1
  <2> QED
    BY <1>5, <1>8, <2>1, <2>2
<1>11. CASE Lengthened(g, p)
  <2>1. l > 20 + n /\ \A j \in 1..(20 + n) : g[j] = p[j]
    BY <1>3, <1>5, <1>11 DEF Lengthened, SameUpTo
  <2>2. TotalLen(g) = 20 + n
    BY <1>8, <2>1
  <2>3. Cuts(From(g, 1, 20 + n), g, 1, 20 + n)
    BY <1>4, <1>5, <2>1, CutOut
  <2>4. /\ From(g, 1, 20 + n) \in Seq(Byte) /\ Len(From(g, 1, 20 + n)) = 20 + n
        /\ \A j \in 1..(20 + n) : From(g, 1, 20 + n)[j] = g[j]
    BY <2>3 DEF Cuts
  <2>5. From(g, 1, 20 + n) = p
    <3>1. Alike(From(g, 1, 20 + n), p, 20 + n)
      BY <1>1, <1>3, <2>1, <2>4 DEF Alike
    <3> QED
      BY <3>1, SameText, Zenon
  <2> QED
    BY <2>2, <2>5
<1>12. CASE MoreHeader(g, p)
  <2>1. /\ h[1] = 69 /\ h[2] = 0 /\ k[1] = 70 /\ k[2] = 0
    <3>1. p[1] + 1 = 70
      BY <1>2
    <3>2. g[1] = 70 /\ g[2] = 0
      BY <1>12, <3>1 DEF MoreHeader
    <3>3. h[1] = p[1] /\ h[2] = p[2] /\ k[1] = g[1] /\ k[2] = g[2]
      BY <1>6, <1>7
    <3> QED
      BY <1>2, <3>2, <3>3
  <2>2. Word(h, 3) = 20 + n /\ Word(k, 3) = (20 + n) + 4
    <3>1. h[3] = p[3] /\ h[3 + 1] = p[3 + 1] /\ k[3] = g[3] /\ k[3 + 1] = g[3 + 1]
      BY <1>6, <1>7
    <3>2. Word(h, 3) = Word(p, 3) /\ Word(k, 3) = Word(g, 3)
      BY <3>1, Zenon DEF Word
    <3>3. Word(g, 3) = (20 + n) + 4
      BY <1>3, <1>12 DEF MoreHeader
    <3> QED
      BY <1>1, <1>3, <3>2, <3>3 DEF TotalLen
  <2>3. ASSUME NEW j \in 5..20 PROVE k[j] = h[j]
    <3>1. j \in 1..20
      OBVIOUS
    <3>2. g[j] = p[j]
      BY <1>12 DEF MoreHeader
    <3> QED
      BY <1>6, <1>7, <3>1, <3>2
  <2>4. WordSum(k) = WordSum(h) + 260
    <3>1. PICK t \in Nat : t = 20 + n
      OBVIOUS
    <3>2. Word(h, 3) = t /\ Word(k, 3) = t + 4
      BY <2>2, <3>1
    <3>3. Len(h) = 20 /\ Len(k) = 20
      BY <1>6, <1>7
    <3>4. \A j \in 5..20 : k[j] = h[j]
      BY <2>3
    <3>5. GrownHeader(k, h, t)
      BY <2>1, <3>2, <3>3, <3>4 DEF GrownHeader
    <3> QED
      BY <3>5, HeaderGrows
  <2>5. 260 \in Nat /\ 260 >= 1 /\ 260 < 65535
    OBVIOUS
  <2>6. ~ (Checksum(h) = 0 /\ Checksum(k) = 0)
    BY <2>4, <2>5, SmallDifference
  <2> QED
    BY <1>6, <1>7, <2>6, Zenon
<1> QED
  BY <1>4, <1>9, <1>10, <1>11, <1>12

-----------------------------------------------------------------------------
(* What another program may have built.                                    *)

LEMMA Spliced ==
  ASSUME NEW a \in Seq(Byte), NEW b \in Seq(Byte)
  PROVE  a \o b \in Seq(Byte) /\ Len(a \o b) = Len(a) + Len(b)
BY ConcatProperties

LEMMA Zeroed ==
  ASSUME NEW f \in Seq(Byte), NEW a \in Nat, NEW b \in Nat, NEW v \in Byte,
         a >= 1, b = a + 1, b <= Len(f)
  PROVE  /\ [f EXCEPT ![a] = v, ![b] = v] \in Seq(Byte)
         /\ Len([f EXCEPT ![a] = v, ![b] = v]) = Len(f)
         /\ [f EXCEPT ![a] = v, ![b] = v][a] = v
         /\ [f EXCEPT ![a] = v, ![b] = v][b] = v
<1>1. a \in 1..Len(f) /\ b \in 1..Len(f) /\ a # b
  OBVIOUS
<1> DEFINE h == [f EXCEPT ![a] = v]
           g == [h EXCEPT ![b] = v]
<1>2. /\ h \in Seq(Byte) /\ Len(h) = Len(f)
      /\ \A j \in 1..Len(f) : h[j] = IF j = a THEN v ELSE f[j]
  BY <1>1, ExceptSeq
<1>3. [f EXCEPT ![a] = v, ![b] = v] = g
  OBVIOUS
<1> HIDE DEF h
<1>4. /\ g \in Seq(Byte) /\ Len(g) = Len(f)
      /\ \A j \in 1..Len(f) : g[j] = IF j = b THEN v ELSE h[j]
  BY <1>1, <1>2, ExceptSeq
<1> HIDE DEF g
<1>5. g[a] = v /\ g[b] = v
  BY <1>1, <1>2, <1>4
<1> QED
  BY <1>3, <1>4, <1>5

LEMMA ResummedTyped ==
  ASSUME NEW g \in Seq(Byte), Len(g) >= 24
  PROVE  Resummed(g) \in Seq(Byte)
<1>1. PICK k \in Nat : Len(g) = 24 + k
  <2>1. Len(g) - 24 \in Nat /\ Len(g) = 24 + (Len(g) - 24)
    OBVIOUS
  <2> QED
    BY <2>1
<1>2. PICK x \in Seq(Byte) : x = SubSeq(g, 1, 20) /\ Len(x) = 20
  <2>1. Cuts(From(g, 1, 20), g, 1, 20)
    BY <1>1, CutOut
  <2>2. 1 + 20 - 1 = 20
    OBVIOUS
  <2>3. From(g, 1, 20) = SubSeq(g, 1, 20)
    BY <2>2, Zenon DEF From
  <2> QED
    BY <2>1, <2>3 DEF Cuts
<1>3. PICK y \in Seq(Byte) : y = SubSeq(g, 21, Len(g)) /\ Len(y) = 4 + k
  <2>1. Cuts(From(g, 21, 4 + k), g, 21, 4 + k)
    BY <1>1, CutOut
  <2>2. 21 + (4 + k) - 1 = 24 + k
    OBVIOUS
  <2>3. From(g, 21, 4 + k) = SubSeq(g, 21, Len(g))
    BY <1>1, <2>2, Zenon DEF From
  <2> QED
    BY <2>1, <2>3 DEF Cuts
<1>4. 0 \in Byte
  BY ByteBounds
<1>5. PICK u \in Seq(Byte) :
        /\ u = [x EXCEPT ![11] = 0, ![12] = 0] /\ Len(u) = 20
        /\ u[11] = 0 /\ u[11 + 1] = 0
  <2> DEFINE z == [x EXCEPT ![11] = 0, ![12] = 0]
  <2>1. 11 \in Nat /\ 12 \in Nat /\ 11 >= 1 /\ 12 = 11 + 1 /\ 12 <= Len(x)
    BY <1>2
  <2>2. z \in Seq(Byte) /\ Len(z) = Len(x) /\ z[11] = 0 /\ z[12] = 0
    BY <1>4, <2>1, Zeroed
  <2> HIDE DEF z
  <2>3. z[11 + 1] = 0
    BY <2>2
  <2>4. z = [x EXCEPT ![11] = 0, ![12] = 0]
    BY DEF z
  <2>5. Len(z) = 20
    BY <1>2, <2>2
  <2> QED
    BY <2>2, <2>3, <2>4, <2>5, Zenon
<1>6. PICK w \in Seq(Byte) :
        /\ w = [y EXCEPT ![3] = 0, ![4] = 0] /\ Len(w) = 4 + k
        /\ w[3] = 0 /\ w[3 + 1] = 0
  <2> DEFINE z == [y EXCEPT ![3] = 0, ![4] = 0]
  <2>1. 3 \in Nat /\ 4 \in Nat /\ 3 >= 1 /\ 4 = 3 + 1 /\ 4 <= Len(y)
    BY <1>3
  <2>2. z \in Seq(Byte) /\ Len(z) = Len(y) /\ z[3] = 0 /\ z[4] = 0
    BY <1>4, <2>1, Zeroed
  <2> HIDE DEF z
  <2>3. z[3 + 1] = 0
    BY <2>2
  <2>4. z = [y EXCEPT ![3] = 0, ![4] = 0]
    BY DEF z
  <2>5. Len(z) = 4 + k
    BY <1>3, <2>2
  <2> QED
    BY <2>2, <2>3, <2>4, <2>5, Zenon
<1>7. Summed(u, 11) \in Seq(Byte)
  <2>1. 11 \in Nat /\ 11 % 2 = 1 /\ 11 + 1 <= Len(u)
    BY <1>5
  <2> QED
    BY <1>5, <2>1, SummedProperties
<1>8. Summed(w, 3) \in Seq(Byte)
  <2>1. 3 \in Nat /\ 3 % 2 = 1 /\ 3 + 1 <= Len(w)
    BY <1>6
  <2> QED
    BY <1>6, <2>1, SummedProperties
<1>9. Resummed(g) = Summed(u, 11) \o Summed(w, 3)
  BY <1>2, <1>3, <1>5, <1>6, Zenon DEF Resummed
<1> QED
  BY <1>7, <1>8, <1>9, Spliced

LEMMA ExtendedTyped ==
  ASSUME NEW f \in Seq(Byte), Len(f) >= 28, NEW n \in Uint16
  PROVE  Extended(f, n) \in Seq(Byte)
<1>1. PICK k \in Nat : Len(f) = 4 + k
  <2>1. Len(f) - 4 \in Nat /\ Len(f) = 4 + (Len(f) - 4)
    OBVIOUS
  <2> QED
    BY <2>1
<1>2. PICK x \in Seq(Byte) : x = SubSeq(f, 1, 2)
  <2>1. Cuts(From(f, 1, 2), f, 1, 2)
    BY CutOut
  <2>2. 1 + 2 - 1 = 2
    OBVIOUS
  <2>3. From(f, 1, 2) = SubSeq(f, 1, 2)
    BY <2>2, Zenon DEF From
  <2> QED
    BY <2>1, <2>3 DEF Cuts
<1>3. PICK a \in Seq(Byte) : a = BytesOf(n)
  BY WordOfBytes
<1>4. PICK y \in Seq(Byte) : y = SubSeq(f, 5, Len(f))
  <2>1. Cuts(From(f, 5, k), f, 5, k)
    BY <1>1, CutOut
  <2>2. 5 + k - 1 = 4 + k
    OBVIOUS
  <2>3. From(f, 5, k) = SubSeq(f, 5, Len(f))
    BY <1>1, <2>2, Zenon DEF From
  <2> QED
    BY <2>1, <2>3 DEF Cuts
<1>5. PICK z \in Seq(Byte) : z = <<1>>
  <2>1. 1 \in Byte
    BY ByteBounds
  <2>2. <<1>> \in Seq(Byte)
    BY <2>1
  <2> QED
    BY <2>2
<1>6. PICK c \in Seq(Byte) : c = x \o a
  BY Spliced
<1>7. PICK e \in Seq(Byte) : e = c \o y
  BY Spliced
<1>8. Extended(f, n) = e \o z
  BY <1>2, <1>3, <1>4, <1>5, <1>6, <1>7, Zenon DEF Extended
<1> QED
  BY <1>8, Spliced

LEMMA RebuiltTyped ==
  ASSUME NEW f \in Seq(Byte), Len(f) >= 28, f[1] = 69, NEW g \in Rebuilt(f)
  PROVE  g \in Seq(Byte)
<1>1. CASE g = [f EXCEPT ![23] = 255, ![24] = 255]
  <2>1. 255 \in Byte
    BY ByteBounds
  <2>2. 23 \in Nat /\ 24 \in Nat /\ 23 >= 1 /\ 24 = 23 + 1 /\ 24 <= Len(f)
    OBVIOUS
  <2> QED
    BY <1>1, <2>1, <2>2, Zeroed
<1>2. ASSUME NEW h, Len(h) >= 24, g = Resummed(h),
             h \in Near(f) \/ \E n \in Uint16 : h = Extended(f, n)
      PROVE  g \in Seq(Byte)
  <2>1. h \in Seq(Byte)
    BY <1>2, NearCases, ExtendedTyped
  <2> QED
    BY <1>2, <2>1, ResummedTyped
<1> QED
  BY <1>1, <1>2 DEF Rebuilt

-----------------------------------------------------------------------------
(* Requests and their replies.                                             *)

LEMMA RequestTyped ==
  ASSUME NEW q \in Requests
  PROVE  /\ q.virtual \in Addresses /\ q.client \in Addresses
         /\ q.id \in Uint16 /\ q.seq \in Uint16 /\ q.payload \in Seq(Byte)
BY RequestsAssumption

LEMMA TypesAreBytes == EchoReply \in Byte /\ EchoRequest \in Byte
BY ByteBounds DEF EchoReply, EchoRequest

(* Messages with the same payload have the same length.                    *)
LEMMA FitsAlike ==
  ASSUME NEW m, NEW n, Len(m) = Len(n), Fits(m)
  PROVE  Fits(n)
BY DEF Fits

LEMMA RequestIsBuilt ==
  ASSUME NEW q \in Requests, Fits(RequestOf(q))
  PROVE  /\ Around(IPv4Packet(q.client, q.virtual, RequestOf(q)),
                   q.client, q.virtual, RequestOf(q))
         /\ Says(RequestOf(q), EchoRequest, q.id, q.seq, q.payload)
<1>1. Says(RequestOf(q), EchoRequest, q.id, q.seq, q.payload)
  BY RequestTyped, TypesAreBytes, MessageProperties DEF RequestOf
<1>2. RequestOf(q) \in Seq(Byte)
  BY <1>1 DEF Says
<1> QED
  BY <1>1, <1>2, RequestTyped, PacketProperties

LEMMA ReplyIsBuilt ==
  ASSUME NEW q \in Requests, Fits(RequestOf(q)),
         NEW m, m = ICMPMessage(EchoReply, q.id, q.seq, q.payload)
  PROVE  /\ Fits(m) /\ Says(m, EchoReply, q.id, q.seq, q.payload)
         /\ ReplyOf(q) = IPv4Packet(q.virtual, q.client, m)
         /\ Around(ReplyOf(q), q.virtual, q.client, m)
<1>1. Says(m, EchoReply, q.id, q.seq, q.payload)
  BY RequestTyped, TypesAreBytes, MessageProperties
<1>2. Len(m) = Len(RequestOf(q))
  <2>1. Says(RequestOf(q), EchoRequest, q.id, q.seq, q.payload)
    BY RequestIsBuilt
  <2> QED
    BY <1>1, <2>1, Zenon DEF Says
<1>3. Fits(m)
  BY <1>2, FitsAlike
<1>4. ReplyOf(q) = IPv4Packet(q.virtual, q.client, m)
  BY DEF ReplyOf
<1>5. m \in Seq(Byte)
  BY <1>1 DEF Says
<1>6. Around(IPv4Packet(q.virtual, q.client, m), q.virtual, q.client, m)
  BY <1>3, <1>5, RequestTyped, PacketProperties
<1> QED
  BY <1>1, <1>3, <1>4, <1>6

LEMMA WordTyped ==
  ASSUME NEW f \in Seq(Byte), NEW i \in Nat, i >= 1, i + 1 <= Len(f)
  PROVE  Word(f, i) \in Uint16
<1>1. i \in 1..Len(f) /\ i + 1 \in 1..Len(f)
  OBVIOUS
<1>2. f[i] \in Nat /\ f[i] <= 255
  BY <1>1, BytesAreNumbers
<1>3. f[i + 1] \in Nat /\ f[i + 1] <= 255
  BY <1>1, BytesAreNumbers
<1>4. PICK a \in Nat, b \in Nat : a = f[i] /\ b = f[i + 1] /\ a <= 255 /\ b <= 255
  BY <1>2, <1>3
<1>5. 256 * a + b \in Uint16
  BY <1>4, TwoBytes
<1> QED
  BY <1>4, <1>5, Zenon DEF Word

(* What follows the header of whatever is parsed, and where it is.         *)
LEMMA PayloadTyped ==
  ASSUME NEW f \in Seq(Byte), IsIPv4ICMP(f)
  PROVE  /\ IPPayload(f) \in Seq(Byte) /\ TotalLen(f) \in Nat /\ TotalLen(f) <= Len(f)
         /\ HeaderLen(f) + Len(IPPayload(f)) = TotalLen(f)
         /\ \A k \in 1..Len(IPPayload(f)) : IPPayload(f)[k] = f[HeaderLen(f) + k]
<1>1. f[1] \in Nat
  <2>1. 1 \in 1..Len(f)
    BY DEF IsIPv4ICMP, HeaderMin
  <2> QED
    BY <2>1, BytesAreNumbers
<1>2. PICK h \in Nat : h = HeaderLen(f) /\ h >= 20
  <2>1. f[1] % 16 \in Nat
    BY <1>1
  <2>2. HeaderLen(f) \in Nat
    BY <2>1 DEF HeaderLen
  <2> QED
    BY <2>2 DEF IsIPv4ICMP, HeaderMin
<1>3. PICK l \in Nat : l = Len(f) /\ l >= 20
  BY DEF IsIPv4ICMP, HeaderMin
<1>4. PICK t \in Nat : t = TotalLen(f) /\ t >= h /\ t <= l
  <2>1. TotalLen(f) \in Uint16
    BY <1>3, WordTyped DEF TotalLen
  <2> QED
    BY <1>2, <1>3, <2>1, WordBounds DEF IsIPv4ICMP
<1>5. PICK n \in Nat : n = t - h /\ h + n = t
  BY <1>4
<1>6. PICK m \in Seq(Byte) :
        m = IPPayload(f) /\ Len(m) = n /\ \A k \in 1..n : m[k] = f[h + k]
  <2>0. h + 1 \in Nat /\ h + 1 >= 1 /\ (h + 1) - 1 = h /\ (h + 1) + n - 1 = t /\ h + n <= l
    BY <1>4, <1>5
  <2>1. PICK i \in Nat : i = h + 1 /\ i >= 1 /\ i - 1 + n <= Len(f) /\ i - 1 = h /\ i + n - 1 = t
    BY <1>3, <2>0
  <2>2. Cuts(From(f, i, n), f, i, n)
    BY <2>1, CutOut
  <2>3. From(f, i, n) = IPPayload(f)
    BY <1>2, <1>4, <2>1, Zenon DEF From, IPPayload
  <2>4. /\ From(f, i, n) \in Seq(Byte) /\ Len(From(f, i, n)) = n
        /\ \A k \in 1..n : From(f, i, n)[k] = f[h + k]
    BY <2>1, <2>2 DEF Cuts
  <2> QED
    BY <2>3, <2>4
<1> QED
  BY <1>2, <1>3, <1>4, <1>5, <1>6

(* The parsed fields of a message.                                         *)
LEMMA MessageTyped ==
  ASSUME NEW m \in Seq(Byte), IsICMP(m), NEW r, r = ICMPOf(m)
  PROVE  /\ r.id \in Uint16 /\ r.seq \in Uint16 /\ r.payload \in Seq(Byte)
         /\ Len(m) = 8 + Len(r.payload)
         /\ \A i \in 1..Len(r.payload) : m[8 + i] = r.payload[i]
         /\ r.type = m[1] /\ r.code = m[2] /\ r.id = Word(m, 5) /\ r.seq = Word(m, 7)
<1>1. PICK n \in Nat : n = Len(m) /\ n >= 8
  BY DEF IsICMP
<1>2. Word(m, 5) \in Uint16 /\ Word(m, 7) \in Uint16
  BY <1>1, WordTyped
<1>3. PICK k \in Nat : k = n - 8 /\ 9 - 1 + k <= Len(m) /\ 9 + k - 1 = n /\ 8 + k = n
  <2>1. n - 8 \in Nat /\ 9 - 1 + (n - 8) <= n /\ 9 + (n - 8) - 1 = n /\ 8 + (n - 8) = n
    BY <1>1
  <2> QED
    BY <1>1, <2>1
<1>4. PICK p \in Seq(Byte) :
        p = SubSeq(m, 9, Len(m)) /\ Len(p) = k /\ \A i \in 1..k : p[i] = m[8 + i]
  <2>1. Cuts(From(m, 9, k), m, 9, k)
    BY <1>3, CutOut
  <2>2. From(m, 9, k) = SubSeq(m, 9, Len(m))
    BY <1>1, <1>3, Zenon DEF From
  <2>3. /\ From(m, 9, k) \in Seq(Byte) /\ Len(From(m, 9, k)) = k
        /\ \A i \in 1..k : From(m, 9, k)[i] = m[8 + i]
    BY <2>1 DEF Cuts
  <2> QED
    BY <2>2, <2>3
<1>5. /\ r.type = m[1] /\ r.code = m[2] /\ r.id = Word(m, 5) /\ r.seq = Word(m, 7)
      /\ r.payload = SubSeq(m, 9, Len(m))
  BY DEF ICMPOf
<1> QED
  BY <1>1, <1>2, <1>3, <1>4, <1>5

LEMMA AnsweredIsTyped ==
  ASSUME NEW f \in Seq(Byte), NEW q, Answers(f, q), NEW r, r = ICMPOf(IPPayload(f))
  PROVE  /\ r.id \in Uint16 /\ r.seq \in Uint16 /\ r.payload \in Seq(Byte)
         /\ Len(IPPayload(f)) = 8 + Len(r.payload)
<1>1. PICK m \in Seq(Byte) : m = IPPayload(f) /\ IsICMP(m)
  BY PayloadTyped DEF Answers
<1> QED
  BY <1>1, MessageTyped

(* f has been built as a reply, to this client or to a changed request.    *)
IsSomeReply(f, q) ==
  \E id \in Uint16, seq \in Uint16, payload \in Seq(Byte) :
    /\ Fits(ICMPMessage(EchoReply, id, seq, payload))
    /\ f = IPv4Packet(q.virtual, q.client, ICMPMessage(EchoReply, id, seq, payload))

LEMMA AnswerIsSomeReply ==
  ASSUME NEW f \in Seq(Byte), NEW q, Answers(f, q)
  PROVE  IsSomeReply(AnswerTo(f, q), q)
<1>1. PICK r : r = ICMPOf(IPPayload(f))
  OBVIOUS
<1>2. /\ r.id \in Uint16 /\ r.seq \in Uint16 /\ r.payload \in Seq(Byte)
      /\ Len(IPPayload(f)) = 8 + Len(r.payload)
  BY <1>1, AnsweredIsTyped
<1> DEFINE m == ICMPMessage(EchoReply, r.id, r.seq, r.payload)
<1>3. Says(m, EchoReply, r.id, r.seq, r.payload)
  BY <1>2, TypesAreBytes, MessageProperties
<1> HIDE DEF m
<1>4. Len(IPPayload(f)) = Len(m)
  BY <1>2, <1>3, Zenon DEF Says
<1>5. Fits(IPPayload(f))
  BY DEF Answers
<1>6. Fits(m)
  BY <1>4, <1>5, FitsAlike
<1>7. AnswerTo(f, q) = IPv4Packet(q.virtual, q.client, m)
  BY <1>1, Zenon DEF AnswerTo, m
<1> QED
  BY <1>2, <1>6, <1>7, Zenon DEF IsSomeReply, m

(* What arrives as it was sent is answered, and by the reply.              *)
LEMMA RequestIsAnswered ==
  ASSUME NEW q \in Requests, Fits(RequestOf(q)),
         NEW f, f = IPv4Packet(q.client, q.virtual, RequestOf(q))
  PROVE  Answers(f, q) /\ AnswerTo(f, q) = ReplyOf(q)
<1>1. PICK m : m = RequestOf(q)
  OBVIOUS
<1>2. Around(f, q.client, q.virtual, m) /\ Says(m, EchoRequest, q.id, q.seq, q.payload)
  BY <1>1, RequestIsBuilt
<1>3. m \in Seq(Byte)
  BY <1>2 DEF Says
<1>4. IsIPv4ICMP(f) /\ Destination(f) = q.virtual /\ IPPayload(f) = m
  BY <1>2, <1>3, RequestTyped, BuiltIsParsed
<1>5. /\ IsICMP(m)
      /\ ICMPOf(m) = [type |-> EchoRequest, code |-> 0, id |-> q.id, seq |-> q.seq,
                      payload |-> q.payload]
  BY <1>2, RequestTyped, SaidIsParsed
<1>6. /\ ICMPOf(m).type = EchoRequest /\ ICMPOf(m).id = q.id /\ ICMPOf(m).seq = q.seq
      /\ ICMPOf(m).payload = q.payload
  BY <1>5
<1>7. Answers(f, q)
  BY <1>1, <1>4, <1>5, <1>6, Zenon DEF Answers
<1>8. AnswerTo(f, q) = ReplyOf(q)
  BY <1>4, <1>6, Zenon DEF AnswerTo, ReplyOf
<1> QED
  BY <1>7, <1>8

(* The reply passes all of the client's checks.                            *)
LEMMA ReplyIsAccepted ==
  ASSUME NEW q \in Requests, Fits(RequestOf(q))
  PROVE  IsReplyTo(ReplyOf(q), q)
<1>1. PICK m : m = ICMPMessage(EchoReply, q.id, q.seq, q.payload)
  OBVIOUS
<1>2. Says(m, EchoReply, q.id, q.seq, q.payload) /\ Around(ReplyOf(q), q.virtual, q.client, m)
  BY <1>1, ReplyIsBuilt
<1>3. m \in Seq(Byte) /\ Checksum(m) = 0
  BY <1>2 DEF Says
<1>4. /\ IsIPv4ICMP(ReplyOf(q)) /\ Source(ReplyOf(q)) = q.virtual
      /\ Destination(ReplyOf(q)) = q.client /\ IPPayload(ReplyOf(q)) = m
      /\ Checksum(From(ReplyOf(q), 1, 20)) = 0
  BY <1>2, <1>3, RequestTyped, BuiltIsParsed
<1>5. /\ IsICMP(m)
      /\ ICMPOf(m) = [type |-> EchoReply, code |-> 0, id |-> q.id, seq |-> q.seq,
                      payload |-> q.payload]
  BY <1>2, RequestTyped, SaidIsParsed
<1>6. Len(ReplyOf(q)) >= 20
  BY <1>4 DEF IsIPv4ICMP, HeaderMin
<1> QED
  BY <1>3, <1>4, <1>5, <1>6, Zenon DEF IsReplyTo

(* A word determines its bytes.                                            *)
LEMMA SameWord ==
  ASSUME NEW m \in Seq(Byte), NEW n \in Seq(Byte), NEW i \in Nat, i >= 1,
         i + 1 <= Len(m), i + 1 <= Len(n), Word(m, i) = Word(n, i)
  PROVE  m[i] = n[i] /\ m[i + 1] = n[i + 1]
<1>1. /\ i \in 1..Len(m) /\ i + 1 \in 1..Len(m)
      /\ i \in 1..Len(n) /\ i + 1 \in 1..Len(n)
  OBVIOUS
<1>2. PICK a \in Nat, b \in Nat :
        a = m[i] /\ b = m[i + 1] /\ a <= 255 /\ b <= 255
  BY <1>1, BytesAreNumbers
<1>3. PICK c \in Nat, d \in Nat :
        c = n[i] /\ d = n[i + 1] /\ c <= 255 /\ d <= 255
  BY <1>1, BytesAreNumbers
<1>4. 256 * a + b = 256 * c + d
  <2>1. Word(m, i) = 256 * a + b
    BY <1>2, Zenon DEF Word
  <2>2. Word(n, i) = 256 * c + d
    BY <1>3, Zenon DEF Word
  <2> QED
    BY <2>1, <2>2, Zenon
<1>5. a = c /\ b = d
  <2>1. a \in Nat /\ b \in Nat /\ c \in Nat /\ d \in Nat /\ b <= 255 /\ d <= 255
    BY <1>2, <1>3
  <2> QED
    BY <2>1, <1>4
<1> QED
  BY <1>2, <1>3, <1>5, Zenon

(* A right checksum is determined by the other bytes, but for the two zeros. *)
LEMMA SumIsDetermined ==
  ASSUME NEW m \in Seq(Byte), NEW n \in Seq(Byte), Len(m) = Len(n), Len(m) >= 4,
         Word(m, 1) = Word(n, 1), \A i \in 5..Len(m) : m[i] = n[i],
         Checksum(m) = 0, Checksum(n) = 0
  PROVE  Word(m, 3) % 65535 = Word(n, 3) % 65535
<1>1. PICK l \in Nat : l = Len(m) /\ l = Len(n) /\ l >= 4
  OBVIOUS
<1>2. PICK u \in Nat, v \in Nat, w \in Nat :
        u = Word(m, 1) /\ u = Word(n, 1) /\ v = Word(m, 3) /\ w = Word(n, 3)
  <2>1. Word(m, 1) \in Uint16 /\ Word(m, 3) \in Uint16 /\ Word(n, 3) \in Uint16
    BY <1>1, WordTyped
  <2> QED
    BY <2>1, WordBounds
<1>0. v <= 65535 /\ w <= 65535
  <2>1. Word(m, 3) \in Uint16 /\ Word(n, 3) \in Uint16
    BY <1>1, WordTyped
  <2> QED
    BY <1>2, <2>1, WordBounds
<1>3. PICK x \in Nat, y \in Nat : x = WordSum(m) /\ y = WordSum(n)
  BY ChecksumZero
<1>4. PICK p \in Nat : x = 65535 * p
  BY <1>3, ChecksumZero
<1>5. PICK q \in Nat : y = 65535 * q
  BY <1>3, ChecksumZero
<1>6. WordSums(m)[4] = u + v /\ WordSums(n)[4] = u + w
  <2>1. Len(m) >= 4 /\ Len(n) >= 4
    BY <1>1
  <2>2. WordSums(m)[4] = Word(m, 1) + Word(m, 3)
    BY <2>1, FirstWords
  <2>3. WordSums(n)[4] = Word(n, 1) + Word(n, 3)
    BY <2>1, FirstWords
  <2> QED
    BY <1>2, <2>2, <2>3, Zenon
<1>7. y + (u + v) = x + (u + w)
  <2>1. 4 \in Nat /\ 4 <= l /\ l <= Len(m) /\ l <= Len(n)
    BY <1>1
  <2>2. \A i \in (4 + 1)..l : m[i] = n[i]
    BY <1>1
  <2>3. WordSums(n)[l] + WordSums(m)[4] = WordSums(m)[l] + WordSums(n)[4]
    BY <2>1, <2>2, SumsGrowAlike
  <2>4. x = WordSums(m)[l] /\ y = WordSums(n)[l]
    BY <1>1, <1>3 DEF WordSum
  <2> QED
    BY <1>6, <2>3, <2>4, Zenon
<1>8. 65535 * q + v = 65535 * p + w
  BY <1>4, <1>5, <1>7
<1>9. v = w \/ (v = 65535 /\ w = 0) \/ (v = 0 /\ w = 65535)
  <2>1. CASE p = q
    BY <1>8, <2>1
  <2>2. CASE p > q
    <3>1. PICK d \in Nat : p = q + 1 + d
      <4>1. p - q - 1 \in Nat /\ p = q + 1 + (p - q - 1)
        BY <2>2
      <4> QED
        BY <4>1
    <3> QED
      BY <1>0, <1>8, <3>1
  <2>3. CASE q > p
    <3>1. PICK d \in Nat : q = p + 1 + d
      <4>1. q - p - 1 \in Nat /\ q = p + 1 + (q - p - 1)
        BY <2>3
      <4> QED
        BY <4>1
    <3> QED
      BY <1>0, <1>8, <3>1
  <2> QED
    BY <2>1, <2>2, <2>3
<1>10. v % 65535 = w % 65535
  BY <1>9
<1> QED
  BY <1>2, <1>10

(* Whatever bytes reach the client: what it accepts has the message and the *)
(* addresses of its reply.                                                 *)
THEOREM AcceptedMessage ==
  ASSUME NEW q \in Requests, Fits(RequestOf(q)), NEW f \in Seq(Byte), IsReplyTo(f, q)
  PROVE  /\ Source(f) = q.virtual /\ Destination(f) = q.client
         /\ SameMessage(IPPayload(f), IPPayload(ReplyOf(q)))
<1>1. PICK n : n = ICMPMessage(EchoReply, q.id, q.seq, q.payload)
  OBVIOUS
<1>2. Says(n, EchoReply, q.id, q.seq, q.payload) /\ Around(ReplyOf(q), q.virtual, q.client, n)
  BY <1>1, ReplyIsBuilt
<1>3. PICK k \in Nat : k = Len(q.payload)
  BY RequestTyped
<1>4. /\ n \in Seq(Byte) /\ Len(n) = 8 + k /\ n[1] = EchoReply /\ n[2] = 0
      /\ Word(n, 5) = q.id /\ Word(n, 7) = q.seq /\ Checksum(n) = 0
      /\ \A i \in 1..k : n[8 + i] = q.payload[i]
  BY <1>2, <1>3 DEF Says
<1>5. IPPayload(ReplyOf(q)) = n
  BY <1>2, <1>4, RequestTyped, BuiltIsParsed
<1>6. PICK m \in Seq(Byte) :
        m = IPPayload(f) /\ IsICMP(m) /\ Checksum(m) = 0
        /\ ICMPOf(m) = [type |-> EchoReply, code |-> 0, id |-> q.id, seq |-> q.seq,
                        payload |-> q.payload]
  BY PayloadTyped DEF IsReplyTo
<1>7. /\ Len(m) = 8 + k /\ m[1] = EchoReply /\ m[2] = 0
      /\ Word(m, 5) = q.id /\ Word(m, 7) = q.seq
      /\ \A i \in 1..k : m[8 + i] = q.payload[i]
  <2>1. PICK r : r = ICMPOf(m)
    OBVIOUS
  <2>2. /\ r.type = EchoReply /\ r.code = 0 /\ r.id = q.id /\ r.seq = q.seq
        /\ r.payload = q.payload
    BY <1>6, <2>1
  <2>3. /\ Len(m) = 8 + Len(r.payload)
        /\ \A i \in 1..Len(r.payload) : m[8 + i] = r.payload[i]
        /\ r.type = m[1] /\ r.code = m[2] /\ r.id = Word(m, 5) /\ r.seq = Word(m, 7)
    BY <1>6, <2>1, MessageTyped
  <2> QED
    BY <1>3, <2>2, <2>3
<1>8. ASSUME NEW i \in 1..(8 + k), i \notin {3, 4} PROVE m[i] = n[i]
  <2>1. CASE i = 1 \/ i = 2
    BY <1>4, <1>7, <2>1
  <2>2. CASE i = 5 \/ i = 6
    <3>1. 5 \in Nat /\ 5 >= 1 /\ 5 + 1 <= Len(m) /\ 5 + 1 <= Len(n) /\ 5 + 1 = 6
      BY <1>4, <1>7
    <3>3. Word(m, 5) = Word(n, 5)
      BY <1>4, <1>7
    <3>2. m[5] = n[5] /\ m[5 + 1] = n[5 + 1]
      BY <1>4, <1>6, <3>1, <3>3, SameWord
    <3> QED
      BY <2>2, <3>1, <3>2
  <2>3. CASE i = 7 \/ i = 8
    <3>1. 7 \in Nat /\ 7 >= 1 /\ 7 + 1 <= Len(m) /\ 7 + 1 <= Len(n) /\ 7 + 1 = 8
      BY <1>4, <1>7
    <3>3. Word(m, 7) = Word(n, 7)
      BY <1>4, <1>7
    <3>2. m[7] = n[7] /\ m[7 + 1] = n[7 + 1]
      BY <1>4, <1>6, <3>1, <3>3, SameWord
    <3> QED
      BY <2>3, <3>1, <3>2
  <2>4. CASE i > 8
    <3>1. PICK j \in 1..k : i = 8 + j
      <4>1. i - 8 \in 1..k /\ i = 8 + (i - 8)
        BY <2>4
      <4> QED
        BY <4>1
    <3> QED
      BY <1>4, <1>7, <3>1
  <2> QED
    BY <1>8, <2>1, <2>2, <2>3, <2>4
<1>9. Word(m, 3) % 65535 = Word(n, 3) % 65535
  <2>1. Word(m, 1) = Word(n, 1)
    <3>1. m[1] = n[1] /\ m[1 + 1] = n[1 + 1]
      BY <1>4, <1>7
    <3> QED
      BY <3>1, Zenon DEF Word
  <2>2. Len(m) = Len(n) /\ Len(m) >= 4
    BY <1>4, <1>7
  <2>3. ASSUME NEW i \in 5..Len(m) PROVE m[i] = n[i]
    <3>1. i \in 1..(8 + k) /\ i \notin {3, 4}
      BY <1>7
    <3> QED
      BY <1>8, <3>1
  <2> QED
    BY <1>4, <1>6, <2>1, <2>2, <2>3, SumIsDetermined
<1>10. SameMessage(m, n)
  <2>1. DOMAIN m = 1..(8 + k) /\ Len(m) = Len(n)
    BY <1>4, <1>7
  <2> QED
    BY <1>8, <1>9, <2>1 DEF SameMessage
<1> QED
  BY <1>5, <1>6, <1>10 DEF IsReplyTo

(* What the server has built, of an answered request.                      *)
LEMMA SomeReplyIsBuilt ==
  ASSUME NEW q \in Requests, NEW p, IsSomeReply(p, q)
  PROVE  \E id \in Uint16, seq \in Uint16, payload \in Seq(Byte), m \in Seq(Byte) :
           /\ m = ICMPMessage(EchoReply, id, seq, payload) /\ Len(m) >= 8
           /\ Says(m, EchoReply, id, seq, payload) /\ Around(p, q.virtual, q.client, m)
           /\ p = IPv4Packet(q.virtual, q.client, m)
<1>1. PICK id \in Uint16, seq \in Uint16, payload \in Seq(Byte) :
        /\ Fits(ICMPMessage(EchoReply, id, seq, payload))
        /\ p = IPv4Packet(q.virtual, q.client, ICMPMessage(EchoReply, id, seq, payload))
  BY Zenon DEF IsSomeReply
<1>2. PICK m : m = ICMPMessage(EchoReply, id, seq, payload)
  OBVIOUS
<1>3. Says(m, EchoReply, id, seq, payload)
  BY <1>2, TypesAreBytes, MessageProperties
<1>4. m \in Seq(Byte) /\ Len(m) >= 8
  <2>1. PICK k \in Nat : k = Len(payload)
    OBVIOUS
  <2> QED
    BY <1>3, <2>1 DEF Says
<1>5. Around(p, q.virtual, q.client, m)
  BY <1>1, <1>2, <1>4, RequestTyped, PacketProperties
<1> QED
  BY <1>1, <1>2, <1>3, <1>4, <1>5, Zenon

(* A packet that has been damaged at most is the reply.                    *)
LEMMA OnlyItsReply ==
  ASSUME NEW q \in Requests, Fits(RequestOf(q)), NEW f \in Seq(Byte), IsReplyTo(f, q),
         NEW p, IsSomeReply(p, q), f = p \/ f \in Near(p)
  PROVE  Len(f) >= TotalLen(f) /\ From(f, 1, TotalLen(f)) = ReplyOf(q)
<1>1. PICK id \in Uint16, seq \in Uint16, payload \in Seq(Byte), m \in Seq(Byte) :
        /\ m = ICMPMessage(EchoReply, id, seq, payload) /\ Len(m) >= 8
        /\ Says(m, EchoReply, id, seq, payload) /\ Around(p, q.virtual, q.client, m)
        /\ p = IPv4Packet(q.virtual, q.client, m)
  BY SomeReplyIsBuilt
<1>2. IsIPv4ICMP(f) /\ Checksum(From(f, 1, 20)) = 0 /\ Checksum(IPPayload(f)) = 0
  BY DEF IsReplyTo
<1>3. /\ p \in Seq(Byte) /\ IsIPv4ICMP(p) /\ IPPayload(p) = m /\ HeaderLen(p) = 20
      /\ TotalLen(p) = Len(p) /\ Len(p) = 20 + Len(m) /\ From(p, 1, TotalLen(p)) = p
  BY <1>1, RequestTyped, BuiltIsParsed
<1>4. From(f, 1, TotalLen(f)) = p
  <2>1. CASE f = p
    BY <1>3, <2>1
  <2>2. CASE f \in Near(p)
    <3>1. Checksum(m) = 0
      BY <1>1 DEF Says
    <3> QED
      BY <1>1, <1>2, <2>2, <3>1, RequestTyped, ChecksumsDetect
  <2> QED
    BY <2>1, <2>2
<1>5. PICK t \in Nat : t = TotalLen(f) /\ t <= Len(f) /\ t >= 20
  <2>1. TotalLen(f) \in Nat /\ TotalLen(f) <= Len(f)
    BY <1>2, PayloadTyped
  <2>2. HeaderLen(f) >= 20 /\ TotalLen(f) >= HeaderLen(f) /\ HeaderLen(f) \in Int
    <3>1. 1 \in 1..Len(f)
      BY <1>2 DEF IsIPv4ICMP, HeaderMin
    <3>2. f[1] \in Nat
      BY <3>1, BytesAreNumbers
    <3>3. HeaderLen(f) \in Int
      BY <3>2 DEF HeaderLen
    <3> QED
      BY <1>2, <3>3 DEF IsIPv4ICMP, HeaderMin
  <2> QED
    BY <2>1, <2>2
<1>6. Len(p) = t /\ \A j \in 1..t : p[j] = f[j]
  <2>1. 1 - 1 + t <= Len(f)
    BY <1>5
  <2>2. Cuts(From(f, 1, t), f, 1, t)
    BY <2>1, CutOut
  <2>3. /\ Len(From(f, 1, t)) = t
        /\ \A j \in 1..t : From(f, 1, t)[j] = f[j]
    BY <2>2 DEF Cuts
  <2>4. From(f, 1, t) = p
    BY <1>4, <1>5
  <2> QED
    BY <2>3, <2>4
<1>7. PICK n \in Nat : n = Len(m) /\ t = 20 + n
  BY <1>3, <1>6
<1>8. HeaderLen(f) = 20
  <2>1. f[1] = p[1]
    BY <1>5, <1>6
  <2> QED
    BY <1>3, <2>1 DEF HeaderLen
<1>9. IPPayload(f) = m
  <2>1. PICK c \in Seq(Byte) :
          c = IPPayload(f) /\ Len(c) = n /\ \A k \in 1..n : c[k] = f[20 + k]
    <3>1. /\ IPPayload(f) \in Seq(Byte)
          /\ HeaderLen(f) + Len(IPPayload(f)) = TotalLen(f)
          /\ \A k \in 1..Len(IPPayload(f)) : IPPayload(f)[k] = f[HeaderLen(f) + k]
      BY <1>2, PayloadTyped
    <3>2. PICK c \in Seq(Byte) : c = IPPayload(f)
      BY <3>1
    <3>3. 20 + Len(c) = 20 + n
      BY <1>5, <1>7, <1>8, <3>1, <3>2
    <3>4. Len(c) = n
      BY <3>3
    <3> QED
      BY <1>8, <3>1, <3>2, <3>4
  <2>2. ASSUME NEW k \in 1..n PROVE c[k] = m[k]
    <3>1. 20 + k \in 1..t
      BY <1>7
    <3>2. p[20 + k] = m[k]
      BY <1>1, <1>7 DEF Around
    <3> QED
      BY <1>6, <2>1, <3>1, <3>2
  <2>3. Alike(c, m, n)
    BY <1>7, <2>1, <2>2 DEF Alike
  <2> QED
    BY <2>1, <2>3, SameText, Zenon
<1>10. ICMPOf(m) = [type |-> EchoReply, code |-> 0, id |-> id, seq |-> seq,
                   payload |-> payload]
  BY <1>1, SaidIsParsed
<1>11. ICMPOf(m) = [type |-> EchoReply, code |-> 0, id |-> q.id, seq |-> q.seq,
                   payload |-> q.payload]
  BY <1>9, Zenon DEF IsReplyTo
<1>12. id = q.id /\ seq = q.seq /\ payload = q.payload
  BY <1>10, <1>11
<1>13. p = ReplyOf(q)
  BY <1>1, <1>12, Zenon DEF ReplyOf
<1> QED
  BY <1>4, <1>5, <1>13

-----------------------------------------------------------------------------
(* The exchange.                                                           *)

(* While nothing has changed, what is under way is what one end built; what *)
(* reaches the client has been built as a reply, has been such a packet    *)
(* before it was damaged, or comes from somewhere else.                    *)
UnderWay ==
  /\ at \in Legs => Fits(RequestOf(asked))
  /\ at = "to server" =>
       /\ changed["to client"] = "no"
       /\ changed["to server"] = "no" =>
            frame = IPv4Packet(asked.client, asked.virtual, RequestOf(asked))
  /\ at = "to client" =>
       /\ changed["to server"] = "no" /\ changed["to client"] = "no" =>
            frame = ReplyOf(asked)
       /\ changed["to client"] = "no" => IsSomeReply(frame, asked)
       /\ changed["to client"] = "damaged" =>
            \E p : IsSomeReply(p, asked) /\ frame \in Near(p)

ExchangeInv == TypeOK /\ UnderWay /\ AcceptsOnlyItsReply /\ UnchangedIsAccepted

LEMMA ReplyIsSomeReply ==
  ASSUME NEW q \in Requests, Fits(RequestOf(q))
  PROVE  IsSomeReply(ReplyOf(q), q)
BY ReplyIsBuilt, RequestTyped, Zenon DEF IsSomeReply

LongMessage(m) == m \in Seq(Byte) /\ Len(m) >= 8
LongPacket(p)  == p \in Seq(Byte) /\ Len(p) >= 28 /\ p[1] = 69

LEMMA BuiltIsLong ==
  ASSUME NEW s, NEW d, NEW m, LongMessage(m), NEW p, Around(p, s, d, m)
  PROVE  LongPacket(p)
BY DEF Around, LongMessage, LongPacket

LEMMA SaidIsLong ==
  ASSUME NEW m, NEW type, NEW id, NEW seq, NEW payload \in Seq(Byte),
         Says(m, type, id, seq, payload)
  PROVE  LongMessage(m)
BY DEF Says, LongMessage

LEMMA SomeReplyIsLong ==
  ASSUME NEW q \in Requests, NEW p, IsSomeReply(p, q)
  PROVE  LongPacket(p)
<1>1. PICK m \in Seq(Byte) : Len(m) >= 8 /\ Around(p, q.virtual, q.client, m)
  BY SomeReplyIsBuilt
<1>2. LongMessage(m)
  BY <1>1 DEF LongMessage
<1> QED
  BY <1>1, <1>2, BuiltIsLong, Zenon

(* What changes on its way has been built by one of the two ends.          *)
LEMMA UnchangedFrame ==
  ASSUME ExchangeInv, at \in Legs, changed[at] = "no"
  PROVE  LongPacket(frame)
<1>1. asked \in Requests /\ Fits(RequestOf(asked))
  BY DEF ExchangeInv, TypeOK, UnderWay
<1>2. CASE at = "to server"
  <2>1. frame = IPv4Packet(asked.client, asked.virtual, RequestOf(asked))
    BY <1>2 DEF ExchangeInv, UnderWay
  <2>2. LongMessage(RequestOf(asked))
    <3>1. Says(RequestOf(asked), EchoRequest, asked.id, asked.seq, asked.payload)
      BY <1>1, RequestIsBuilt
    <3>2. asked.payload \in Seq(Byte)
      BY <1>1, RequestTyped
    <3> QED
      BY <3>1, <3>2, SaidIsLong
  <2>3. Around(frame, asked.client, asked.virtual, RequestOf(asked))
    BY <1>1, <2>1, RequestIsBuilt, Zenon
  <2> QED
    BY <2>2, <2>3, BuiltIsLong, Zenon
<1>3. CASE at = "to client"
  <2>1. IsSomeReply(frame, asked)
    BY <1>3 DEF ExchangeInv, UnderWay
  <2> QED
    BY <1>1, <2>1, SomeReplyIsLong
<1> QED
  BY <1>2, <1>3 DEF Legs

LEMMA InvInit == Init => ExchangeInv
<1> SUFFICES ASSUME Init PROVE ExchangeInv
  OBVIOUS
<1>1. asked \in Requests /\ changed = [leg \in Legs |-> "no"]
  BY DEF Init
<1>2. /\ changed \in [Legs -> {"no", "damaged", "rebuilt"}]
      /\ changed["to server"] = "no" /\ changed["to client"] = "no"
  BY <1>1 DEF Legs
<1>3. CASE Fits(RequestOf(asked))
  <2>1. /\ at = "to server"
        /\ frame = IPv4Packet(asked.client, asked.virtual, RequestOf(asked))
    BY <1>3 DEF Init
  <2>2. frame \in Seq(Byte)
    <3>1. Around(frame, asked.client, asked.virtual, RequestOf(asked))
      BY <1>1, <1>3, <2>1, RequestIsBuilt
    <3> QED
      BY <3>1 DEF Around
  <2> QED
    BY <1>1, <1>2, <1>3, <2>1, <2>2
       DEF ExchangeInv, TypeOK, UnderWay, AcceptsOnlyItsReply, UnchangedIsAccepted
<1>4. CASE ~Fits(RequestOf(asked))
  <2>1. at = "refused" /\ frame = << >>
    BY <1>4 DEF Init
  <2>2. frame \in Seq(Byte)
    BY <2>1
  <2> QED
    BY <1>1, <1>2, <1>4, <2>1, <2>2
       DEF ExchangeInv, TypeOK, UnderWay, AcceptsOnlyItsReply, UnchangedIsAccepted, Legs
<1> QED
  BY <1>3, <1>4

LEMMA InvChange == ExchangeInv /\ (Damage \/ Rebuild) => ExchangeInv'
<1> SUFFICES ASSUME ExchangeInv, Damage \/ Rebuild PROVE ExchangeInv'
  OBVIOUS
<1>1. PICK kind \in {"damaged", "rebuilt"} :
        /\ at \in Legs /\ changed[at] = "no" /\ asked' = asked /\ at' = at
        /\ changed' = [changed EXCEPT ![at] = kind]
        /\ kind = "damaged" => frame' \in Near(frame)
        /\ kind = "rebuilt" => frame' \in Rebuilt(frame)
  BY DEF Damage, Rebuild, Change
<1>2. /\ asked \in Requests /\ Fits(RequestOf(asked))
      /\ changed \in [Legs -> {"no", "damaged", "rebuilt"}]
  BY <1>1 DEF ExchangeInv, TypeOK, UnderWay
<1>3. LongPacket(frame)
  BY <1>1, UnchangedFrame
<1>4. frame' \in Seq(Byte)
  BY <1>1, <1>3, NearCases, RebuiltTyped DEF LongPacket
<1>5. /\ changed' \in [Legs -> {"no", "damaged", "rebuilt"}] /\ changed'[at] = kind
      /\ \A leg \in Legs : leg # at => changed'[leg] = changed[leg]
  BY <1>1, <1>2
<1>6. TypeOK'
  <2>1. asked' \in Requests /\ at' \in {"to server", "to client", "refused", "ignored", "accepted"}
    BY <1>1, <1>2 DEF Legs
  <2> QED
    BY <1>4, <1>5, <2>1 DEF TypeOK
<1>7. UnderWay'
  <2>1. CASE at = "to server"
    <3>1. changed["to client"] = "no"
      BY <2>1 DEF ExchangeInv, UnderWay
    <3>2. changed'["to client"] = "no" /\ changed'["to server"] = kind
      BY <1>5, <2>1, <3>1 DEF Legs
    <3> QED
      BY <1>1, <1>2, <2>1, <3>2 DEF UnderWay
  <2>2. CASE at = "to client"
    <3>1. IsSomeReply(frame, asked)
      BY <1>1, <2>2 DEF ExchangeInv, UnderWay
    <3>2. changed'["to client"] = kind
      BY <1>5, <2>2
    <3>3. kind = "damaged" => \E p : IsSomeReply(p, asked') /\ frame' \in Near(p)
      BY <1>1, <3>1
    <3> QED
      BY <1>1, <1>2, <2>2, <3>2, <3>3 DEF UnderWay
  <2> QED
    BY <1>1, <2>1, <2>2 DEF Legs
<1>8. AcceptsOnlyItsReply' /\ UnchangedIsAccepted'
  <2>1. at' # "accepted" /\ changed'[at] # "no"
    BY <1>1, <1>5 DEF Legs
  <2> QED
    BY <1>1, <2>1 DEF AcceptsOnlyItsReply, UnchangedIsAccepted
<1> QED
  BY <1>6, <1>7, <1>8 DEF ExchangeInv

LEMMA InvServe == ExchangeInv /\ Serve => ExchangeInv'
<1> SUFFICES ASSUME ExchangeInv, Serve PROVE ExchangeInv'
  OBVIOUS
<1>1. at = "to server" /\ asked' = asked /\ changed' = changed
  BY DEF Serve
<1>2. /\ asked \in Requests /\ frame \in Seq(Byte) /\ Fits(RequestOf(asked))
      /\ changed \in [Legs -> {"no", "damaged", "rebuilt"}]
      /\ changed["to client"] = "no"
  BY <1>1 DEF ExchangeInv, TypeOK, UnderWay, Legs
<1>3. changed["to server"] = "no" =>
        Answers(frame, asked) /\ AnswerTo(frame, asked) = ReplyOf(asked)
  BY <1>1, <1>2, RequestIsAnswered DEF ExchangeInv, UnderWay
<1>4. CASE Answers(frame, asked)
  <2>1. at' = "to client" /\ frame' = AnswerTo(frame, asked)
    BY <1>4 DEF Serve
  <2>2. IsSomeReply(frame', asked)
    BY <1>2, <1>4, <2>1, AnswerIsSomeReply
  <2>3. frame' \in Seq(Byte)
    BY <1>2, <2>2, SomeReplyIsLong DEF LongPacket
  <2>4. TypeOK'
    BY <1>1, <1>2, <2>1, <2>3 DEF TypeOK
  <2>5. UnderWay'
    BY <1>1, <1>2, <1>3, <2>1, <2>2 DEF UnderWay
  <2>6. AcceptsOnlyItsReply' /\ UnchangedIsAccepted'
    BY <2>1 DEF AcceptsOnlyItsReply, UnchangedIsAccepted
  <2> QED
    BY <2>4, <2>5, <2>6 DEF ExchangeInv
<1>5. CASE ~Answers(frame, asked)
  <2>1. at' = "ignored" /\ frame' = frame
    BY <1>5 DEF Serve
  <2>2. TypeOK' /\ UnderWay'
    BY <1>1, <1>2, <2>1 DEF TypeOK, UnderWay, Legs
  <2>3. changed'["to server"] # "no" /\ "to server" \in Legs
    BY <1>1, <1>3, <1>5 DEF Legs
  <2>4. AcceptsOnlyItsReply' /\ UnchangedIsAccepted'
    BY <2>1, <2>3 DEF AcceptsOnlyItsReply, UnchangedIsAccepted
  <2> QED
    BY <2>2, <2>4 DEF ExchangeInv
<1> QED
  BY <1>4, <1>5

LEMMA InvJudge == ExchangeInv /\ Judge => ExchangeInv'
<1> SUFFICES ASSUME ExchangeInv, Judge PROVE ExchangeInv'
  OBVIOUS
<1>1. /\ at = "to client" /\ asked' = asked /\ changed' = changed /\ frame' = frame
  BY DEF Judge
<1>2. /\ asked \in Requests /\ frame \in Seq(Byte) /\ Fits(RequestOf(asked))
      /\ changed \in [Legs -> {"no", "damaged", "rebuilt"}]
      /\ changed["to server"] = "no" /\ changed["to client"] = "no" =>
           frame = ReplyOf(asked)
  BY <1>1 DEF ExchangeInv, TypeOK, UnderWay, Legs
<1>3. changed["to client"] # "rebuilt" =>
        \E p : IsSomeReply(p, asked) /\ (frame = p \/ frame \in Near(p))
  <2>1. changed["to client"] \in {"no", "damaged", "rebuilt"}
    BY <1>2 DEF Legs
  <2>2. /\ changed["to client"] = "no" => IsSomeReply(frame, asked)
        /\ changed["to client"] = "damaged" =>
             \E p : IsSomeReply(p, asked) /\ frame \in Near(p)
    BY <1>1 DEF ExchangeInv, UnderWay
  <2> QED
    BY <2>1, <2>2
<1>4. CASE IsReplyTo(frame, asked)
  <2>1. at' = "accepted"
    BY <1>4 DEF Judge
  <2>2. /\ Source(frame) = asked.virtual /\ Destination(frame) = asked.client
        /\ SameMessage(IPPayload(frame), IPPayload(ReplyOf(asked)))
    BY <1>2, <1>4, AcceptedMessage
  <2>3. changed["to client"] # "rebuilt" =>
          Len(frame) >= TotalLen(frame) /\ From(frame, 1, TotalLen(frame)) = ReplyOf(asked)
    BY <1>2, <1>3, <1>4, OnlyItsReply
  <2>4. AcceptsOnlyItsReply'
    <3>1. AcceptsOnlyItsReply' =
            (at' = "accepted" =>
               /\ Source(frame') = asked'.virtual /\ Destination(frame') = asked'.client
               /\ SameMessage(IPPayload(frame'), IPPayload(ReplyOf(asked')))
               /\ changed'["to client"] # "rebuilt" =>
                    /\ Len(frame') >= TotalLen(frame')
                    /\ From(frame', 1, TotalLen(frame')) = ReplyOf(asked'))
      BY DEF AcceptsOnlyItsReply
    <3> QED
      BY <1>1, <2>2, <2>3, <3>1
  <2>5. TypeOK' /\ UnderWay' /\ UnchangedIsAccepted'
    BY <1>1, <1>2, <2>1 DEF TypeOK, UnderWay, UnchangedIsAccepted, Legs
  <2> QED
    BY <2>4, <2>5 DEF ExchangeInv
<1>5. CASE ~IsReplyTo(frame, asked)
  <2>1. at' = "refused"
    BY <1>5 DEF Judge
  <2>2. \E leg \in Legs : changed'[leg] # "no"
    <3>1. changed["to server"] # "no" \/ changed["to client"] # "no"
      BY <1>2, <1>5, ReplyIsAccepted
    <3> QED
      BY <1>1, <3>1 DEF Legs
  <2>3. TypeOK' /\ UnderWay'
    BY <1>1, <1>2, <2>1 DEF TypeOK, UnderWay, Legs
  <2>4. AcceptsOnlyItsReply' /\ UnchangedIsAccepted'
    BY <2>1, <2>2 DEF AcceptsOnlyItsReply, UnchangedIsAccepted
  <2> QED
    BY <2>3, <2>4 DEF ExchangeInv
<1> QED
  BY <1>4, <1>5

(* Everything under way is made of bytes, a request that reaches the server *)
(* as it was built is answered and its answer accepted, and the client     *)
(* accepts nothing without the message of the reply to its request.        *)
THEOREM ExchangeInductive == Spec => []ExchangeInv
<1>1. ExchangeInv /\ [Next]_vars => ExchangeInv'
  <2> SUFFICES ASSUME ExchangeInv, [Next]_vars PROVE ExchangeInv'
    OBVIOUS
  <2>1. CASE Damage \/ Rebuild
    BY <2>1, InvChange
  <2>2. CASE Serve
    BY <2>2, InvServe
  <2>3. CASE Judge
    BY <2>3, InvJudge
  <2>4. CASE UNCHANGED vars
    BY <2>4 DEF ExchangeInv, TypeOK, UnderWay, AcceptsOnlyItsReply,
                UnchangedIsAccepted, vars
  <2> QED
    BY <2>1, <2>2, <2>3, <2>4 DEF Next
<1> QED
  BY InvInit, <1>1, PTL DEF Spec

THEOREM PacketsTypeOK == Spec => []TypeOK
<1>1. ExchangeInv => TypeOK
  BY DEF ExchangeInv
<1> QED
  BY ExchangeInductive, <1>1, PTL

(* A client accepts the message of the reply to its request only, from     *)
(* whoever built the packet around it, and of damaged packets none         *)
(* (validateEchoReply, client.go:716-759).                                 *)
THEOREM OnlyTheReplyIsAccepted == Spec => []AcceptsOnlyItsReply
<1>1. ExchangeInv => AcceptsOnlyItsReply
  BY DEF ExchangeInv
<1> QED
  BY ExchangeInductive, <1>1, PTL

(* No identifier, sequence or payload makes an end refuse what the other   *)
(* end has built.                                                          *)
THEOREM UnchangedExchangeSucceeds == Spec => []UnchangedIsAccepted
<1>1. ExchangeInv => UnchangedIsAccepted
  BY DEF ExchangeInv
<1> QED
  BY ExchangeInductive, <1>1, PTL

(* Checksum is RFC 1071's for whatever is under way.                       *)
THEOREM ChecksumOfFrame == Spec => []ChecksumIsOnesComplement
<1>1. ExchangeInv => ChecksumIsOnesComplement
  <2> SUFFICES ASSUME ExchangeInv PROVE ChecksumIsOnesComplement
    OBVIOUS
  <2>1. frame \in Seq(Byte)
    BY DEF ExchangeInv, TypeOK
  <2>2. Checksum(frame) = 65535 - OnesSums(frame)[WordCount(frame)]
    BY <2>1, ChecksumOnesComplement
  <2> QED
    BY <2>2 DEF ChecksumIsOnesComplement
<1> QED
  BY ExchangeInductive, <1>1, PTL

(* The policy judges what the other end parses.                            *)
THEOREM TheParsersAgree == Spec => []ParsersAgree
<1>1. ParsersAgree
  BY DEF ParsersAgree, IsIPv4ICMP, HasEndpoints, HeaderMin, ICMP
<1>2. ExchangeInv => ParsersAgree
  BY <1>1
<1> QED
  BY ExchangeInductive, <1>2, PTL
=============================================================================
