--------------------------- MODULE PathSet_proofs ---------------------------
(***************************************************************************)
(* What the operations of PathSet return and preserve, for path sets of    *)
(* every size, and the two facts about natural numbers that these and      *)
(* other proofs use: a set of them has a least one, and a recursion over   *)
(* them has one solution.                                                  *)
(***************************************************************************)
EXTENDS PathSet, SequenceTheorems, WellFoundedInduction, TLAPS

-----------------------------------------------------------------------------
(* Numbers.                                                                *)

(* A non-empty set of numbers has a least one: what stands in for induction *)
(* here, with the least counterexample of what is to be shown.             *)
LEMMA LeastNumber ==
  ASSUME NEW S \in SUBSET Nat, S # {}
  PROVE  \E m \in S : \A x \in S : m <= x
<1>1. PICK m \in S : \A y \in S : ~ (<<y, m>> \in OpToRel(<, Nat))
  BY NatLessThanWellFounded, WFMin, Zenon
<1>2. \A y \in S : m <= y
  <2> SUFFICES ASSUME NEW y \in S, y < m
               PROVE  FALSE
    OBVIOUS
  <2>1. <<y, m>> \in Nat \X Nat /\ <<y, m>>[1] < <<y, m>>[2]
    OBVIOUS
  <2>2. <<y, m>> \in OpToRel(<, Nat)
    BY <2>1, Zenon DEF OpToRel
  <2> QED
    BY <1>1, <2>2
<1> QED
  BY <1>2

(* Induction up to n, on a set of numbers.                                 *)
LEMMA SetInduction ==
  ASSUME NEW n \in Nat, NEW G, 0 \in G, \A k \in 1..n : k - 1 \in G => k \in G
  PROVE  \A k \in 0..n : k \in G
<1> DEFINE Bad == {k \in 0..n : k \notin G}
<1> SUFFICES ASSUME Bad # {} PROVE FALSE
  OBVIOUS
<1>1. Bad \in SUBSET Nat
  OBVIOUS
<1>2. PICK k \in Bad : \A x \in Bad : k <= x
  <2> HIDE DEF Bad
  <2> QED
    BY <1>1, LeastNumber
<1>3. k \in 1..n /\ k - 1 \in 0..n /\ k - 1 \notin Bad
  BY <1>2
<1> QED
  BY <1>3

(* Recursion: f starts at base and goes on with the steps up to n.  There  *)
(* is one such function, and one for all numbers, which is what a          *)
(* recursive definition stands for.                                        *)
Follows(f, n, base, step) ==
  f[0] = base /\ \A i \in 1..n : f[i] = step[i][f[i - 1]]
Solves(f, base, step) ==
  f[0] = base /\ \A n \in Nat \ {0} : f[n] = step[n][f[n - 1]]

LEMMA RecursionUnique ==
  ASSUME NEW base, NEW step, NEW m \in Nat, NEW n \in Nat, n <= m, NEW f, NEW g,
         Follows(f, m, base, step), Follows(g, n, base, step)
  PROVE  \A i \in 0..n : f[i] = g[i]
<1> DEFINE Bad == {i \in 0..n : f[i] # g[i]}
<1> SUFFICES ASSUME Bad # {} PROVE FALSE
  OBVIOUS
<1>1. Bad \in SUBSET Nat
  OBVIOUS
<1>2. PICK k \in Bad : \A x \in Bad : k <= x
  <2> HIDE DEF Bad
  <2> QED
    BY <1>1, LeastNumber
<1>3. k # 0
  BY DEF Follows
<1>4. k \in 1..n /\ k \in 1..m /\ k - 1 \in 0..n /\ k - 1 \notin Bad
  BY <1>2, <1>3
<1>5. f[k - 1] = g[k - 1]
  BY <1>4
<1>6. f[k] = step[k][f[k - 1]] /\ g[k] = step[k][g[k - 1]]
  BY <1>4 DEF Follows
<1> QED
  BY <1>5, <1>6

LEMMA RecursionExists ==
  ASSUME NEW S, NEW base \in S, NEW n \in Nat,
         NEW step, \A i \in 1..n : step[i] \in [S -> S]
  PROVE  \E f \in [0..n -> S] : Follows(f, n, base, step)
<1> DEFINE Good(m) == m <= n => \E f \in [0..m -> S] : Follows(f, m, base, step)
           Bad     == {m \in Nat : ~ Good(m)}
<1> SUFFICES ASSUME Bad # {} PROVE FALSE
  OBVIOUS
<1>1. Bad \in SUBSET Nat
  OBVIOUS
<1>2. PICK k \in Bad : \A x \in Bad : k <= x
  <2> HIDE DEF Bad
  <2> QED
    BY <1>1, LeastNumber
<1>3. Good(0)
  <2> DEFINE f == [i \in 0..0 |-> base]
  <2>1. f \in [0..0 -> S] /\ Follows(f, 0, base, step)
    BY DEF Follows
  <2> QED
    BY <2>1
<1>4. k \in Nat /\ k # 0 /\ k - 1 \in Nat /\ ~ Good(k)
  <2>1. k \in Nat /\ ~ Good(k)
    OBVIOUS
  <2> HIDE DEF Good
  <2> QED
    BY <1>3, <2>1
<1>5. Good(k - 1)
  <2>1. ~ (k <= k - 1)
    BY <1>4
  <2>2. k - 1 \notin Bad
    BY <1>2, <2>1
  <2> QED
    BY <1>4, <2>2
<1>6. PICK f \in [0..(k - 1) -> S] : Follows(f, k - 1, base, step)
  BY <1>5
<1> DEFINE g == [i \in 0..k |-> IF i = k THEN step[k][f[k - 1]] ELSE f[i]]
<1>7. g \in [0..k -> S]
  <2>1. f[k - 1] \in S /\ step[k][f[k - 1]] \in S
    BY <1>4
  <2>2. ASSUME NEW i \in 0..k, i # k PROVE f[i] \in S
    BY <1>4, <2>2
  <2> QED
    BY <2>1, <2>2
<1>8. Follows(g, k, base, step)
  <2>1. g[0] = base
    BY <1>4, <1>6 DEF Follows
  <2>2. ASSUME NEW i \in 1..k PROVE g[i] = step[i][g[i - 1]]
    <3>1. g[i - 1] = f[i - 1]
      BY <1>4
    <3>2. CASE i = k
      BY <3>1, <3>2
    <3>3. CASE i # k
      <4>1. i \in 1..(k - 1)
        BY <1>4, <3>3
      <4>2. f[i] = step[i][f[i - 1]]
        BY <1>6, <4>1 DEF Follows
      <4> QED
        BY <3>1, <3>3, <4>2
    <3> QED
      BY <3>2, <3>3
  <2> QED
    BY <2>1, <2>2 DEF Follows
<1> HIDE DEF g
<1> QED
  BY <1>4, <1>7, <1>8

LEMMA Recursion ==
  ASSUME NEW S, NEW base \in S, NEW step \in [Nat -> [S -> S]]
  PROVE  \E f \in [Nat -> S] : Solves(f, base, step)
<1> DEFINE P(n) == CHOOSE f \in [0..n -> S] : Follows(f, n, base, step)
           F    == [n \in Nat |-> P(n)[n]]
<1>1. ASSUME NEW n \in Nat
      PROVE  P(n) \in [0..n -> S] /\ Follows(P(n), n, base, step)
  <2>1. \E f \in [0..n -> S] : Follows(f, n, base, step)
    <3>1. \A i \in 1..n : step[i] \in [S -> S]
      OBVIOUS
    <3> QED
      BY <3>1, RecursionExists
  <2> QED
    BY <2>1
<1> HIDE DEF P
<1>2. F \in [Nat -> S]
  BY <1>1
<1>3. F[0] = base
  BY <1>1 DEF Follows
<1>4. ASSUME NEW n \in Nat, n # 0 PROVE F[n] = step[n][F[n - 1]]
  <2>1. n - 1 \in Nat /\ n - 1 <= n /\ n \in 1..n /\ n - 1 \in 0..(n - 1)
    BY <1>4
  <2>2. Follows(P(n), n, base, step) /\ Follows(P(n - 1), n - 1, base, step)
    BY <1>1, <2>1
  <2>3. P(n)[n - 1] = P(n - 1)[n - 1]
    BY <2>1, <2>2, RecursionUnique
  <2>4. P(n)[n] = step[n][P(n)[n - 1]]
    BY <2>1, <2>2 DEF Follows
  <2> QED
    BY <2>1, <2>3, <2>4
<1> HIDE DEF F
<1> QED
  BY <1>2, <1>3, <1>4 DEF Solves

-----------------------------------------------------------------------------
(* Slices.                                                                 *)

(* A non-empty set of numbers has its minimum, the position a scan stops at. *)
LEMMA MinIsLeast ==
  ASSUME NEW S \in SUBSET Nat, S # {}
  PROVE  Min(S) \in S /\ \A x \in S : Min(S) <= x
BY LeastNumber, Zenon DEF Min

(* The length and the elements of a slice with one position cut out.       *)
LEMMA RemoveAtProperties ==
  ASSUME NEW P, NEW seq \in Seq(P), NEW k \in 1..Len(seq)
  PROVE  /\ RemoveAt(seq, k) \in Seq(P)
         /\ Len(RemoveAt(seq, k)) = Len(seq) - 1
         /\ \A i \in 1..(Len(seq) - 1) :
              RemoveAt(seq, k)[i] = IF i < k THEN seq[i] ELSE seq[i + 1]
<1> DEFINE left  == SubSeq(seq, 1, k - 1)
           right == SubSeq(seq, k + 1, Len(seq))
<1>1. Len(seq) \in Nat /\ \A i \in 1..Len(seq) : seq[i] \in P
  BY LenProperties, ElementOfSeq
<1>2. /\ left \in Seq(P) /\ Len(left) = k - 1
      /\ \A i \in 1..(k - 1) : left[i] = seq[i]
  BY <1>1, SubSeqProperties
<1>3. /\ right \in Seq(P) /\ Len(right) = Len(seq) - k
      /\ \A i \in 1..(Len(seq) - k) : right[i] = seq[k + i]
  <2>1. \A i \in (k + 1)..Len(seq) : seq[i] \in P
    BY <1>1
  <2>2. /\ right \in Seq(P)
        /\ Len(right) = IF k + 1 <= Len(seq) THEN Len(seq) - (k + 1) + 1 ELSE 0
        /\ \A i \in 1..(Len(seq) - (k + 1) + 1) : right[i] = seq[k + 1 + i - 1]
    BY <1>1, <2>1, SubSeqProperties
  <2> QED
    BY <1>1, <2>2
<1> HIDE DEF left, right
<1>4. /\ left \o right \in Seq(P)
      /\ Len(left \o right) = Len(seq) - 1
      /\ \A i \in 1..(Len(seq) - 1) :
           (left \o right)[i] = IF i <= k - 1 THEN left[i] ELSE right[i - (k - 1)]
  <2>1. /\ left \o right \in Seq(P)
        /\ Len(left \o right) = Len(left) + Len(right)
        /\ \A i \in 1..(Len(left) + Len(right)) :
             (left \o right)[i] = IF i <= Len(left) THEN left[i]
                                                   ELSE right[i - Len(left)]
    BY <1>2, <1>3, ConcatProperties, Zenon
  <2>2. Len(left) + Len(right) = Len(seq) - 1
    BY <1>1, <1>2, <1>3
  <2> QED
    BY <1>2, <2>1, <2>2
<1>5. \A i \in 1..(Len(seq) - 1) :
        (left \o right)[i] = IF i < k THEN seq[i] ELSE seq[i + 1]
  <2> SUFFICES ASSUME NEW i \in 1..(Len(seq) - 1)
               PROVE  (left \o right)[i] = IF i < k THEN seq[i] ELSE seq[i + 1]
    OBVIOUS
  <2>1. CASE i < k
    BY <2>1, <1>1, <1>2, <1>4
  <2>2. CASE i >= k
    <3>1. i - (k - 1) \in 1..(Len(seq) - k) /\ k + (i - (k - 1)) = i + 1
      BY <2>2, <1>1
    <3>2. right[i - (k - 1)] = seq[i + 1]
      BY <3>1, <1>3
    <3> QED
      BY <2>2, <3>2, <1>1, <1>4
  <2>3. i < k \/ i >= k
    BY <1>1
  <2> QED
    BY <2>1, <2>2, <2>3
<1> QED
  BY <1>4, <1>5 DEF RemoveAt, left, right

(* No stream twice: the server's path set may have an id twice.            *)
StreamsDistinct(paths) ==
  \A k, l \in DOMAIN paths : k # l => paths[k].stream # paths[l].stream

(* remove: what is left is a path set without the stream, distinct if it    *)
(* was, and nothing else is gone.                                          *)
LEMMA RemovePathProperties ==
  ASSUME NEW I, NEW T, NEW paths \in Seq([id : I, stream : T]), NEW s
  PROVE  /\ RemovePath(paths, s) \in Seq([id : I, stream : T])
         /\ IdsOf(RemovePath(paths, s)) \subseteq IdsOf(paths)
         /\ StreamsOf(RemovePath(paths, s)) \subseteq StreamsOf(paths)
         /\ StreamsOf(paths) \ {s} \subseteq StreamsOf(RemovePath(paths, s))
         /\ Distinct(paths) => Distinct(RemovePath(paths, s))
         /\ StreamsDistinct(paths) =>
              /\ StreamsDistinct(RemovePath(paths, s))
              /\ s \notin StreamsOf(RemovePath(paths, s))
<1> DEFINE k == Min(PositionsOfStream(paths, s))
<1>1. CASE s \notin StreamsOf(paths)
  BY <1>1 DEF RemovePath
<1>2. CASE s \in StreamsOf(paths)
  <2>1. Len(paths) \in Nat /\ DOMAIN paths = 1..Len(paths)
    BY LenProperties
  <2>2. k \in 1..Len(paths) /\ paths[k].stream = s
    <3>1. /\ PositionsOfStream(paths, s) \in SUBSET Nat
          /\ PositionsOfStream(paths, s) # {}
      BY <1>2, <2>1 DEF PositionsOfStream, StreamsOf
    <3>2. k \in PositionsOfStream(paths, s)
      BY <3>1, MinIsLeast
    <3> QED
      BY <2>1, <3>2 DEF PositionsOfStream
  <2> DEFINE rest == RemoveAt(paths, k)
  <2>3. /\ rest \in Seq([id : I, stream : T])
        /\ Len(rest) = Len(paths) - 1
        /\ \A i \in 1..(Len(paths) - 1) :
             rest[i] = IF i < k THEN paths[i] ELSE paths[i + 1]
    BY <2>2, RemoveAtProperties
  <2>4. DOMAIN rest = 1..(Len(paths) - 1)
    BY <2>3, LenProperties
  <2> HIDE DEF k, rest
  <2>5. IdsOf(rest) \subseteq IdsOf(paths) /\ StreamsOf(rest) \subseteq StreamsOf(paths)
    <3>1. ASSUME NEW i \in DOMAIN rest
          PROVE  \E j \in DOMAIN paths : rest[i] = paths[j]
      <4>1. i \in 1..(Len(paths) - 1) /\ i \in DOMAIN paths /\ i + 1 \in DOMAIN paths
        BY <2>1, <2>4
      <4>2. rest[i] = paths[i] \/ rest[i] = paths[i + 1]
        BY <4>1, <2>3
      <4> QED
        BY <4>1, <4>2
    <3> QED
      BY <3>1, Zenon DEF IdsOf, StreamsOf
  <2>6. StreamsOf(paths) \ {s} \subseteq StreamsOf(rest)
    <3> SUFFICES ASSUME NEW j \in 1..Len(paths), paths[j].stream # s
                 PROVE  paths[j].stream \in StreamsOf(rest)
      BY <2>1 DEF StreamsOf
    <3>1. CASE j < k
      BY <3>1, <2>1, <2>2, <2>3, <2>4 DEF StreamsOf
    <3>2. CASE j > k
      <4>1. j - 1 \in 1..(Len(paths) - 1) /\ rest[j - 1] = paths[j]
        BY <3>2, <2>1, <2>2, <2>3
      <4> QED
        BY <4>1, <2>4 DEF StreamsOf
    <3> QED
      BY <3>1, <3>2, <2>1, <2>2
  <2>7. /\ Distinct(paths) => Distinct(rest)
        /\ StreamsDistinct(paths) => StreamsDistinct(rest) /\ s \notin StreamsOf(rest)
    <3> DEFINE from(i) == IF i < k THEN i ELSE i + 1
    <3>1. \A i \in DOMAIN rest :
            from(i) \in DOMAIN paths \ {k} /\ rest[i] = paths[from(i)]
      BY <2>1, <2>2, <2>3, <2>4
    <3>2. \A i, j \in DOMAIN rest : i # j => from(i) # from(j)
      BY <2>1, <2>2, <2>4
    <3> HIDE DEF from
    <3>3. k \in DOMAIN paths
      BY <2>1, <2>2
    <3>4. Distinct(paths) => Distinct(rest)
      BY <3>1, <3>2 DEF Distinct
    <3>5. StreamsDistinct(paths) => StreamsDistinct(rest)
      BY <3>1, <3>2 DEF StreamsDistinct
    <3>6. StreamsDistinct(paths) => \A i \in DOMAIN rest : rest[i].stream # s
      BY <2>2, <3>1, <3>3 DEF StreamsDistinct
    <3> QED
      BY <3>4, <3>5, <3>6 DEF StreamsOf
  <2> QED
    BY <1>2, <2>3, <2>5, <2>6, <2>7 DEF RemovePath, rest, k
<1> QED
  BY <1>1, <1>2

(* After a removal the scan starts inside the slice that is left.          *)
LEMMA NextAfterRemoveInRange ==
  ASSUME NEW I, NEW T, NEW paths \in Seq([id : I, stream : T]), NEW s,
         NEW next \in Nat, next = 0 \/ next < Len(paths)
  PROVE  /\ NextAfterRemove(paths, next, s) \in Nat
         /\ \/ NextAfterRemove(paths, next, s) = 0
            \/ NextAfterRemove(paths, next, s) < Len(RemovePath(paths, s))
<1> DEFINE left == Len(RemovePath(paths, s))
<1>1. left \in Nat
  BY RemovePathProperties, LenProperties
<1>2. CASE s \notin StreamsOf(paths)
  BY <1>2 DEF NextAfterRemove, RemovePath
<1>3. CASE s \in StreamsOf(paths)
  <2>1. NextAfterRemove(paths, next, s) =
          IF left = 0 THEN 0 ELSE IF next >= left THEN next % left ELSE next
    BY <1>3 DEF NextAfterRemove
  <2> HIDE DEF left
  <2>2. left # 0 => next % left \in 0..(left - 1)
    BY <1>1
  <2> QED
    BY <1>1, <2>1, <2>2 DEF left
<1> QED
  BY <1>2, <1>3

(* add of an id the set does not have: the path goes last, nothing is       *)
(* replaced, and a new stream keeps the set distinct.                      *)
LEMMA AddPathProperties ==
  ASSUME NEW P, NEW paths \in Seq(P), NEW path \in P, path.id \notin IdsOf(paths)
  PROVE  /\ AddPath(paths, path) = Append(paths, path)
         /\ AddPath(paths, path) \in Seq(P)
         /\ Len(AddPath(paths, path)) = Len(paths) + 1
         /\ Replaced(paths, path) = {}
         /\ IdsOf(AddPath(paths, path)) = IdsOf(paths) \cup {path.id}
         /\ StreamsOf(AddPath(paths, path)) = StreamsOf(paths) \cup {path.stream}
         /\ Distinct(paths) /\ path.stream \notin StreamsOf(paths)
              => Distinct(AddPath(paths, path))
<1> DEFINE more == Append(paths, path)
           i    == path.id
           s    == path.stream
<1>1. path \in P /\ path.id = i /\ path.stream = s
  OBVIOUS
<1>2. AddPath(paths, path) = more /\ Replaced(paths, path) = {}
  BY <1>1 DEF AddPath, Replaced, HasPathID
<1>3. Len(paths) \in Nat /\ DOMAIN paths = 1..Len(paths)
  BY LenProperties
<1>4. /\ more \in Seq(P)
      /\ Len(more) = Len(paths) + 1
      /\ \A k \in 1..Len(paths) : more[k] = paths[k]
      /\ more[Len(paths) + 1] = path
  BY <1>1, AppendProperties
<1>5. DOMAIN more = 1..(Len(paths) + 1)
  BY <1>4, LenProperties
<1> HIDE DEF i, s, more
<1>6. DOMAIN more = DOMAIN paths \cup {Len(paths) + 1}
  BY <1>3, <1>5
<1>7. Len(paths) + 1 \notin DOMAIN paths
  BY <1>3
<1>8. IdsOf(more) = IdsOf(paths) \cup {i} /\ StreamsOf(more) = StreamsOf(paths) \cup {s}
  BY <1>1, <1>3, <1>4, <1>6 DEF IdsOf, StreamsOf
<1>9. Distinct(paths) /\ s \notin StreamsOf(paths) => Distinct(more)
  <2> SUFFICES ASSUME Distinct(paths), s \notin StreamsOf(paths),
                      NEW k \in DOMAIN more, NEW l \in DOMAIN more, k # l
               PROVE  more[k].id # more[l].id /\ more[k].stream # more[l].stream
    BY DEF Distinct
  <2>1. \A m \in DOMAIN paths : paths[m].id # i /\ paths[m].stream # s
    BY DEF i, IdsOf, StreamsOf
  <2>2. CASE k \in DOMAIN paths /\ l \in DOMAIN paths
    BY <2>2, <1>3, <1>4 DEF Distinct
  <2>3. CASE k \in DOMAIN paths /\ l = Len(paths) + 1
    BY <2>1, <2>3, <1>1, <1>3, <1>4
  <2>4. CASE k = Len(paths) + 1 /\ l \in DOMAIN paths
    BY <2>1, <2>4, <1>1, <1>3, <1>4
  <2> QED
    BY <2>2, <2>3, <2>4, <1>6
<1> QED
  BY <1>2, <1>4, <1>8, <1>9 DEF i, s, more

(* Remainders, for the prover: x % n is a slice index, and counting n on    *)
(* from an index comes back to it.                                         *)
LEMMA ModIsIndex ==
  ASSUME NEW n \in Nat \ {0}, NEW x \in Nat
  PROVE  x % n \in 0..(n - 1)
OBVIOUS

LEMMA ModOfIndex ==
  ASSUME NEW n \in Nat \ {0}, NEW j \in 0..(n - 1)
  PROVE  j % n = j /\ (j + n) % n = j
OBVIOUS

(* nextPath: the index is one of the slice, so the access never panics, and *)
(* a path that is cooling down is taken only when every path is.           *)
THEOREM NextIndexPrefersWarm ==
  ASSUME NEW I, NEW T, NEW paths \in Seq([id : I, stream : T]), paths # << >>,
         NEW next \in Nat, NEW cooling
  PROVE  LET index == NextIndex(paths, next, cooling)
         IN  /\ index \in 0..(Len(paths) - 1)
             /\ PathAt(paths, index) \in [id : I, stream : T]
             /\ PathAt(paths, index).stream \in StreamsOf(paths)
             /\ NextAfter(paths, index) \in 0..(Len(paths) - 1)
             /\ PathAt(paths, index).id \in cooling => IdsOf(paths) \subseteq cooling
<1> DEFINE n     == Len(paths)
           start == next % n
           warm  == {k \in 0..(n - 1) : paths[((start + k) % n) + 1].id \notin cooling}
           index == NextIndex(paths, next, cooling)
<1>1. n \in Nat \ {0} /\ DOMAIN paths = 1..n
  BY LenProperties, EmptySeq
<1>2. index = IF warm = {} THEN start ELSE (start + Min(warm)) % n
  BY DEF NextIndex
<1> HIDE DEF n, index
<1>3. start \in 0..(n - 1)
  BY <1>1, ModIsIndex
<1>4. warm # {} => Min(warm) \in warm
  <2>1. warm \in SUBSET Nat
    BY <1>1
  <2> HIDE DEF warm
  <2> QED
    BY <2>1, MinIsLeast
<1> HIDE DEF start
<1>5. index \in 0..(n - 1)
  <2>1. CASE warm = {}
    BY <2>1, <1>2, <1>3
  <2>2. CASE warm # {}
    <3>1. Min(warm) \in Nat
      BY <2>2, <1>1, <1>4
    <3> HIDE DEF warm
    <3>2. start + Min(warm) \in Nat
      BY <3>1, <1>1, <1>3
    <3> QED
      BY <2>2, <3>2, <1>1, <1>2, ModIsIndex
  <2> QED
    BY <2>1, <2>2
<1>6. index + 1 \in 1..n /\ paths[index + 1] \in [id : I, stream : T]
  <2>1. index + 1 \in 1..n
    BY <1>1, <1>5
  <2> QED
    BY <2>1, ElementOfSeq DEF n
<1>7. (index + 1) % n \in 0..(n - 1)
  <2>1. index + 1 \in Nat
    BY <1>1, <1>5
  <2> QED
    BY <2>1, <1>1, ModIsIndex
<1>8. paths[index + 1].id \in cooling => IdsOf(paths) \subseteq cooling
  <2> SUFFICES ASSUME paths[index + 1].id \in cooling,
                      NEW p \in 1..n, paths[p].id \notin cooling
               PROVE  FALSE
    BY <1>1 DEF IdsOf
  <2> DEFINE j == p - 1
  <2>0. j \in 0..(n - 1) /\ paths[j + 1].id \notin cooling
    BY <1>1
  <2> HIDE DEF j
  <2>1. CASE warm # {}
    <3>1. paths[((start + Min(warm)) % n) + 1].id \notin cooling
      BY <2>1, <1>4
    <3> QED
      BY <2>1, <3>1, <1>2
  <2>2. CASE warm = {}
    <3>1. PICK k \in 0..(n - 1) : (start + k) % n = j
      <4>1. CASE start <= j
        <5>1. j - start \in 0..(n - 1) /\ start + (j - start) = j
          BY <4>1, <2>0, <1>1, <1>3
        <5> QED
          BY <5>1, <2>0, <1>1, ModOfIndex
      <4>2. CASE j < start
        <5>1. j + n - start \in 0..(n - 1) /\ start + (j + n - start) = j + n
          BY <4>2, <2>0, <1>1, <1>3
        <5> QED
          BY <5>1, <2>0, <1>1, ModOfIndex
      <4> QED
        BY <4>1, <4>2, <2>0, <1>1, <1>3
    <3> QED
      BY <2>0, <2>2, <3>1
  <2> QED
    BY <2>1, <2>2
<1> QED
  BY <1>1, <1>5, <1>6, <1>7, <1>8 DEF n, index, PathAt, NextAfter, StreamsOf
=============================================================================
