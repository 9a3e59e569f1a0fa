-------------------------- MODULE CandleFeedProofs --------------------------
(***************************************************************************)
(* Proofs about the bars of a day and what the analysis makes of them, for *)
(* every set of shapes, number of periods and bucket width.                *)
(*                                                                         *)
(* The invariant IInv says that bars appear in sequence: when a bar for a  *)
(* period is in the payload, bars for all earlier periods are.  So the     *)
(* starts are 0 .. n - 1, the candles of a payload are those of the first  *)
(* periods, and the closed ones are a prefix of them that depends only on  *)
(* bars that had ended.  Each property is then a fact about two such       *)
(* prefixes.  Sets are put in order by counting smaller elements, so no    *)
(* induction over data is needed; the running sums of EqualLevelZones need *)
(* induction over an index, and get it from the least counterexample.      *)
(***************************************************************************)
EXTENDS CandleFeed, DecisionOpsProofs, FiniteSetTheorems, SequenceTheorems

-----------------------------------------------------------------------------
(*****************************************************************************)
(* Sets in order: InOrder lists a finite set of integers; Picked selects.    *)
(*****************************************************************************)
\* How many elements of S are before t.
RankIn(S, R, t) == Cardinality({u \in S : <<u, t>> \in R})

\* In a finite set under a strict total order some element has any given rank
\* below the cardinality.
LEMMA RankExists ==
  ASSUME NEW S, IsFiniteSet(S), NEW R,
         \A x \in S : <<x, x>> \notin R,
         \A x, y, z \in S : <<x, y>> \in R /\ <<y, z>> \in R => <<x, z>> \in R,
         \A x, y \in S : x = y \/ <<x, y>> \in R \/ <<y, x>> \in R,
         NEW k \in 1 .. Cardinality(S)
  PROVE  \E t \in S : RankIn(S, R, t) = k - 1
<1> DEFINE Below(t) == {u \in S : <<u, t>> \in R}
           n == Cardinality(S)
           r == [t \in S |-> Cardinality(Below(t))]
<1>1. n \in Nat
  BY FS_CardinalityType
<1>2. ASSUME NEW t \in S
      PROVE  IsFiniteSet(Below(t)) /\ r[t] \in 0 .. n - 1
  <2>1. Below(t) \in SUBSET (S \ {t}) /\ r[t] = Cardinality(Below(t))
    OBVIOUS
  <2>2. IsFiniteSet(S \ {t}) /\ Cardinality(S \ {t}) = n - 1
    BY FS_RemoveElement
  <2> HIDE DEF Below, r, n
  <2>3. IsFiniteSet(Below(t)) /\ Cardinality(Below(t)) <= n - 1
    BY <2>1, <2>2, FS_Subset
  <2>4. Cardinality(Below(t)) \in Nat
    BY <2>3, FS_CardinalityType
  <2>5. QED
    BY <2>1, <2>3, <2>4, <1>1
<1>3. ASSUME NEW x \in S, NEW y \in S, <<x, y>> \in R
      PROVE  r[x] < r[y]
  <2>1. Below(x) \in SUBSET Below(y) /\ Below(x) # Below(y)
    BY <1>3
  <2>2. IsFiniteSet(Below(y)) /\ r[x] \in 0 .. n - 1 /\ r[y] \in 0 .. n - 1
    BY <1>2
  <2>3. r[x] = Cardinality(Below(x)) /\ r[y] = Cardinality(Below(y))
    OBVIOUS
  <2> HIDE DEF Below, r, n
  <2>4. Cardinality(Below(x)) <= Cardinality(Below(y)) /\ Cardinality(Below(x)) # Cardinality(Below(y))
    BY <2>1, <2>2, FS_Subset
  <2>5. QED
    BY <2>2, <2>3, <2>4, <1>1
<1>4. SUFFICES ASSUME \A t \in S : r[t] # k - 1
               PROVE  FALSE
  BY DEF RankIn
<1> DEFINE T == (0 .. n - 1) \ {k - 1}
<1>5. IsFiniteSet(T) /\ Cardinality(T) = n - 1
  <2>1. k - 1 \in 0 .. n - 1
    BY <1>1
  <2> HIDE DEF n
  <2>2. 0 \in Int /\ n - 1 \in Int /\ IF 0 > n - 1 THEN n = 0 ELSE n - 1 - 0 + 1 = n
    BY <1>1
  <2>3. IsFiniteSet(0 .. n - 1) /\ Cardinality(0 .. n - 1) = n
    BY <2>2, FS_Interval
  <2> DEFINE N == 0 .. n - 1
  <2>4. k - 1 \in N /\ IsFiniteSet(N) /\ Cardinality(N) = n /\ T = N \ {k - 1}
    BY <2>1, <2>3
  <2> HIDE DEF N, T
  <2>5. IsFiniteSet(N \ {k - 1}) /\ Cardinality(N \ {k - 1}) = Cardinality(N) - 1
    BY <2>4, FS_RemoveElement
  <2>6. QED
    BY <2>4, <2>5
<1>6. r \in [S -> T]
  BY <1>2, <1>4
<1> HIDE DEF r, T, n
<1>7. \E x, y \in S : x # y /\ r[x] = r[y]
  <2>1. Cardinality(T) < Cardinality(S)
    BY <1>1, <1>5 DEF n
  <2>2. QED
    BY <1>5, <1>6, <2>1, FS_PigeonHole
<1>8. \A x \in S : r[x] \in 0 .. n - 1
  BY <1>2
<1>9. PICK x \in S, y \in S : x # y /\ r[x] = r[y]
  BY <1>7
<1>10. r[x] < r[y] \/ r[y] < r[x]
  BY <1>3, <1>9
<1>11. QED
  BY <1>1, <1>8, <1>9, <1>10

\* How many elements of S are smaller.
Rank(S, t) == Cardinality({u \in S : u < t})

\* Strictly ascending integers.
Ascends(s) == \A i, j \in DOMAIN s : i < j => s[i] < s[j]

\* AsSeq changes nothing: a function on 1 .. n is the sequence it describes.
LEMMA AsSeqIs ==
  ASSUME NEW n \in Nat, NEW S, NEW f \in [1 .. n -> S]
  PROVE  AsSeq(f) = f /\ f \in Seq(S) /\ Len(f) = n /\ DOMAIN f = 1 .. n
<1>1. DOMAIN f = 1 .. n
  OBVIOUS
<1>2. f \in Seq(S)
  BY SeqDef
<1>3. QED
  BY <1>2, <1>1, ConcatEmptySeq, LenProperties DEF AsSeq

\* InOrder lists the elements of a finite set of integers, the k-th having k - 1
\* smaller ones, in ascending order.
LEMMA InOrderIs ==
  ASSUME NEW S, IsFiniteSet(S), S \subseteq Int
  PROVE  /\ InOrder(S) \in Seq(S)
         /\ Len(InOrder(S)) = Cardinality(S)
         /\ DOMAIN InOrder(S) = 1 .. Cardinality(S)
         /\ \A k \in 1 .. Cardinality(S) :
              InOrder(S)[k] \in S /\ Rank(S, InOrder(S)[k]) = k - 1
         /\ Ascends(InOrder(S))
<1> DEFINE n == Cardinality(S)
           Elem(k) == CHOOSE t \in S : Cardinality({u \in S : u < t}) = k - 1
           f == [k \in 1 .. n |-> Elem(k)]
           R == {p \in S \X S : p[1] < p[2]}
<1>1. n \in Nat
  BY FS_CardinalityType
<1>2. ASSUME NEW k \in 1 .. n
      PROVE  Elem(k) \in S /\ Cardinality({u \in S : u < Elem(k)}) = k - 1
  <2>1. \A x, y \in S : <<x, y>> \in R <=> x < y
    OBVIOUS
  <2> HIDE DEF R
  <2>2. \E t \in S : RankIn(S, R, t) = k - 1
    <3>1. \A x \in S : <<x, x>> \notin R
      BY <2>1
    <3>2. \A x, y, z \in S : <<x, y>> \in R /\ <<y, z>> \in R => <<x, z>> \in R
      BY <2>1
    <3>3. ASSUME NEW x \in S, NEW y \in S
          PROVE  x = y \/ <<x, y>> \in R \/ <<y, x>> \in R
      <4>1. x \in Int /\ y \in Int
        OBVIOUS
      <4>2. x = y \/ x < y \/ y < x
        BY <4>1
      <4>3. QED
        BY <4>2, <2>1
    <3>4. QED
      BY ONLY <3>1, <3>2, <3>3, RankExists, IsFiniteSet(S), k \in 1 .. n DEF n
  <2>3. \A t \in S : {u \in S : <<u, t>> \in R} = {u \in S : u < t}
    BY <2>1
  <2>4. \E t \in S : Cardinality({u \in S : u < t}) = k - 1
    BY <2>2, <2>3 DEF RankIn
  <2>5. QED
    BY <2>4
<1>3. InOrder(S) = AsSeq(f)
  BY DEF InOrder
<1>5. f \in [1 .. n -> S]
  BY <1>2
<1>6. \A k \in 1 .. n : f[k] \in S /\ Cardinality({u \in S : u < f[k]}) = k - 1
  BY <1>2
<1> HIDE DEF Elem, f, n
<1>7. InOrder(S) = f /\ Len(f) = n /\ DOMAIN f = 1 .. n
  BY <1>1, <1>3, <1>5, AsSeqIs
<1>8. f \in Seq(S)
  BY <1>1, <1>5, SeqDef
<1>9. ASSUME NEW i \in 1 .. n, NEW j \in 1 .. n, i < j
      PROVE  f[i] < f[j]
  <2>1. f[i] \in Int /\ f[j] \in Int
    BY <1>6
  <2>2. SUFFICES ASSUME f[j] <= f[i] PROVE FALSE
    BY <2>1
  <2> DEFINE A == {u \in S : u < f[j]}
             B == {u \in S : u < f[i]}
  <2>3. A \in SUBSET B /\ B \in SUBSET S
    <3>1. \A u \in S : u \in Int
      OBVIOUS
    <3>2. \A u \in S : u < f[j] => u < f[i]
      BY <3>1, <2>1, <2>2
    <3>3. QED
      BY <3>2
  <2>4. Cardinality(A) = j - 1 /\ Cardinality(B) = i - 1
    BY <1>6
  <2> HIDE DEF A, B
  <2>5. IsFiniteSet(B)
    BY <2>3, FS_Subset
  <2>6. Cardinality(A) <= Cardinality(B)
    BY <2>3, <2>5, FS_Subset
  <2>7. QED
    BY <2>4, <2>6, <1>9, <1>1
<1>10. QED
  BY <1>1, <1>6, <1>7, <1>8, <1>9 DEF n, Ascends, Rank

\* No two elements have the same rank.
LEMMA SameRank ==
  ASSUME NEW S, IsFiniteSet(S), S \subseteq Int, NEW s \in S, NEW t \in S,
         Rank(S, s) = Rank(S, t)
  PROVE  s = t
<1>1. ASSUME NEW x \in S, NEW y \in S, x < y
      PROVE  Rank(S, x) # Rank(S, y)
  <2> DEFINE A == {u \in S : u < x}
             B == {u \in S : u < y}
  <2>1. x \in Int /\ y \in Int /\ \A u \in S : u \in Int
    OBVIOUS
  <2>2. \A u \in S : u < x => u < y
    BY <1>1, <2>1
  <2>3. x \in B /\ x \notin A
    BY <1>1, <2>1
  <2>4. A \in SUBSET B /\ B \in SUBSET S /\ A # B
    BY <2>2, <2>3
  <2> HIDE DEF A, B
  <2>5. IsFiniteSet(B)
    BY <2>4, FS_Subset
  <2>6. Cardinality(A) # Cardinality(B)
    BY <2>4, <2>5, FS_Subset
  <2>7. QED
    BY <2>6 DEF A, B, Rank
<1>2. s \in Int /\ t \in Int
  OBVIOUS
<1>3. s < t \/ t < s \/ s = t
  BY <1>2
<1>4. QED
  BY <1>1, <1>3

\* The element of rank k, and no other, is the k-th in order.
LEMMA InOrderRank ==
  ASSUME NEW S, IsFiniteSet(S), S \subseteq Int, NEW k \in 1 .. Cardinality(S), NEW t \in S,
         Rank(S, t) = k - 1
  PROVE  InOrder(S)[k] = t
BY InOrderIs, SameRank

\* Every element is listed.
LEMMA InOrderOnto ==
  ASSUME NEW S, IsFiniteSet(S), S \subseteq Int, NEW t \in S
  PROVE  \E k \in 1 .. Cardinality(S) : InOrder(S)[k] = t
<1> DEFINE A == {u \in S : u < t}
           k == Cardinality(A) + 1
<1>1. t \in Int /\ t \notin A
  OBVIOUS
<1>2. A \in SUBSET (S \ {t})
  BY <1>1
<1> HIDE DEF A
<1>3. IsFiniteSet(S \ {t}) /\ Cardinality(S \ {t}) = Cardinality(S) - 1
  BY FS_RemoveElement
<1>4. IsFiniteSet(A) /\ Cardinality(A) <= Cardinality(S) - 1
  BY <1>2, <1>3, FS_Subset, ZenonT(60)
<1>5. Cardinality(A) \in Nat /\ Cardinality(S) \in Nat
  BY <1>4, FS_CardinalityType
<1>6. k \in 1 .. Cardinality(S) /\ Rank(S, t) = k - 1
  BY <1>4, <1>5 DEF A, Rank
<1> HIDE DEF k
<1>7. InOrder(S)[k] = t
  BY <1>6, InOrderRank
<1>8. QED
  BY <1>6, <1>7

\* Elements that precede all others come first in the list.
LEMMA InOrderPrefix ==
  ASSUME NEW T, IsFiniteSet(T), T \subseteq Int, NEW S \in SUBSET T,
         \A s \in S : \A t \in T \ S : s < t
  PROVE  /\ IsFiniteSet(S) /\ Cardinality(S) <= Cardinality(T)
         /\ \A k \in 1 .. Cardinality(S) : InOrder(T)[k] = InOrder(S)[k]
<1>1. IsFiniteSet(S) /\ Cardinality(S) <= Cardinality(T)
  BY FS_Subset
<1>2. Cardinality(S) \in Nat /\ Cardinality(T) \in Nat
  BY <1>1, FS_CardinalityType
<1>3. ASSUME NEW k \in 1 .. Cardinality(S)
      PROVE  InOrder(T)[k] = InOrder(S)[k]
  <2> DEFINE t == InOrder(S)[k]
  <2>1. t \in S /\ Rank(S, t) = k - 1
    BY <1>1, InOrderIs
  <2> HIDE DEF t
  <2>2. ASSUME NEW u \in T, u < t
        PROVE  u \in S
    <3>1. u \in Int /\ t \in Int
      BY <2>1
    <3>2. QED
      BY <2>1, <2>2, <3>1
  <2>3. {u \in T : u < t} = {u \in S : u < t}
    BY <2>2
  <2>4. t \in T /\ k \in 1 .. Cardinality(T) /\ Rank(T, t) = k - 1
    BY <1>1, <1>2, <2>1, <2>3 DEF Rank
  <2>5. InOrder(T)[k] = t
    BY <2>4, InOrderRank
  <2>6. QED
    BY <2>5 DEF t
<1>4. QED
  BY <1>1, <1>3

\* An interval is listed from its lower end.
LEMMA InOrderInterval ==
  ASSUME NEW a \in Int, NEW n \in Nat
  PROVE  /\ IsFiniteSet(a .. a + n - 1) /\ Cardinality(a .. a + n - 1) = n
         /\ \A k \in 1 .. n : InOrder(a .. a + n - 1)[k] = a + k - 1
<1> DEFINE S == a .. a + n - 1
<1>1. ASSUME NEW m \in Nat
      PROVE  IsFiniteSet(a .. a + m - 1) /\ Cardinality(a .. a + m - 1) = m
  <2>1. a + m - 1 \in Int /\ (a > a + m - 1 => m = 0) /\ a + m - 1 - a + 1 = m
    OBVIOUS
  <2>2. QED
    BY <2>1, FS_Interval
<1>2. IsFiniteSet(S) /\ Cardinality(S) = n
  BY <1>1
<1>3. ASSUME NEW k \in 1 .. n
      PROVE  InOrder(S)[k] = a + k - 1
  <2>1. {u \in S : u < a + k - 1} = a .. a + (k - 1) - 1
    OBVIOUS
  <2>2. k - 1 \in Nat /\ a + k - 1 \in S /\ S \subseteq Int
    OBVIOUS
  <2>3. Rank(S, a + k - 1) = k - 1
    BY <1>1, <2>1, <2>2 DEF Rank
  <2> HIDE DEF S
  <2>4. QED
    BY <1>2, <2>2, <2>3, InOrderRank
<1>4. QED
  BY <1>2, <1>3

\* Picked gives as many elements as there are indices, each from its index.
LEMMA PickedIs ==
  ASSUME NEW S, NEW s \in Seq(S), NEW I \in SUBSET (1 .. Len(s))
  PROVE  /\ IsFiniteSet(I) /\ Cardinality(I) \in Nat /\ I \subseteq Int
         /\ Picked(s, I) \in Seq(S)
         /\ Len(Picked(s, I)) = Cardinality(I)
         /\ DOMAIN Picked(s, I) = 1 .. Cardinality(I)
         /\ \A k \in 1 .. Cardinality(I) :
              InOrder(I)[k] \in I /\ Picked(s, I)[k] = s[InOrder(I)[k]]
<1>1. IsFiniteSet(I) /\ I \subseteq Int
  <2>1. Len(s) \in Nat
    BY LenProperties
  <2>2. IsFiniteSet(1 .. Len(s))
    BY <2>1, FS_Interval
  <2>3. IsFiniteSet(I)
    BY <2>2, FS_Subset
  <2>4. QED
    BY <2>1, <2>3
<1>2. Cardinality(I) \in Nat
  BY <1>1, FS_CardinalityType
<1> DEFINE n == Cardinality(I)
           f == [k \in 1 .. n |-> s[InOrder(I)[k]]]
<1>3. DOMAIN InOrder(I) = 1 .. n /\ \A k \in 1 .. n : InOrder(I)[k] \in I
  BY <1>1, InOrderIs
<1>4. \A i \in I : s[i] \in S
  BY ElementOfSeq
<1>5. f \in [1 .. n -> S]
  BY <1>3, <1>4
<1>6. Picked(s, I) = AsSeq(f)
  BY <1>3 DEF Picked
<1>7. \A k \in 1 .. n : f[k] = s[InOrder(I)[k]]
  OBVIOUS
<1> HIDE DEF f
<1>8. AsSeq(f) = f /\ f \in Seq(S) /\ Len(f) = n /\ DOMAIN f = 1 .. n
  BY <1>2, <1>5, AsSeqIs
<1>9. QED
  BY <1>1, <1>2, <1>3, <1>6, <1>7, <1>8

\* A finite non-empty set of integers has its Max among its elements.
LEMMA MaxIs ==
  ASSUME NEW S, IsFiniteSet(S), S \subseteq Int, S # {}
  PROVE  Max(S) \in S /\ \A t \in S : t <= Max(S)
<1> DEFINE n == Cardinality(S)
           m == InOrder(S)[n]
<1>1. n \in Nat /\ n # 0
  BY FS_CardinalityType, FS_EmptySet
<1> HIDE DEF n
<1>2. n \in 1 .. n
  BY <1>1
<1>3. DOMAIN InOrder(S) = 1 .. n /\ m \in S /\ Ascends(InOrder(S))
  BY <1>2, InOrderIs DEF n
<1>4. ASSUME NEW t \in S
      PROVE  m >= t
  <2>1. PICK k \in 1 .. n : InOrder(S)[k] = t
    BY InOrderOnto DEF n
  <2>2. k = n \/ k < n
    BY <1>1
  <2>3. m \in Int /\ t \in Int
    BY <1>3
  <2>4. k < n => t < m
    BY <1>2, <1>3, <2>1 DEF Ascends
  <2>5. k = n => t = m
    BY <2>1
  <2>6. QED
    BY <2>2, <2>3, <2>4, <2>5
<1> HIDE DEF m
<1>5. Max(S) \in S /\ \A t \in S : Max(S) >= t
  BY <1>3, <1>4 DEF Max
<1>6. QED
  BY <1>5

\* And its Min.
LEMMA MinIs ==
  ASSUME NEW S, IsFiniteSet(S), S \subseteq Int, S # {}
  PROVE  Min(S) \in S /\ \A t \in S : Min(S) <= t
<1> DEFINE n == Cardinality(S)
           m == InOrder(S)[1]
<1>1. n \in Nat /\ n # 0
  BY FS_CardinalityType, FS_EmptySet
<1> HIDE DEF n
<1>2. 1 \in 1 .. n
  BY <1>1
<1>3. DOMAIN InOrder(S) = 1 .. n /\ m \in S /\ Ascends(InOrder(S))
  BY <1>2, InOrderIs DEF n
<1>4. ASSUME NEW t \in S
      PROVE  m <= t
  <2>1. PICK k \in 1 .. n : InOrder(S)[k] = t
    BY InOrderOnto DEF n
  <2>2. k = 1 \/ 1 < k
    BY <1>1
  <2>3. m \in Int /\ t \in Int
    BY <1>3
  <2>4. 1 < k => m < t
    BY <1>2, <1>3, <2>1 DEF Ascends
  <2>5. k = 1 => t = m
    BY <2>1
  <2>6. QED
    BY <2>2, <2>3, <2>4, <2>5
<1> HIDE DEF m
<1>5. QED
  BY <1>3, <1>4 DEF Min

\* Picking the first m elements gives the first m elements.
LEMMA PickedInterval ==
  ASSUME NEW S, NEW s \in Seq(S), NEW m \in 0 .. Len(s)
  PROVE  /\ Picked(s, 1 .. m) \in Seq(S)
         /\ Len(Picked(s, 1 .. m)) = m
         /\ \A k \in 1 .. m : Picked(s, 1 .. m)[k] = s[k]
<1>1. Len(s) \in Nat /\ m \in Nat
  BY LenProperties
<1>2. 1 .. 1 + m - 1 = 1 .. m /\ 1 \in Int
  BY <1>1
<1>3. Cardinality(1 .. m) = m /\ \A k \in 1 .. m : InOrder(1 .. m)[k] = 1 + k - 1
  BY <1>1, <1>2, InOrderInterval, ZenonT(60)
<1>4. 1 .. m \in SUBSET (1 .. Len(s))
  BY <1>1
<1>5. \A k \in 1 .. m : InOrder(1 .. m)[k] = k
  BY <1>1, <1>3
<1>6. QED
  BY <1>3, <1>4, <1>5, PickedIs

\* A prefix agrees wherever it is defined.
LEMMA PrefixIs ==
  ASSUME NEW S, NEW s \in Seq(S), NEW t \in Seq(S)
  PROVE  IsPrefix(s, t) <=> Len(s) <= Len(t) /\ \A k \in 1 .. Len(s) : s[k] = t[k]
<1>1. Len(s) \in Nat /\ Len(t) \in Nat
  BY LenProperties
<1>2. SUFFICES ASSUME Len(s) <= Len(t)
               PROVE  SubSeq(s, 1, Len(s)) = SubSeq(t, 1, Len(s))
                        <=> \A k \in 1 .. Len(s) : s[k] = t[k]
  BY DEF IsPrefix
<1> DEFINE a == SubSeq(s, 1, Len(s))
           b == SubSeq(t, 1, Len(s))
           n == Len(s)
<1>3. 1 \in Int /\ n \in Int /\ (IF 1 <= n THEN n - 1 + 1 ELSE 0) = n /\ n - 1 + 1 = n
  BY <1>1
<1>4. \A i \in 1 .. n : s[i] \in S /\ t[i] \in S /\ 1 + i - 1 = i
  BY <1>1, <1>2, ElementOfSeq
<1>5. a \in Seq(S) /\ Len(a) = n /\ \A i \in 1 .. n : a[i] = s[i]
  BY <1>3, <1>4, SubSeqProperties
<1>6. b \in Seq(S) /\ Len(b) = n /\ \A i \in 1 .. n : b[i] = t[i]
  BY <1>3, <1>4, SubSeqProperties
<1> HIDE DEF a, b
<1>7. a = b <=> \A i \in 1 .. n : a[i] = b[i]
  BY <1>5, <1>6, SeqEqual
<1>8. QED
  BY <1>5, <1>6, <1>7 DEF a, b

\* More indices, all after the old ones, extend what is picked.
LEMMA PickedPrefix ==
  ASSUME NEW S, NEW s \in Seq(S), NEW t \in Seq(S),
         NEW J \in SUBSET (1 .. Len(t)), NEW I \in SUBSET J, I \in SUBSET (1 .. Len(s)),
         \A i \in I : s[i] = t[i],
         \A i \in I : \A j \in J \ I : i < j
  PROVE  IsPrefix(Picked(s, I), Picked(t, J))
<1>1. IsFiniteSet(J) /\ J \subseteq Int
  BY PickedIs
<1>2. Cardinality(I) <= Cardinality(J)
      /\ \A k \in 1 .. Cardinality(I) : InOrder(J)[k] = InOrder(I)[k]
  BY <1>1, InOrderPrefix
<1>3. Cardinality(I) \in Nat /\ Cardinality(J) \in Nat
  BY PickedIs
<1>4. \A k \in 1 .. Cardinality(I) : Picked(s, I)[k] = s[InOrder(I)[k]] /\ InOrder(I)[k] \in I
  BY PickedIs
<1>5. \A k \in 1 .. Cardinality(J) : Picked(t, J)[k] = t[InOrder(J)[k]]
  BY PickedIs
<1>6. ASSUME NEW k \in 1 .. Cardinality(I)
      PROVE  Picked(s, I)[k] = Picked(t, J)[k]
  <2>1. k \in 1 .. Cardinality(J)
    BY <1>2, <1>3
  <2>2. QED
    BY <2>1, <1>2, <1>4, <1>5, ZenonT(60)
<1>7. /\ Picked(s, I) \in Seq(S) /\ Len(Picked(s, I)) = Cardinality(I)
      /\ Picked(t, J) \in Seq(S) /\ Len(Picked(t, J)) = Cardinality(J)
  BY PickedIs
<1>8. QED
  BY <1>2, <1>6, <1>7, PrefixIs

-----------------------------------------------------------------------------
(*****************************************************************************)
(* Swings: typed, picked from the candidates, and final once confirmed.      *)
(*****************************************************************************)
CandleType ==
  [start : Nat, end : Nat, open : Nat, high : Nat, low : Nat, close : Nat, is_closed : BOOLEAN]

SwingType == [kind : {"HIGH", "LOW"}, index : Nat, price : Nat]

\* Closed candles are candles, and closed.
LEMMA ClosedIs ==
  ASSUME NEW cs \in Seq(CandleType)
  PROVE  /\ Closed(cs) \in Seq(CandleType)
         /\ \A i \in 1 .. Len(Closed(cs)) : \E j \in 1 .. Len(cs) :
              Closed(cs)[i] = cs[j] /\ cs[j].is_closed
<1> DEFINE I == {i \in DOMAIN cs : cs[i].is_closed}
<1>1. DOMAIN cs = 1 .. Len(cs)
  BY LenProperties
<1>2. I \in SUBSET (1 .. Len(cs)) /\ \A i \in I : cs[i].is_closed
  BY <1>1
<1>3. Closed(cs) = Picked(cs, I)
  BY DEF Closed
<1> HIDE DEF I
<1>4. /\ Picked(cs, I) \in Seq(CandleType) /\ Len(Picked(cs, I)) = Cardinality(I)
      /\ \A k \in 1 .. Cardinality(I) : InOrder(I)[k] \in I /\ Picked(cs, I)[k] = cs[InOrder(I)[k]]
  BY <1>2, PickedIs
<1>5. \A k \in 1 .. Cardinality(I) : \E j \in 1 .. Len(cs) : Picked(cs, I)[k] = cs[j] /\ cs[j].is_closed
  BY <1>2, <1>4
<1>6. QED
  BY <1>3, <1>4, <1>5

\* Two candidates for each candle, at its index (swings.py:45-60).
LEMMA CandidatesAre ==
  ASSUME NEW cs \in Seq(CandleType)
  PROVE  /\ Candidates(cs) \in Seq(SwingType)
         /\ Len(Candidates(cs)) = 2 * Len(cs)
         /\ \A s \in 1 .. 2 * Len(cs) :
              /\ Candidates(cs)[s] = Candidate(cs, s)
              /\ Candidate(cs, s) \in SwingType
              /\ Candidate(cs, s).index = (s + 1) \div 2
              /\ (s + 1) \div 2 \in 1 .. Len(cs)
<1> DEFINE n == Len(cs)
           f == [s \in 1 .. 2 * n |-> Candidate(cs, s)]
<1>1. n \in Nat
  BY LenProperties
<1>2. ASSUME NEW s \in 1 .. 2 * n
      PROVE  /\ Candidate(cs, s) \in SwingType
             /\ Candidate(cs, s).index = (s + 1) \div 2
             /\ (s + 1) \div 2 \in 1 .. n
  <2> DEFINE i == (s + 1) \div 2
  <2>1. i \in 1 .. n
    BY <1>1
  <2>2. cs[i] \in CandleType
    BY <2>1, ElementOfSeq
  <2>3. cs[i].high \in Nat /\ cs[i].low \in Nat
    BY <2>2 DEF CandleType
  <2>4. Candidate(cs, s) = IF s % 2 = 1 THEN [kind |-> "HIGH", index |-> i, price |-> cs[i].high]
                           ELSE [kind |-> "LOW", index |-> i, price |-> cs[i].low]
    BY DEF Candidate
  <2> HIDE DEF i
  <2>5. Candidate(cs, s) \in SwingType /\ Candidate(cs, s).index = i
    BY <2>1, <2>3, <2>4, <1>1 DEF SwingType
  <2>6. QED
    BY <2>1, <2>5 DEF i
<1>3. f \in [1 .. 2 * n -> SwingType] /\ 2 * n \in Nat
  BY <1>1, <1>2
<1>4. Candidates(cs) = AsSeq(f)
  BY DEF Candidates
<1>5. \A s \in 1 .. 2 * n : f[s] = Candidate(cs, s)
  OBVIOUS
<1> HIDE DEF f
<1>6. AsSeq(f) = f /\ f \in Seq(SwingType) /\ Len(f) = 2 * n
  BY <1>3, AsSeqIs
<1>7. QED
  BY <1>2, <1>4, <1>5, <1>6

\* Where the confirmed swings are among the candidates.
SwingSlots(closed, b) ==
  {s \in 1 .. 2 * Len(closed) :
     LET i == (s + 1) \div 2
     IN /\ i > Lookback /\ i + Lookback <= Len(closed)
        /\ closed[i + Lookback].end <= b
        /\ IsExtreme(Candidate(closed, s), SubSeq(closed, i - Lookback, i + Lookback))}

\* find_swings picks the confirmed extremes among the candidates.
LEMMA SwingsArePicked ==
  ASSUME NEW candles, Closed(candles) \in Seq(CandleType), NEW b
  PROVE  FindSwings(candles, b)
           = Picked(Candidates(Closed(candles)), SwingSlots(Closed(candles), b))
<1> DEFINE closed == Closed(candles)
           all == Candidates(closed)
           Window(i) == SubSeq(closed, i - Lookback, i + Lookback)
           Confirmed(i) == /\ i > Lookback /\ i + Lookback <= Len(closed)
                           /\ closed[i + Lookback].end <= b
           I == {s \in DOMAIN all : /\ Confirmed(all[s].index)
                                    /\ IsExtreme(all[s], Window(all[s].index))}
<1>1. FindSwings(candles, b) = Picked(all, I)
  BY DEF FindSwings
<1>2. DOMAIN all = 1 .. 2 * Len(closed)
  BY CandidatesAre, LenProperties
<1>3. \A s \in 1 .. 2 * Len(closed) :
        all[s] = Candidate(closed, s) /\ all[s].index = (s + 1) \div 2
  BY CandidatesAre
<1> HIDE DEF all
<1>4. I = SwingSlots(closed, b)
  BY <1>2, <1>3 DEF SwingSlots
<1>5. QED
  BY <1>1, <1>4 DEF all

\* What find_swings returns are swings.
LEMMA SwingsType ==
  ASSUME NEW candles, Closed(candles) \in Seq(CandleType), NEW b
  PROVE  FindSwings(candles, b) \in Seq(SwingType)
<1> DEFINE closed == Closed(candles)
<1>1. Candidates(closed) \in Seq(SwingType) /\ Len(Candidates(closed)) = 2 * Len(closed)
  BY CandidatesAre
<1>2. SwingSlots(closed, b) \in SUBSET (1 .. 2 * Len(closed))
  BY DEF SwingSlots
<1> HIDE DEF closed
<1>3. Picked(Candidates(closed), SwingSlots(closed, b)) \in Seq(SwingType)
  BY <1>1, <1>2, PickedIs
<1>4. QED
  BY <1>3, SwingsArePicked DEF closed

\* The window around a bar is the same in a sequence that goes on.
LEMMA SameWindow ==
  ASSUME NEW S, NEW p \in Seq(S), NEW q \in Seq(S), IsPrefix(p, q),
         NEW a \in Int, NEW b \in Int, 1 <= a, b <= Len(p)
  PROVE  SubSeq(p, a, b) = SubSeq(q, a, b)
<1>1. Len(p) \in Nat /\ Len(q) \in Nat /\ Len(p) <= Len(q)
      /\ \A k \in 1 .. Len(p) : p[k] = q[k]
  BY PrefixIs, LenProperties
<1>2. \A i \in a .. b : p[i] \in S /\ q[i] \in S /\ p[i] = q[i]
  BY <1>1, ElementOfSeq
<1>3. \A i \in 1 .. b - a + 1 : a + i - 1 \in a .. b
  OBVIOUS
<1> DEFINE x == SubSeq(p, a, b)
           y == SubSeq(q, a, b)
<1>4. /\ x \in Seq(S) /\ Len(x) = (IF a <= b THEN b - a + 1 ELSE 0)
      /\ \A i \in 1 .. b - a + 1 : x[i] = p[a + i - 1]
  BY <1>2, SubSeqProperties
<1>5. /\ y \in Seq(S) /\ Len(y) = (IF a <= b THEN b - a + 1 ELSE 0)
      /\ \A i \in 1 .. b - a + 1 : y[i] = q[a + i - 1]
  BY <1>2, SubSeqProperties
<1> HIDE DEF x, y
<1>6. \A i \in 1 .. Len(x) : x[i] = y[i]
  BY <1>2, <1>3, <1>4, <1>5
<1>7. x = y
  BY <1>4, <1>5, <1>6, SeqEqual
<1>8. QED
  BY <1>7 DEF x, y

(***************************************************************************)
(* More closed candles leave the swings that were there alone.             *)
(***************************************************************************)
LEMMA SwingsExtend ==
  ASSUME NEW before, NEW now, NEW a \in Int, NEW b \in Int, a <= b,
         Closed(before) \in Seq(CandleType), Closed(now) \in Seq(CandleType),
         IsPrefix(Closed(before), Closed(now)),
         \A i \in 1 .. Len(Closed(before)) : Closed(before)[i].end <= a
  PROVE  IsPrefix(FindSwings(before, a), FindSwings(now, b))
<1> DEFINE p == Closed(before)
           q == Closed(now)
           I == SwingSlots(p, a)
           J == SwingSlots(q, b)
           L == Lookback
<1>1. L \in Nat \ {0}
  BY StructureAssumption
<1>2. p \in Seq(CandleType) /\ q \in Seq(CandleType) /\ IsPrefix(p, q)
      /\ \A i \in 1 .. Len(p) : p[i].end <= a
  OBVIOUS
<1>3. FindSwings(before, a) = Picked(Candidates(p), I)
      /\ FindSwings(now, b) = Picked(Candidates(q), J)
  BY SwingsArePicked
<1> HIDE DEF p, q, L
<1>4. Len(p) \in Nat /\ Len(q) \in Nat /\ Len(p) <= Len(q)
      /\ \A k \in 1 .. Len(p) : p[k] = q[k]
  BY <1>2, PrefixIs, LenProperties
<1>5. \A i \in 1 .. Len(p) : p[i].end \in Int
  <2>1. \A i \in 1 .. Len(p) : p[i] \in CandleType
    BY <1>2, ElementOfSeq
  <2>2. QED
    BY <2>1 DEF CandleType
<1>6. ASSUME NEW s \in 1 .. 2 * Len(p)
      PROVE  Candidate(p, s) = Candidate(q, s)
  <2>1. (s + 1) \div 2 \in 1 .. Len(p)
    BY <1>2, CandidatesAre
  <2>2. QED
    BY <2>1, <1>4 DEF Candidate
<1>7. ASSUME NEW s \in 1 .. 2 * Len(p), (s + 1) \div 2 + L <= Len(p)
      PROVE  s \in I <=> s \in J
  <2> DEFINE i == (s + 1) \div 2
  <2>1. i \in 1 .. Len(p) /\ s \in 1 .. 2 * Len(q)
    BY <1>2, <1>4, CandidatesAre
  <2>2. i + L \in 1 .. Len(p) /\ i + L <= Len(q) /\ i + L <= Len(p)
    BY <1>1, <1>4, <1>7, <2>1
  <2>3. p[i + L].end <= a /\ q[i + L].end <= b
    <3>1. p[i + L] = q[i + L] /\ p[i + L].end \in Int /\ p[i + L].end <= a
      BY <2>2, <1>2, <1>4, <1>5
    <3>2. QED
      BY <3>1
  <2> HIDE DEF i
  <2>4. s \in I <=> i > L /\ IsExtreme(Candidate(p, s), SubSeq(p, i - L, i + L))
    BY <1>7, <2>2, <2>3 DEF SwingSlots, i, L
  <2>5. s \in J <=> i > L /\ IsExtreme(Candidate(q, s), SubSeq(q, i - L, i + L))
    BY <1>7, <2>1, <2>2, <2>3 DEF SwingSlots, i, L
  <2>6. ASSUME i > L
        PROVE  SubSeq(p, i - L, i + L) = SubSeq(q, i - L, i + L)
    <3>1. i - L \in Int /\ i + L \in Int /\ 1 <= i - L
      BY <2>1, <2>6, <1>1
    <3>2. QED
      BY <3>1, <2>2, <1>2, SameWindow
  <2>7. QED
    BY <2>4, <2>5, <2>6, <1>6
<1>8. \A s \in I : s \in 1 .. 2 * Len(p) /\ (s + 1) \div 2 + L <= Len(p)
  BY DEF SwingSlots, L
<1>9. I \in SUBSET J
  BY <1>7, <1>8
<1>10. \A i \in I : \A j \in J \ I : i < j
  <2> SUFFICES ASSUME NEW i \in I, NEW j \in J \ I, ~ (i < j)
               PROVE  FALSE
    OBVIOUS
  <2>1. i \in 1 .. 2 * Len(p) /\ (i + 1) \div 2 + L <= Len(p) /\ j \in 1 .. 2 * Len(q)
    BY <1>8 DEF SwingSlots
  <2>2. j \in 1 .. 2 * Len(p) /\ (j + 1) \div 2 + L <= Len(p)
    BY <2>1, <1>1, <1>4, SMTT(60)
  <2>3. QED
    BY <2>2, <1>7
<1>11. /\ Candidates(p) \in Seq(SwingType) /\ Len(Candidates(p)) = 2 * Len(p)
       /\ Candidates(q) \in Seq(SwingType) /\ Len(Candidates(q)) = 2 * Len(q)
  BY <1>2, CandidatesAre
<1>12. I \in SUBSET (1 .. Len(Candidates(p))) /\ J \in SUBSET (1 .. Len(Candidates(q)))
  BY <1>11 DEF SwingSlots
<1>13. \A i \in I : Candidates(p)[i] = Candidates(q)[i]
  <2> TAKE i \in I
  <2>1. i \in 1 .. 2 * Len(p) /\ i \in 1 .. 2 * Len(q)
    BY <1>4, <1>8
  <2>2. Candidates(p)[i] = Candidate(p, i) /\ Candidates(q)[i] = Candidate(q, i)
    BY <2>1, <1>2, CandidatesAre
  <2>3. QED
    BY <2>1, <2>2, <1>6
<1> HIDE DEF I, J
<1>14. IsPrefix(Picked(Candidates(p), I), Picked(Candidates(q), J))
  BY <1>9, <1>10, <1>11, <1>12, <1>13, PickedPrefix
<1>15. QED
  BY <1>3, <1>14

LabeledType ==
  [kind : {"HIGH", "LOW"}, index : Nat, price : Nat, label : {None, "HH", "LH", "HL", "LL"}]

\* A swing has one of the four labels, or none when it is the first of its kind.
LEMMA LabelType ==
  ASSUME NEW swings, NEW i
  PROVE  Label(swings, i) \in {None, "HH", "LH", "HL", "LL"}
BY DEF Label

\* classify_structure labels each swing and changes nothing else.
LEMMA ClassifyStructureIs ==
  ASSUME NEW s \in Seq(SwingType)
  PROVE  /\ ClassifyStructure(s) \in Seq(LabeledType)
         /\ Len(ClassifyStructure(s)) = Len(s)
         /\ \A i \in 1 .. Len(s) :
              ClassifyStructure(s)[i] = [kind |-> s[i].kind, index |-> s[i].index,
                                         price |-> s[i].price, label |-> Label(s, i)]
<1> DEFINE n == Len(s)
           Labeled(i) == [kind |-> s[i].kind, index |-> s[i].index,
                          price |-> s[i].price, label |-> Label(s, i)]
           f == [i \in 1 .. n |-> Labeled(i)]
<1>1. n \in Nat /\ DOMAIN s = 1 .. n
  BY LenProperties
<1>2. ASSUME NEW i \in 1 .. n
      PROVE  Labeled(i) \in LabeledType
  <2>1. s[i] \in SwingType
    BY ElementOfSeq
  <2>2. QED
    BY <2>1, LabelType DEF SwingType, LabeledType
<1>3. ClassifyStructure(s) = AsSeq(f)
  BY <1>1 DEF ClassifyStructure
<1>4. f \in [1 .. n -> LabeledType] /\ \A i \in 1 .. n : f[i] = Labeled(i)
  BY <1>2
<1> HIDE DEF f
<1>5. AsSeq(f) = f /\ f \in Seq(LabeledType) /\ Len(f) = n
  BY <1>1, <1>4, AsSeqIs
<1>6. QED
  BY <1>3, <1>4, <1>5

\* The index of the swing of the same kind before swing i is one of those before it.
LEMMA BeforeIs ==
  ASSUME NEW n \in Nat, NEW S \in SUBSET (1 .. n), S # {}
  PROVE  Max(S) \in S /\ Max(S) \in 1 .. n /\ \A i \in S : i <= Max(S)
<1>1. IsFiniteSet(1 .. n)
  BY FS_Interval
<1>2. IsFiniteSet(S)
  BY <1>1, FS_Subset
<1>3. S \subseteq Int
  OBVIOUS
<1>4. QED
  BY <1>2, <1>3, MaxIs

\* A label depends on earlier swings only, so later ones leave it alone.
LEMMA LabelsExtend ==
  ASSUME NEW s \in Seq(SwingType), NEW t \in Seq(SwingType), IsPrefix(s, t)
  PROVE  IsPrefix(ClassifyStructure(s), ClassifyStructure(t))
<1>1. /\ Len(s) \in Nat /\ Len(t) \in Nat /\ Len(s) <= Len(t)
      /\ \A k \in 1 .. Len(s) : s[k] = t[k]
  BY PrefixIs, LenProperties
<1>2. ASSUME NEW i \in 1 .. Len(s)
      PROVE  Label(s, i) = Label(t, i)
  <2> DEFINE B == {j \in 1 .. (i - 1) : s[j].kind = s[i].kind}
  <2>1. B = {j \in 1 .. (i - 1) : t[j].kind = t[i].kind} /\ s[i] = t[i]
    BY <1>1
  <2>2. B # {} => s[Max(B)] = t[Max(B)]
    <3> SUFFICES ASSUME B # {} PROVE s[Max(B)] = t[Max(B)]
      OBVIOUS
    <3>1. B \in SUBSET (1 .. (i - 1)) /\ i - 1 \in Nat
      BY <1>1
    <3> HIDE DEF B
    <3>2. Max(B) \in 1 .. (i - 1)
      BY <3>1, BeforeIs
    <3>3. QED
      BY <3>2, <1>1
  <2>3. QED
    BY <2>1, <2>2 DEF Label
<1>3. /\ ClassifyStructure(s) \in Seq(LabeledType) /\ Len(ClassifyStructure(s)) = Len(s)
      /\ ClassifyStructure(t) \in Seq(LabeledType) /\ Len(ClassifyStructure(t)) = Len(t)
  BY ClassifyStructureIs
<1>4. ASSUME NEW i \in 1 .. Len(s)
      PROVE  ClassifyStructure(s)[i] = ClassifyStructure(t)[i]
  <2>1. i \in 1 .. Len(t) /\ s[i] = t[i]
    BY <1>1
  <2>2. QED
    BY <2>1, <1>2, ClassifyStructureIs
<1>5. QED
  BY <1>1, <1>3, <1>4, PrefixIs

-----------------------------------------------------------------------------
(*****************************************************************************)
(* Candles of a payload whose bars begin at 0, 1, 2, ...                     *)
(*****************************************************************************)
(***************************************************************************)
(* The analysis looks at the closed candles alone.                         *)
(***************************************************************************)
LEMMA OnlyClosedCount ==
  ASSUME NEW c, NEW d, Closed(c) = Closed(d), NEW a, NEW ltp
  PROVE  AnalyzeStructure(c, a, ltp) = AnalyzeStructure(d, a, ltp)
<1>1. FindSwings(c, a) = FindSwings(d, a)
  BY DEF FindSwings
<1>2. LevelZones(c) = LevelZones(d)
  BY DEF LevelZones
<1>3. \A swings : IdentifyLiquidityZones(c, swings) = IdentifyLiquidityZones(d, swings)
  BY <1>2 DEF IdentifyLiquidityZones
<1>4. \A zones : ClassifyReactionsAtZones(zones, c, ltp) = ClassifyReactionsAtZones(zones, d, ltp)
  BY DEF ClassifyReactionsAtZones
<1>5. QED
  BY <1>1, <1>3, <1>4 DEF AnalyzeStructure

BarType == [start : Nat, open : Nat, high : Nat, low : Nat, close : Nat]

\* The index of the bar last sent for period t.
LastSent(p, t) == Max({i \in DOMAIN p : p[i].start = t})

StartsOf(p) == {p[i].start : i \in DOMAIN p}

\* LastSent is the index of the last bar with the start.
LEMMA LastSentIs ==
  ASSUME NEW p \in Seq(BarType), NEW t \in StartsOf(p)
  PROVE  /\ LastSent(p, t) \in 1 .. Len(p)
         /\ p[LastSent(p, t)].start = t
         /\ \A i \in 1 .. Len(p) : p[i].start = t => i <= LastSent(p, t)
<1> DEFINE S == {i \in DOMAIN p : p[i].start = t}
<1>1. DOMAIN p = 1 .. Len(p) /\ Len(p) \in Nat
  BY LenProperties
<1>2. S \in SUBSET (1 .. Len(p)) /\ S # {}
  BY <1>1 DEF StartsOf
<1>3. \A i \in 1 .. Len(p) : i \in S <=> p[i].start = t
  BY <1>1
<1>4. LastSent(p, t) = Max(S)
  BY DEF LastSent
<1> HIDE DEF S
<1>5. Max(S) \in S /\ Max(S) \in 1 .. Len(p) /\ \A i \in S : i <= Max(S)
  BY <1>1, <1>2, BeforeIs
<1>6. QED
  BY <1>3, <1>4, <1>5

\* A candle keeps its start, lasts one period and is closed once it has ended.
LEMMA BuildCandleType ==
  ASSUME NEW bar \in BarType, NEW a \in Int
  PROVE  /\ BuildCandle(bar, a) \in CandleType
         /\ BuildCandle(bar, a).start = bar.start
         /\ BuildCandle(bar, a).end = bar.start + 1
         /\ BuildCandle(bar, a).is_closed <=> bar.start + 1 <= a
<1>1. /\ bar.start \in Nat /\ bar.open \in Nat /\ bar.high \in Nat /\ bar.low \in Nat
      /\ bar.close \in Nat /\ bar.start + 1 \in Nat
  BY DEF BarType
<1>2. (bar.start + 1 <= a) \in BOOLEAN
  OBVIOUS
<1>3. BuildCandle(bar, a) \in CandleType
  BY <1>1, <1>2 DEF BuildCandle, CandleType
<1>4. BuildCandle(bar, a).start = bar.start /\ BuildCandle(bar, a).end = bar.start + 1
  BY DEF BuildCandle
<1>5. BuildCandle(bar, a).is_closed <=> bar.start + 1 <= a
  BY DEF BuildCandle
<1>6. QED
  BY <1>3, <1>4, <1>5

\* How many of n periods have begun, or have ended, at the boundary.
Seen(n, a) == IF a < 0 THEN 0 ELSE IF n <= a THEN n ELSE a + 1

Ended(n, a) == IF a < 0 THEN 0 ELSE IF n <= a THEN n ELSE a

(***************************************************************************)
(* The candles built of bars that began in consecutive periods.            *)
(***************************************************************************)
LEMMA UnderlyingIs ==
  ASSUME NEW p \in Seq(BarType), NEW n \in Nat, StartsOf(p) = 0 .. n - 1, NEW a \in Int
  PROVE  /\ BuildUnderlying(p, a) \in Seq(CandleType)
         /\ Len(BuildUnderlying(p, a)) = Seen(n, a)
         /\ \A i \in 1 .. Seen(n, a) :
              /\ i - 1 \in StartsOf(p) /\ i - 1 <= a
              /\ BuildUnderlying(p, a)[i] = BuildCandle(p[LastSent(p, i - 1)], a)
              /\ BuildUnderlying(p, a)[i].start = i - 1
              /\ BuildUnderlying(p, a)[i].end = i
              /\ BuildUnderlying(p, a)[i].is_closed <=> i <= a
<1> DEFINE m == Seen(n, a)
           S == {p[i].start : i \in {j \in DOMAIN p : p[j].start <= a}}
           starts == InOrder(S)
           LastOf(t) == p[Max({i \in DOMAIN p : p[i].start = t})]
           f == [k \in DOMAIN starts |-> BuildCandle(LastOf(starts[k]), a)]
<1>1. m \in Nat
  BY DEF Seen
<1>2. S = {t \in StartsOf(p) : t <= a}
  BY DEF StartsOf
<1>3. S = 0 .. 0 + m - 1
  BY <1>2 DEF Seen
<1>4. BuildUnderlying(p, a) = AsSeq(f)
  BY DEF BuildUnderlying, CandlesOf
<1> HIDE DEF S, m
<1>5. IsFiniteSet(S) /\ Cardinality(S) = m /\ S \subseteq Int
      /\ \A k \in 1 .. m : InOrder(S)[k] = 0 + k - 1
  <2> DEFINE z == 0
             N == z .. z + m - 1
  <2>1. z \in Int /\ z = 0
    OBVIOUS
  <2> HIDE DEF z
  <2>2. IsFiniteSet(N) /\ Cardinality(N) = m /\ \A k \in 1 .. m : InOrder(N)[k] = z + k - 1
    BY <1>1, <2>1, InOrderInterval
  <2>3. N \subseteq Int /\ S = N
    BY <1>3, <2>1
  <2> HIDE DEF N
  <2>4. QED
    BY <2>1, <2>2, <2>3
<1>6. DOMAIN starts = 1 .. m /\ \A k \in 1 .. m : starts[k] = k - 1
  <2>1. DOMAIN starts = 1 .. Cardinality(S)
    BY <1>5, InOrderIs
  <2>2. \A k \in 1 .. m : 0 + k - 1 = k - 1
    BY <1>1
  <2>3. QED
    BY <1>5, <2>1, <2>2
<1> HIDE DEF starts
<1>7. f = [k \in 1 .. m |-> BuildCandle(p[LastSent(p, k - 1)], a)]
  BY <1>6 DEF LastSent
<1> HIDE DEF f
<1>8. ASSUME NEW k \in 1 .. m
      PROVE  /\ k - 1 \in StartsOf(p) /\ k - 1 <= a
             /\ f[k] = BuildCandle(p[LastSent(p, k - 1)], a)
             /\ f[k] \in CandleType
             /\ f[k].start = k - 1 /\ f[k].end = k /\ (f[k].is_closed <=> k <= a)
  <2>1. k - 1 \in S
    BY <1>1, <1>3
  <2>2. k - 1 \in StartsOf(p) /\ k - 1 <= a
    BY <2>1, <1>2
  <2>3. LastSent(p, k - 1) \in 1 .. Len(p) /\ p[LastSent(p, k - 1)].start = k - 1
    BY <2>2, LastSentIs
  <2>4. p[LastSent(p, k - 1)] \in BarType
    BY <2>3, ElementOfSeq
  <2>5. f[k] = BuildCandle(p[LastSent(p, k - 1)], a)
    BY <1>7
  <2>6. k - 1 + 1 = k
    BY <1>1
  <2>7. QED
    BY <2>2, <2>3, <2>4, <2>5, <2>6, BuildCandleType
<1>9. f \in [1 .. m -> CandleType]
  BY <1>7, <1>8
<1>10. AsSeq(f) = f /\ f \in Seq(CandleType) /\ Len(f) = m
  BY <1>1, <1>9, AsSeqIs
<1>11. QED
  BY <1>4, <1>8, <1>10 DEF m

\* One candle of them.
LEMMA UnderlyingAt ==
  ASSUME NEW p \in Seq(BarType), NEW n \in Nat, StartsOf(p) = 0 .. n - 1, NEW a \in Int,
         NEW i \in 1 .. Seen(n, a)
  PROVE  /\ i - 1 \in StartsOf(p)
         /\ BuildUnderlying(p, a)[i] = BuildCandle(p[LastSent(p, i - 1)], a)
BY UnderlyingIs, SMTT(60)

\* The closed candles are the first ones: those whose period has ended.
LEMMA ClosedUnderlying ==
  ASSUME NEW p \in Seq(BarType), NEW n \in Nat, StartsOf(p) = 0 .. n - 1, NEW a \in Int
  PROVE  /\ Closed(BuildUnderlying(p, a)) \in Seq(CandleType)
         /\ Len(Closed(BuildUnderlying(p, a))) = Ended(n, a)
         /\ Ended(n, a) <= Seen(n, a)
         /\ \A i \in 1 .. Ended(n, a) :
              Closed(BuildUnderlying(p, a))[i] = BuildUnderlying(p, a)[i]
<1> DEFINE cs == BuildUnderlying(p, a)
           m == Seen(n, a)
           e == Ended(n, a)
<1>1. cs \in Seq(CandleType) /\ Len(cs) = m
      /\ \A i \in 1 .. m : i - 1 <= a /\ (cs[i].is_closed <=> i <= a)
  BY UnderlyingIs
<1> HIDE DEF cs
<1>2. e \in 0 .. m /\ m \in Nat
  BY DEF Seen, Ended
<1>3. \A i \in 1 .. m : i <= a <=> i <= e
  BY DEF Seen, Ended
<1>4. DOMAIN cs = 1 .. m
  BY <1>1, LenProperties
<1>5. {i \in DOMAIN cs : cs[i].is_closed} = 1 .. e
  <2>1. \A i \in 1 .. m : cs[i].is_closed <=> i <= e
    BY <1>1, <1>3
  <2> HIDE DEF m, e
  <2>2. QED
    BY <2>1, <1>2, <1>4
<1>6. Closed(cs) = Picked(cs, 1 .. e)
  BY <1>5 DEF Closed
<1> HIDE DEF m, e
<1>7. e \in 0 .. Len(cs)
  BY <1>1, <1>2
<1>8. /\ Picked(cs, 1 .. e) \in Seq(CandleType) /\ Len(Picked(cs, 1 .. e)) = e
      /\ \A k \in 1 .. e : Picked(cs, 1 .. e)[k] = cs[k]
  BY <1>1, <1>7, PickedInterval
<1>9. QED
  BY <1>2, <1>6, <1>8 DEF cs, m, e

-----------------------------------------------------------------------------
(*****************************************************************************)
(* The invariant: bars appear in sequence, none after the clock.             *)
(*****************************************************************************)
\* Naturals that come with all smaller ones are 0 .. n - 1.
LEMMA InitialSegment ==
  ASSUME NEW D \in SUBSET Nat, NEW m \in Nat, \A d \in D : d <= m,
         \A d \in D : \A t \in 0 .. d - 1 : t \in D
  PROVE  Cardinality(D) \in Nat /\ D = 0 .. Cardinality(D) - 1
<1>1. IsFiniteSet(D)
  BY FS_BoundedSetOfNaturals
<1>2. CASE D = {}
  <2>1. Cardinality(D) = 0
    BY <1>2, FS_EmptySet
  <2>2. QED
    BY <1>2, <2>1
<1>3. CASE D # {}
  <2> DEFINE x == Max(D)
  <2>9. D \subseteq Int
    OBVIOUS
  <2>1. x \in D /\ \A d \in D : d <= x
    BY <1>1, <1>3, <2>9, MaxIs
  <2> HIDE DEF x
  <2>2. x \in Nat
    BY <2>1
  <2>3. D = 0 .. x
    <3>1. \A d \in D : d \in 0 .. x
      BY <2>1, <2>2
    <3>2. \A t \in 0 .. x - 1 : t \in D
      BY <2>1
    <3>3. \A t \in 0 .. x : t = x \/ t \in 0 .. x - 1
      BY <2>2
    <3>4. QED
      BY <2>1, <3>1, <3>2, <3>3
  <2>4. Cardinality(0 .. x) = x + 1
    <3>1. 0 \in Int /\ x \in Int /\ ~ (0 > x) /\ x - 0 + 1 = x + 1
      BY <2>2
    <3>2. QED
      BY <3>1, FS_Interval
  <2>5. Cardinality(D) = x + 1 /\ x + 1 - 1 = x
    BY <2>2, <2>3, <2>4
  <2>6. QED
    BY <2>2, <2>3, <2>5
<1>4. QED
  BY <1>2, <1>3

(***************************************************************************)
(* The inductive invariant.  A bar is sent only after a bar of every       *)
(* earlier period: each prefix of the payload starts with period 0 and     *)
(* leaves none out.                                                        *)
(***************************************************************************)
InSequence(p) ==
  \A i \in DOMAIN p : \A t \in 0 .. p[i].start - 1 : \E j \in 1 .. i - 1 : p[j].start = t

IInv ==
  /\ clock \in 0 .. Periods /\ asOf \in 0 .. clock /\ resent \in 0 .. Resends
  /\ payload \in Seq(BarType)
  /\ \A i \in DOMAIN payload : payload[i].start <= clock
  /\ InSequence(payload)

\* Bars in sequence start at 0, 1, 2, ... without a gap.
LEMMA StartsAre ==
  ASSUME NEW p \in Seq(BarType), InSequence(p), NEW m \in Nat,
         \A i \in DOMAIN p : p[i].start <= m
  PROVE  /\ Cardinality(StartsOf(p)) \in Nat
         /\ StartsOf(p) = 0 .. Cardinality(StartsOf(p)) - 1
<1>1. DOMAIN p = 1 .. Len(p) /\ Len(p) \in Nat
  BY LenProperties
<1>2. \A i \in 1 .. Len(p) : p[i] \in BarType
  BY ElementOfSeq
<1>3. \A i \in 1 .. Len(p) : p[i].start \in Nat
  BY <1>2 DEF BarType
<1>4. StartsOf(p) \in SUBSET Nat /\ \A d \in StartsOf(p) : d <= m
  BY <1>1, <1>3 DEF StartsOf
<1>5. \A d \in StartsOf(p) : \A t \in 0 .. d - 1 : t \in StartsOf(p)
  <2> TAKE d \in StartsOf(p)
  <2> TAKE t \in 0 .. d - 1
  <2>1. PICK i \in 1 .. Len(p) : p[i].start = d
    BY <1>1 DEF StartsOf
  <2>2. PICK j \in 1 .. i - 1 : p[j].start = t
    BY <1>1, <2>1 DEF InSequence
  <2>3. j \in DOMAIN p
    BY <1>1, <2>1, <2>2
  <2>4. QED
    BY <2>2, <2>3 DEF StartsOf
<1>6. QED
  BY <1>4, <1>5, InitialSegment

\* A bar of one of the shapes is a bar.
LEMMA BarIsBar ==
  ASSUME NEW start \in Nat, NEW shape \in Shapes
  PROVE  Bar(start, shape) \in BarType /\ Bar(start, shape).start = start
<1>1. shape \in [open : Nat, high : Nat, low : Nat, close : Nat]
  BY FeedAssumption
<1>2. QED
  BY <1>1 DEF Bar, BarType

\* A bar of the next period, or of one that has its bar, keeps the order.
LEMMA SentInSequence ==
  ASSUME NEW p \in Seq(BarType), InSequence(p), NEW m \in Nat,
         \A i \in DOMAIN p : p[i].start <= m,
         NEW start \in Nat, start <= m, NEW shape \in Shapes,
         \A t \in 0 .. start - 1 : t \in StartsOf(p)
  PROVE  /\ Append(p, Bar(start, shape)) \in Seq(BarType)
         /\ InSequence(Append(p, Bar(start, shape)))
         /\ \A i \in DOMAIN Append(p, Bar(start, shape)) :
              Append(p, Bar(start, shape))[i].start <= m
<1> DEFINE b == Bar(start, shape)
           q == Append(p, b)
           n == Len(p)
<1>1. DOMAIN p = 1 .. n /\ n \in Nat
  BY LenProperties
<1>2. b \in BarType /\ b.start = start
  BY BarIsBar
<1> HIDE DEF b
<1>3. q \in Seq(BarType) /\ Len(q) = n + 1 /\ q[n + 1] = b /\ \A i \in 1 .. n : q[i] = p[i]
  BY <1>2, AppendProperties
<1> HIDE DEF q
<1>4. DOMAIN q = 1 .. n + 1
  BY <1>3, LenProperties
<1>5. \A i \in DOMAIN q : i \in 1 .. n \/ i = n + 1
  BY <1>1, <1>4
<1>6. \A i \in DOMAIN q : q[i].start <= m
  BY <1>1, <1>2, <1>3, <1>5
<1>7. ASSUME NEW i \in DOMAIN q, NEW t \in 0 .. q[i].start - 1
      PROVE  \E j \in 1 .. i - 1 : q[j].start = t
  <2>1. CASE i \in 1 .. n
    <3>1. q[i] = p[i] /\ i \in DOMAIN p
      BY <1>1, <1>3, <2>1
    <3>2. PICK j \in 1 .. i - 1 : p[j].start = t
      BY <1>7, <3>1 DEF InSequence
    <3>3. j \in 1 .. n
      BY <1>1, <2>1
    <3>4. QED
      BY <1>3, <3>2, <3>3
  <2>2. CASE i = n + 1
    <3>1. t \in 0 .. start - 1
      BY <1>2, <1>3, <1>7, <2>2
    <3>2. t \in StartsOf(p)
      BY <3>1
    <3>3. PICK j \in 1 .. n : p[j].start = t
      BY <1>1, <3>2 DEF StartsOf
    <3>4. j \in 1 .. i - 1 /\ q[j].start = t
      BY <1>1, <1>3, <2>2, <3>3
    <3>5. QED
      BY <3>4
  <2>3. QED
    BY <1>5, <2>1, <2>2
<1>8. InSequence(q)
  BY <1>7 DEF InSequence
<1>9. QED
  BY <1>3, <1>6, <1>8 DEF q, b

\* The invariant holds of the empty payload.
LEMMA InitIInv == Init => IInv
<1> SUFFICES ASSUME Init PROVE IInv
  OBVIOUS
<1>1. clock = 0 /\ asOf = 0 /\ payload = << >> /\ resent = 0
  BY DEF Init
<1>2. Periods \in Nat /\ Resends \in Nat
  BY FeedAssumption
<1>3. payload \in Seq(BarType) /\ DOMAIN payload = {}
  BY <1>1, EmptySeq
<1>4. QED
  BY <1>1, <1>2, <1>3 DEF IInv, InSequence

\* Every step keeps it: a new bar is the next one, a bar sent again is there already.
LEMMA NextIInv == IInv /\ [Next]_vars => IInv'
<1> SUFFICES ASSUME IInv, [Next]_vars
             PROVE  IInv'
  OBVIOUS
<1>1. Periods \in Nat /\ Resends \in Nat
  BY FeedAssumption
<1>2. /\ clock \in 0 .. Periods /\ asOf \in 0 .. clock /\ resent \in 0 .. Resends
      /\ payload \in Seq(BarType) /\ InSequence(payload)
      /\ \A i \in DOMAIN payload : payload[i].start <= clock
  BY DEF IInv
<1>3. clock \in Nat
  BY <1>1, <1>2
<1>4. Cardinality(Starts) \in Nat /\ Starts = 0 .. Cardinality(Starts) - 1 /\ Starts = StartsOf(payload)
  <2>1. Starts = StartsOf(payload)
    BY DEF Starts, StartsOf
  <2>2. QED
    BY <1>2, <1>3, <2>1, StartsAre
<1>5. ASSUME NEW shape \in Shapes, OpenBar(shape)
      PROVE  IInv'
  <2> DEFINE n == Cardinality(Starts)
  <2>1. n <= clock /\ payload' = Append(payload, Bar(n, shape))
        /\ UNCHANGED <<clock, asOf, resent>>
    BY <1>5 DEF OpenBar
  <2>2. n \in Nat /\ \A t \in 0 .. n - 1 : t \in StartsOf(payload)
    BY <1>4
  <2> HIDE DEF n
  <2>3. /\ payload' \in Seq(BarType) /\ InSequence(payload')
        /\ \A i \in DOMAIN payload' : payload'[i].start <= clock
    BY <1>2, <1>3, <2>1, <2>2, SentInSequence
  <2>4. QED
    BY <1>2, <2>1, <2>3 DEF IInv, InSequence
<1>6. ASSUME NEW start \in Starts, NEW shape \in Shapes, ResendBar(start, shape)
      PROVE  IInv'
  <2>1. payload' = Append(payload, Bar(start, shape)) /\ resent < Resends /\ resent' = resent + 1
        /\ UNCHANGED <<clock, asOf>>
    BY <1>6 DEF ResendBar
  <2>2. start \in Nat /\ \A t \in 0 .. start - 1 : t \in StartsOf(payload)
    BY <1>4
  <2>3. start <= clock
    BY <1>2, <1>4 DEF StartsOf
  <2>4. /\ payload' \in Seq(BarType) /\ InSequence(payload')
        /\ \A i \in DOMAIN payload' : payload'[i].start <= clock
    BY <1>2, <1>3, <2>1, <2>2, <2>3, SentInSequence
  <2>5. resent' \in 0 .. Resends
    BY <1>1, <1>2, <2>1
  <2>6. QED
    BY <1>2, <2>1, <2>4, <2>5 DEF IInv, InSequence
<1>7. CASE PeriodEnds
  <2>1. clock < Periods /\ clock' = clock + 1 /\ UNCHANGED <<asOf, payload, resent>>
    BY <1>7 DEF PeriodEnds
  <2>2. clock' \in 0 .. Periods /\ asOf' \in 0 .. clock'
    BY <1>1, <1>2, <2>1
  <2>3. \A i \in DOMAIN payload : payload[i].start \in Int
    <3>1. \A i \in DOMAIN payload : payload[i].start \in Starts
      BY DEF Starts
    <3>2. QED
      BY <3>1, <1>4
  <2>4. \A i \in DOMAIN payload' : payload'[i].start <= clock'
    BY <1>2, <1>3, <2>1, <2>3
  <2>5. QED
    BY <1>2, <2>1, <2>2, <2>4 DEF IInv, InSequence
<1>8. CASE Tick
  <2>1. asOf' = clock /\ UNCHANGED <<clock, payload, resent>>
    BY <1>8 DEF Tick
  <2>2. asOf' \in 0 .. clock'
    BY <1>3, <2>1
  <2>3. QED
    BY <1>2, <2>1, <2>2 DEF IInv, InSequence
<1>9. CASE DayOver \/ UNCHANGED vars
  <2>1. UNCHANGED vars
    BY <1>9 DEF DayOver
  <2>2. QED
    BY <1>2, <2>1 DEF IInv, InSequence, vars
<1>10. QED
  BY <1>5, <1>6, <1>7, <1>8, <1>9 DEF Next

\* The payload holds bars in sequence, none of them ahead of the clock, and the
\* boundary is never ahead of the clock either.
THEOREM FeedInvariant == Spec => []IInv
BY InitIInv, NextIInv, PTL DEF Spec

\* What the invariant says of the payload, as the lemmas on candles need it.
LEMMA CandlesOfPayload ==
  ASSUME IInv
  PROVE  /\ payload \in Seq(BarType) /\ asOf \in Nat
         /\ Cardinality(Starts) \in Nat
         /\ StartsOf(payload) = 0 .. Cardinality(Starts) - 1
<1>1. /\ clock \in 0 .. Periods /\ asOf \in 0 .. clock
      /\ payload \in Seq(BarType) /\ InSequence(payload)
      /\ \A i \in DOMAIN payload : payload[i].start <= clock
  BY DEF IInv
<1>2. clock \in Nat /\ asOf \in Nat
  BY <1>1
<1>3. Starts = StartsOf(payload)
  BY DEF Starts, StartsOf
<1>4. QED
  BY <1>1, <1>2, <1>3, StartsAre

InPeriodOrder(cs, a) ==
  /\ cs \in Seq(CandleType)
  /\ \A i \in 1 .. Len(cs) : cs[i].start = i - 1 /\ i - 1 <= a

LEMMA InOrderOfPeriods ==
  ASSUME NEW p \in Seq(BarType), NEW n \in Nat, StartsOf(p) = 0 .. n - 1, NEW a \in Int
  PROVE  InPeriodOrder(BuildUnderlying(p, a), a)
<1> DEFINE cs == BuildUnderlying(p, a)
<1>1. cs \in Seq(CandleType) /\ Len(cs) = Seen(n, a)
      /\ \A i \in 1 .. Seen(n, a) : cs[i].start = i - 1 /\ i - 1 <= a
  BY UnderlyingIs
<1> HIDE DEF cs
<1>2. QED
  BY <1>1 DEF InPeriodOrder, cs

\* One candle per period, in order, none starting after the boundary
\* (_dedupe_and_sort_candles).
THEOREM TypeCorrect == Spec => []TypeOK
<1>1. IInv => TypeOK
  <2> SUFFICES ASSUME IInv PROVE TypeOK
    OBVIOUS
  <2>1. /\ clock \in 0 .. Periods /\ asOf \in 0 .. clock /\ resent \in 0 .. Resends
        /\ \A i \in DOMAIN payload : payload[i].start <= clock
    BY DEF IInv
  <2>2. /\ payload \in Seq(BarType) /\ asOf \in Nat /\ Cardinality(Starts) \in Nat
        /\ StartsOf(payload) = 0 .. Cardinality(Starts) - 1
    BY CandlesOfPayload
  <2>3. \A i \in DOMAIN payload : payload[i].start \in 0 .. clock
    <3> TAKE i \in DOMAIN payload
    <3>1. payload[i].start \in StartsOf(payload)
      BY DEF StartsOf
    <3>2. payload[i].start \in Nat
      BY <3>1, <2>2
    <3>3. QED
      BY <2>1, <3>2
  <2>4. \A i \in DOMAIN Candles : Candles[i].start = i - 1 /\ Candles[i].start <= asOf
    <3>1. InPeriodOrder(Candles, asOf)
      BY <2>2, InOrderOfPeriods DEF Candles
    <3>2. DOMAIN Candles = 1 .. Len(Candles)
      BY <3>1, LenProperties DEF InPeriodOrder
    <3>3. QED
      BY <3>1, <3>2 DEF InPeriodOrder
  <2>5. QED
    BY <2>1, <2>3, <2>4 DEF TypeOK
<1>2. QED
  BY <1>1, FeedInvariant, PTL

-----------------------------------------------------------------------------
(*****************************************************************************)
(* No lookahead.                                                             *)
(*****************************************************************************)
\* The bars of a payload that had ended at the boundary.
EndedBars(p, a) == Picked(p, {i \in DOMAIN p : p[i].start + 1 <= a})

\* Leaving out the bars that have not ended leaves the last ones sent of those
\* that have.
LEMMA EndedBarsAre ==
  ASSUME NEW p \in Seq(BarType), NEW n \in Nat, StartsOf(p) = 0 .. n - 1, NEW a \in Nat
  PROVE  /\ EndedBars(p, a) \in Seq(BarType)
         /\ StartsOf(EndedBars(p, a)) = 0 .. Ended(n, a) - 1
         /\ \A t \in 0 .. Ended(n, a) - 1 :
              EndedBars(p, a)[LastSent(EndedBars(p, a), t)] = p[LastSent(p, t)]
<1> DEFINE I == {i \in DOMAIN p : p[i].start + 1 <= a}
           q == EndedBars(p, a)
           c == Cardinality(I)
           e == Ended(n, a)
<1>1. DOMAIN p = 1 .. Len(p) /\ Len(p) \in Nat
  BY LenProperties
<1>2. \A i \in 1 .. Len(p) : p[i].start \in StartsOf(p)
  BY <1>1 DEF StartsOf
<1>3. I \in SUBSET (1 .. Len(p)) /\ \A i \in 1 .. Len(p) : i \in I <=> p[i].start + 1 <= a
  BY <1>1
<1>4. q = Picked(p, I)
  BY DEF EndedBars
<1> HIDE DEF I, q
<1>5. /\ IsFiniteSet(I) /\ c \in Nat /\ I \subseteq Int
      /\ q \in Seq(BarType) /\ DOMAIN q = 1 .. c /\ Len(q) = c
      /\ \A k \in 1 .. c : InOrder(I)[k] \in I /\ q[k] = p[InOrder(I)[k]]
  BY <1>3, <1>4, PickedIs
<1>6. \A i \in I : \E k \in 1 .. c : InOrder(I)[k] = i
  BY <1>5, InOrderOnto
<1>7. \A t \in 0 .. n - 1 : t \in 0 .. e - 1 <=> t + 1 <= a
  BY DEF Ended
<1>8. e \in 0 .. n
  BY DEF Ended
<1> HIDE DEF c, e
<1>9. StartsOf(q) = 0 .. e - 1
  <2>1. ASSUME NEW t \in StartsOf(q)
        PROVE  t \in 0 .. e - 1
    <3>1. PICK k \in 1 .. c : q[k].start = t
      BY <1>5 DEF StartsOf
    <3>2. InOrder(I)[k] \in I /\ p[InOrder(I)[k]].start = t
      BY <1>5, <3>1
    <3>3. t \in 0 .. n - 1 /\ t + 1 <= a
      BY <1>2, <1>3, <3>2
    <3>4. QED
      BY <1>7, <3>3
  <2>2. ASSUME NEW t \in 0 .. e - 1
        PROVE  t \in StartsOf(q)
    <3>1. t \in 0 .. n - 1 /\ t + 1 <= a
      BY <1>7, <1>8
    <3>2. t \in StartsOf(p)
      BY <3>1
    <3>3. PICK i \in 1 .. Len(p) : p[i].start = t
      BY <1>1, <3>2 DEF StartsOf
    <3>4. i \in I
      BY <1>3, <3>1, <3>3
    <3>5. PICK k \in 1 .. c : InOrder(I)[k] = i
      BY <1>6, <3>4
    <3>6. k \in DOMAIN q /\ q[k].start = t
      BY <1>5, <3>3, <3>5
    <3>7. QED
      BY <3>6 DEF StartsOf
  <2>3. QED
    BY <2>1, <2>2
<1>10. ASSUME NEW t \in 0 .. e - 1
       PROVE  q[LastSent(q, t)] = p[LastSent(p, t)]
  <2> DEFINE l == LastSent(p, t)
             h == LastSent(q, t)
  <2>1. t \in 0 .. n - 1 /\ t + 1 <= a
    BY <1>7, <1>8
  <2>2. t \in StartsOf(p) /\ t \in StartsOf(q)
    BY <1>9, <2>1
  <2>3. l \in 1 .. Len(p) /\ p[l].start = t /\ \A i \in 1 .. Len(p) : p[i].start = t => i <= l
    BY <2>2, LastSentIs
  <2>4. h \in 1 .. c /\ q[h].start = t /\ \A i \in 1 .. c : q[i].start = t => i <= h
    BY <1>5, <2>2, LastSentIs
  <2> HIDE DEF l, h
  <2>5. l \in I
    BY <1>3, <2>1, <2>3
  <2>6. PICK k \in 1 .. c : InOrder(I)[k] = l
    BY <1>6, <2>5
  <2>7. q[k].start = t /\ k <= h
    BY <1>5, <2>3, <2>4, <2>6
  <2>8. InOrder(I)[h] \in I /\ p[InOrder(I)[h]].start = t
    BY <1>5, <2>4
  <2>9. InOrder(I)[h] <= l /\ InOrder(I)[h] \in Int
    BY <1>3, <2>3, <2>8
  <2>10. k = h
    <3>1. Ascends(InOrder(I)) /\ DOMAIN InOrder(I) = 1 .. c
      BY <1>5, InOrderIs DEF c
    <3>2. k < h => l < InOrder(I)[h]
      BY <2>4, <2>6, <3>1 DEF Ascends
    <3>3. l \in Int
      BY <2>3
    <3>4. QED
      BY <1>5, <2>4, <2>7, <2>9, <3>2, <3>3
  <2>11. q[h] = p[l]
    BY <1>5, <2>6, <2>10
  <2>12. QED
    BY <2>11 DEF h, l
<1>11. QED
  BY <1>5, <1>9, <1>10 DEF q, e

(***************************************************************************)
(* Without the bars that had not ended the closed candles are the same.    *)
(***************************************************************************)
LEMMA ClosedOfEnded ==
  ASSUME NEW p \in Seq(BarType), NEW n \in Nat, StartsOf(p) = 0 .. n - 1, NEW a \in Nat
  PROVE  Closed(BuildUnderlying(EndedBars(p, a), a)) = Closed(BuildUnderlying(p, a))
<1> DEFINE q == EndedBars(p, a)
           e == Ended(n, a)
           x == BuildUnderlying(p, a)
           y == BuildUnderlying(q, a)
<1>1. q \in Seq(BarType) /\ StartsOf(q) = 0 .. e - 1
      /\ \A t \in 0 .. e - 1 : q[LastSent(q, t)] = p[LastSent(p, t)]
  BY EndedBarsAre
<1>2. e \in Nat /\ a \in Int /\ Ended(e, a) = e /\ Seen(e, a) = e /\ e <= Seen(n, a)
      /\ Seen(n, a) \in Nat
  BY DEF Ended, Seen
<1> HIDE DEF q, e, x, y
<1>3. /\ Closed(x) \in Seq(CandleType) /\ Len(Closed(x)) = e
      /\ \A i \in 1 .. e : Closed(x)[i] = x[i]
  BY <1>2, ClosedUnderlying DEF x, e
<1>4. /\ Closed(y) \in Seq(CandleType) /\ Len(Closed(y)) = e
      /\ \A i \in 1 .. e : Closed(y)[i] = y[i]
  <2>1. /\ Closed(y) \in Seq(CandleType) /\ Len(Closed(y)) = Ended(e, a)
        /\ \A i \in 1 .. Ended(e, a) : Closed(y)[i] = y[i]
    BY <1>1, <1>2, ClosedUnderlying DEF y
  <2>2. QED
    BY <1>2, <2>1
<1>5. ASSUME NEW i \in 1 .. e
      PROVE  x[i] = y[i]
  <2>1. i \in 1 .. Seen(n, a) /\ i - 1 \in 0 .. e - 1
    BY <1>2
  <2>2. x[i] = BuildCandle(p[LastSent(p, i - 1)], a)
    BY <1>2, <2>1, UnderlyingAt DEF x
  <2>3. i \in 1 .. Seen(e, a)
    BY <1>2
  <2>4. y[i] = BuildCandle(q[LastSent(q, i - 1)], a)
    BY <1>1, <1>2, <2>3, UnderlyingAt DEF y
  <2>5. QED
    BY <1>1, <2>1, <2>2, <2>4
<1>6. Closed(y) = Closed(x)
  BY <1>3, <1>4, <1>5, SeqEqual
<1>7. QED
  BY <1>6 DEF x, y, q

\* The analysis is the one made from the bars that had ended at the boundary: the
\* forming bar and later ones are in the payload and change nothing
\* (docs/ARCHITECTURE.md section 3).
THEOREM NothingAhead == Spec => []NoLookahead
<1>1. IInv => NoLookahead
  <2> SUFFICES ASSUME IInv PROVE NoLookahead
    OBVIOUS
  <2> DEFINE n == Cardinality(Starts)
  <2>1. payload \in Seq(BarType) /\ asOf \in Nat /\ n \in Nat /\ StartsOf(payload) = 0 .. n - 1
    BY CandlesOfPayload
  <2> HIDE DEF n
  <2>2. Closed(BuildUnderlying(EndedBars(payload, asOf), asOf)) = Closed(BuildUnderlying(payload, asOf))
    BY <2>1, ClosedOfEnded
  <2>3. AnalyzeStructure(BuildUnderlying(EndedBars(payload, asOf), asOf), asOf, LtpOf(payload))
          = AnalyzeStructure(BuildUnderlying(payload, asOf), asOf, LtpOf(payload))
    BY <2>2, OnlyClosedCount
  <2>4. QED
    BY <2>3 DEF NoLookahead, Analysis, Candles, EndedBars
<1>2. QED
  BY <1>1, FeedInvariant, PTL

-----------------------------------------------------------------------------
(*****************************************************************************)
(* Swings are final.                                                         *)
(*****************************************************************************)
\* The payload as it was before its last bars has its bars in sequence as well.
LEMMA EarlierBars ==
  ASSUME NEW p \in Seq(BarType), InSequence(p), NEW m \in Nat,
         \A i \in DOMAIN p : p[i].start <= m,
         NEW k \in Int, k <= Len(p)
  PROVE  /\ SubSeq(p, 1, k) \in Seq(BarType)
         /\ Cardinality(StartsOf(SubSeq(p, 1, k))) \in Nat
         /\ StartsOf(SubSeq(p, 1, k)) = 0 .. Cardinality(StartsOf(SubSeq(p, 1, k))) - 1
<1> DEFINE q == SubSeq(p, 1, k)
<1>1. DOMAIN p = 1 .. Len(p) /\ Len(p) \in Nat
  BY LenProperties
<1>2. \A i \in 1 .. k : p[i] \in BarType /\ i \in DOMAIN p
  BY <1>1, ElementOfSeq
<1>3. /\ q \in Seq(BarType) /\ Len(q) = (IF 1 <= k THEN k - 1 + 1 ELSE 0)
      /\ \A i \in 1 .. k - 1 + 1 : q[i] = p[1 + i - 1]
  BY <1>2, SubSeqProperties
<1> HIDE DEF q
<1>4. DOMAIN q = 1 .. k /\ \A i \in 1 .. k : q[i] = p[i]
  <2>1. DOMAIN q = 1 .. Len(q)
    BY <1>3, LenProperties
  <2>2. k - 1 + 1 = k /\ 1 .. Len(q) = 1 .. k
    BY <1>3
  <2>3. \A i \in 1 .. k : 1 + i - 1 = i
    OBVIOUS
  <2>4. QED
    BY <1>3, <2>1, <2>2, <2>3
<1>5. \A i \in DOMAIN q : q[i].start <= m
  BY <1>2, <1>4
<1>6. InSequence(q)
  <2> SUFFICES ASSUME NEW i \in DOMAIN q, NEW t \in 0 .. q[i].start - 1
               PROVE  \E j \in 1 .. i - 1 : q[j].start = t
    BY DEF InSequence
  <2>1. i \in DOMAIN p /\ q[i] = p[i]
    BY <1>2, <1>4
  <2>2. PICK j \in 1 .. i - 1 : p[j].start = t
    BY <2>1 DEF InSequence
  <2>3. j \in 1 .. k
    BY <1>4
  <2>4. QED
    BY <1>4, <2>2, <2>3
<1>7. QED
  BY <1>3, <1>5, <1>6, StartsAre DEF q

\* One candle per period; those that had ended at the boundary come first and are closed.
View(cs, a) ==
  /\ cs \in Seq(CandleType) /\ \A i \in 1 .. Len(cs) : cs[i].start = i - 1
  /\ Closed(cs) \in Seq(CandleType) /\ Len(Closed(cs)) <= Len(cs)
  /\ \A i \in 1 .. Len(Closed(cs)) : Closed(cs)[i] = cs[i] /\ Closed(cs)[i].end <= a

\* What a tick sees is the candles of the first periods, closed when they ended.
LEMMA UnderlyingIsView ==
  ASSUME NEW p \in Seq(BarType), NEW n \in Nat, StartsOf(p) = 0 .. n - 1, NEW a \in Int
  PROVE  View(BuildUnderlying(p, a), a)
<1> DEFINE cs == BuildUnderlying(p, a)
<1>1. /\ Closed(cs) \in Seq(CandleType) /\ Len(Closed(cs)) = Ended(n, a)
      /\ Ended(n, a) <= Seen(n, a)
      /\ \A i \in 1 .. Ended(n, a) : Closed(cs)[i] = cs[i]
  BY ClosedUnderlying
<1>2. cs \in Seq(CandleType) /\ Len(cs) = Seen(n, a)
      /\ \A i \in 1 .. Seen(n, a) : cs[i].start = i - 1 /\ cs[i].end = i
  BY UnderlyingIs
<1>3. \A i \in 1 .. Ended(n, a) : i \in 1 .. Seen(n, a) /\ i <= a
  BY DEF Ended, Seen
<1> HIDE DEF cs
<1>4. \A i \in 1 .. Len(Closed(cs)) : Closed(cs)[i] = cs[i] /\ Closed(cs)[i].end <= a
  BY <1>1, <1>2, <1>3
<1>5. QED
  BY <1>1, <1>2, <1>4 DEF View, cs

\* That holds of the payload now and of the one a bar or a period ago.
LEMMA ViewsAre ==
  ASSUME IInv, NEW bars \in 0 .. 1, NEW periods \in 0 .. 1
  PROVE  View(Before(bars, periods), asOf - periods) /\ View(Candles, asOf)
<1> DEFINE k == Len(payload) - bars
           q == SubSeq(payload, 1, k)
           n == Cardinality(StartsOf(q))
           a == asOf - periods
<1>1. /\ clock \in 0 .. Periods /\ asOf \in 0 .. clock
      /\ payload \in Seq(BarType) /\ InSequence(payload)
      /\ \A i \in DOMAIN payload : payload[i].start <= clock
  BY DEF IInv
<1>2. clock \in Nat /\ a \in Int
  BY <1>1
<1>3. k \in Int /\ k <= Len(payload)
  BY <1>1, LenProperties
<1> HIDE DEF k
<1>4. q \in Seq(BarType) /\ n \in Nat /\ StartsOf(q) = 0 .. n - 1
  BY <1>1, <1>2, <1>3, EarlierBars
<1> HIDE DEF q, n, a
<1>5. View(BuildUnderlying(q, a), a)
  BY <1>2, <1>4, UnderlyingIsView
<1>6. Before(bars, periods) = BuildUnderlying(q, a)
  BY DEF Before, q, k, a
<1>7. View(Candles, asOf)
  <2>1. /\ payload \in Seq(BarType) /\ asOf \in Int /\ Cardinality(Starts) \in Nat
        /\ StartsOf(payload) = 0 .. Cardinality(Starts) - 1
    BY CandlesOfPayload
  <2>2. QED
    BY <2>1, UnderlyingIsView DEF Candles
<1>8. QED
  BY <1>5, <1>6, <1>7 DEF a

\* Confirmed swings and their labels are never unmade, unless an ended bar is
\* corrected (swings.py:33-61).
THEOREM SwingsStay == Spec => []SwingsAreFinal
<1>1. IInv => SwingsAreFinal
  <2> SUFFICES ASSUME IInv, NEW bars \in 0 .. 1, NEW periods \in 0 .. 1,
                      Uncorrected(Before(bars, periods), Candles)
               PROVE  IsPrefix(SwingsOf(Before(bars, periods), asOf - periods), Swings)
    BY DEF SwingsAreFinal
  <2> DEFINE b == Before(bars, periods)
             a == asOf - periods
  <2>1. asOf \in Int /\ a \in Int /\ a <= asOf
    BY CandlesOfPayload
  <2>2. /\ Closed(b) \in Seq(CandleType) /\ Closed(Candles) \in Seq(CandleType)
        /\ \A i \in 1 .. Len(Closed(b)) : Closed(b)[i].end <= a
    BY ViewsAre DEF View
  <2>3. IsPrefix(Closed(b), Closed(Candles))
    BY DEF Uncorrected
  <2> HIDE DEF a, b
  <2>4. IsPrefix(FindSwings(b, a), FindSwings(Candles, asOf))
    BY <2>1, <2>2, <2>3, SwingsExtend
  <2>5. FindSwings(b, a) \in Seq(SwingType) /\ FindSwings(Candles, asOf) \in Seq(SwingType)
    BY <2>2, SwingsType
  <2>6. IsPrefix(ClassifyStructure(FindSwings(b, a)), ClassifyStructure(FindSwings(Candles, asOf)))
    BY <2>4, <2>5, LabelsExtend
  <2>7. QED
    BY <2>6 DEF SwingsOf, Swings, a, b
<1>2. QED
  BY <1>1, FeedInvariant, PTL

(***************************************************************************)
(* A swing that was given is never unmade, however many bars and periods   *)
(* go by, unless the upstream corrects an ended bar: every other step      *)
(* leaves the closed candles as they are or adds to them.                  *)
(***************************************************************************)
CorrectsEndedBar ==
  \E start \in Starts, shape \in Shapes : ResendBar(start, shape) /\ start + 1 <= asOf

\* The bars of the ended periods are the same in a later payload.
SameEnded(p, n, a, q) ==
  \A t \in 0 .. Ended(n, a) - 1 : q[LastSent(q, t)] = p[LastSent(p, t)]

\* The closed candles are those of the bars last sent for the ended periods.
LEMMA ClosedAre ==
  ASSUME NEW p \in Seq(BarType), NEW n \in Nat, StartsOf(p) = 0 .. n - 1, NEW a \in Int
  PROVE  /\ Closed(BuildUnderlying(p, a)) \in Seq(CandleType)
         /\ Len(Closed(BuildUnderlying(p, a))) = Ended(n, a)
         /\ \A i \in 1 .. Ended(n, a) :
              Closed(BuildUnderlying(p, a))[i] = BuildCandle(p[LastSent(p, i - 1)], a)
<1> DEFINE x == BuildUnderlying(p, a)
           e == Ended(n, a)
           m == Seen(n, a)
<1>1. /\ Closed(x) \in Seq(CandleType) /\ Len(Closed(x)) = e /\ e <= m
      /\ \A i \in 1 .. e : Closed(x)[i] = x[i]
  BY ClosedUnderlying
<1>2. \A i \in 1 .. m : x[i] = BuildCandle(p[LastSent(p, i - 1)], a)
  BY UnderlyingIs
<1>3. e \in Int /\ m \in Int
  BY DEF Ended, Seen
<1> HIDE DEF x, e, m
<1>4. \A i \in 1 .. e : i \in 1 .. m
  BY <1>1, <1>3
<1>5. QED
  BY <1>1, <1>2, <1>4 DEF x, e

LEMMA ClosedGrows ==
  ASSUME NEW p \in Seq(BarType), NEW n \in Nat, StartsOf(p) = 0 .. n - 1, NEW a \in Nat,
         NEW q \in Seq(BarType), NEW m \in Nat, StartsOf(q) = 0 .. m - 1, NEW b \in Nat,
         n <= m, a <= b, SameEnded(p, n, a, q)
  PROVE  IsPrefix(Closed(BuildUnderlying(p, a)), Closed(BuildUnderlying(q, b)))
<1> DEFINE x == Closed(BuildUnderlying(p, a))
           y == Closed(BuildUnderlying(q, b))
           e == Ended(n, a)
           f == Ended(m, b)
<1>1. a \in Int /\ b \in Int
  OBVIOUS
<1>2. /\ x \in Seq(CandleType) /\ Len(x) = e
      /\ \A i \in 1 .. e : x[i] = BuildCandle(p[LastSent(p, i - 1)], a)
  BY <1>1, ClosedAre
<1>3. /\ y \in Seq(CandleType) /\ Len(y) = f
      /\ \A i \in 1 .. f : y[i] = BuildCandle(q[LastSent(q, i - 1)], b)
  BY <1>1, ClosedAre
<1>4. e \in Nat /\ f \in Nat /\ e <= f /\ e <= a /\ e <= n
  BY DEF Ended
<1>5. \A t \in 0 .. e - 1 : q[LastSent(q, t)] = p[LastSent(p, t)]
  BY DEF SameEnded
<1> HIDE DEF x, y, e, f
<1>6. ASSUME NEW i \in 1 .. e
      PROVE  x[i] = y[i]
  <2>1. i \in 1 .. f /\ i - 1 \in 0 .. e - 1 /\ i - 1 \in StartsOf(p)
        /\ i - 1 + 1 <= a /\ i - 1 + 1 <= b
    BY <1>4
  <2> DEFINE bar == p[LastSent(p, i - 1)]
  <2>2. x[i] = BuildCandle(bar, a) /\ y[i] = BuildCandle(bar, b)
    BY <1>2, <1>3, <1>5, <2>1
  <2>3. bar.start = i - 1
    BY <2>1, LastSentIs
  <2> HIDE DEF bar
  <2>4. bar.start + 1 <= a /\ bar.start + 1 <= b
    BY <2>1, <2>3
  <2>5. BuildCandle(bar, a) = BuildCandle(bar, b)
    BY <2>4 DEF BuildCandle
  <2>6. QED
    BY <2>2, <2>5
<1>7. IsPrefix(x, y)
  BY <1>2, <1>3, <1>4, <1>6, PrefixIs
<1>8. QED
  BY <1>7 DEF x, y

\* One bar more leaves the last bar of every other period.
LEMMA LastSentStays ==
  ASSUME NEW p \in Seq(BarType), NEW bar \in BarType, NEW t \in StartsOf(p), t # bar.start
  PROVE  Append(p, bar)[LastSent(Append(p, bar), t)] = p[LastSent(p, t)]
<1> DEFINE q == Append(p, bar)
<1>1. /\ DOMAIN p = 1 .. Len(p) /\ Len(p) \in Nat
      /\ q \in Seq(BarType) /\ Len(q) = Len(p) + 1 /\ DOMAIN q = 1 .. Len(p) + 1
      /\ q[Len(p) + 1] = bar /\ \A i \in 1 .. Len(p) : q[i] = p[i]
  BY LenProperties
<1> HIDE DEF q
<1>2. {i \in DOMAIN q : q[i].start = t} = {i \in DOMAIN p : p[i].start = t}
  BY <1>1
<1>3. LastSent(q, t) = LastSent(p, t)
  BY <1>2 DEF LastSent
<1>4. LastSent(p, t) \in 1 .. Len(p)
  BY LastSentIs
<1>5. QED
  BY <1>1, <1>3, <1>4 DEF q

\* What a step does to the bars of the ended periods: nothing, unless it corrects one.
LEMMA EndedStay ==
  ASSUME IInv, IInv', Next, ~ CorrectsEndedBar
  PROVE  /\ SameEnded(payload, Cardinality(Starts), asOf, payload')
         /\ asOf <= asOf' /\ StartsOf(payload) \subseteq StartsOf(payload')
<1> DEFINE n == Cardinality(Starts)
<1>1. /\ payload \in Seq(BarType) /\ asOf \in Nat /\ n \in Nat
      /\ StartsOf(payload) = 0 .. n - 1
  BY CandlesOfPayload
<1>2. Starts = StartsOf(payload)
  BY DEF Starts, StartsOf
<1> HIDE DEF n
<1>3. \A t \in 0 .. Ended(n, asOf) - 1 : t \in 0 .. n - 1 /\ t + 1 <= asOf
  BY <1>1 DEF Ended
<1>a. ASSUME NEW start \in Nat, NEW shape \in Shapes,
             payload' = Append(payload, Bar(start, shape)), asOf' = asOf,
             \A t \in 0 .. Ended(n, asOf) - 1 : t # start
      PROVE  /\ SameEnded(payload, n, asOf, payload')
             /\ asOf <= asOf' /\ StartsOf(payload) \subseteq StartsOf(payload')
  <2>1. Bar(start, shape) \in BarType /\ Bar(start, shape).start = start
    BY BarIsBar
  <2> DEFINE bar == Bar(start, shape)
  <2> HIDE DEF bar
  <2>2. bar \in BarType /\ bar.start = start /\ payload' = Append(payload, bar)
    BY <1>a, <2>1 DEF bar
  <2>3. ASSUME NEW t \in 0 .. Ended(n, asOf) - 1
        PROVE  payload'[LastSent(payload', t)] = payload[LastSent(payload, t)]
    <3>1. t \in StartsOf(payload) /\ t # bar.start
      BY <1>1, <1>3, <1>a, <2>2
    <3>2. QED
      BY <1>1, <2>2, <3>1, LastSentStays
  <2>4. StartsOf(payload) \subseteq StartsOf(payload')
    <3>1. /\ DOMAIN payload = 1 .. Len(payload) /\ Len(payload) \in Nat
          /\ DOMAIN payload' = 1 .. Len(payload) + 1
          /\ \A i \in 1 .. Len(payload) : payload'[i] = payload[i]
      BY <1>1, <2>2, LenProperties
    <3>2. \A i \in DOMAIN payload : i \in DOMAIN payload' /\ payload'[i] = payload[i]
      BY <3>1
    <3>3. QED
      BY <3>2 DEF StartsOf
  <2>5. SameEnded(payload, n, asOf, payload')
    BY <2>3, Zenon DEF SameEnded
  <2>6. asOf <= asOf'
    BY <1>1, <1>a
  <2>7. QED
    BY <2>4, <2>5, <2>6
<1>b. ASSUME payload' = payload, asOf <= asOf'
      PROVE  /\ SameEnded(payload, n, asOf, payload')
             /\ asOf <= asOf' /\ StartsOf(payload) \subseteq StartsOf(payload')
  BY <1>b DEF SameEnded
<1>4. CASE \E shape \in Shapes : OpenBar(shape)
  <2>1. PICK shape \in Shapes : OpenBar(shape)
    BY <1>4
  <2>2. payload' = Append(payload, Bar(n, shape)) /\ asOf' = asOf
    BY <2>1 DEF OpenBar, n
  <2>3. \A t \in 0 .. Ended(n, asOf) - 1 : t # n
    BY <1>1, <1>3
  <2>4. QED
    BY <1>1, <1>a, <2>2, <2>3 DEF n
<1>5. CASE \E start \in Starts, shape \in Shapes : ResendBar(start, shape)
  <2>1. PICK start \in Starts, shape \in Shapes : ResendBar(start, shape)
    BY <1>5
  <2>2. ~ (start + 1 <= asOf)
    BY <2>1 DEF CorrectsEndedBar
  <2>3. payload' = Append(payload, Bar(start, shape)) /\ asOf' = asOf
    BY <2>1 DEF ResendBar
  <2>4. start \in Nat
    BY <1>1, <1>2
  <2>5. \A t \in 0 .. Ended(n, asOf) - 1 : t # start
    BY <1>3, <2>2
  <2>6. QED
    BY <1>a, <2>3, <2>4, <2>5 DEF n
<1>6. CASE PeriodEnds
  <2>1. payload' = payload /\ asOf <= asOf'
    BY <1>1, <1>6 DEF PeriodEnds
  <2>2. QED
    BY <1>b, <2>1 DEF n
<1>7. CASE Tick
  <2>1. payload' = payload /\ asOf <= asOf'
    BY <1>7 DEF Tick, IInv
  <2>2. QED
    BY <1>b, <2>1 DEF n
<1>8. CASE DayOver
  <2>1. payload' = payload /\ asOf <= asOf'
    BY <1>1, <1>8 DEF DayOver, vars
  <2>2. QED
    BY <1>b, <2>1 DEF n
<1>9. QED
  BY <1>4, <1>5, <1>6, <1>7, <1>8 DEF Next

LEMMA StepKeepsSwings ==
  ASSUME IInv, IInv', Next, ~ CorrectsEndedBar
  PROVE  IsPrefix(Swings, Swings')
<1> DEFINE p == payload
           q == payload'
           a == asOf
           b == asOf'
           n == Cardinality(StartsOf(p))
           m == Cardinality(StartsOf(q))
           x == BuildUnderlying(p, a)
           y == BuildUnderlying(q, b)
<1>1. /\ clock \in 0 .. Periods /\ a \in 0 .. clock /\ p \in Seq(BarType) /\ InSequence(p)
      /\ \A i \in DOMAIN p : p[i].start <= clock
  BY DEF IInv
<1>2. /\ clock' \in 0 .. Periods /\ b \in 0 .. clock' /\ q \in Seq(BarType) /\ InSequence(q)
      /\ \A i \in DOMAIN q : q[i].start <= clock'
  BY DEF IInv, InSequence
<1>3. Starts = StartsOf(p)
  BY DEF Starts, StartsOf
<1>4. SameEnded(p, n, a, q) /\ a <= b /\ StartsOf(p) \subseteq StartsOf(q)
  BY <1>3, EndedStay
<1>5. Swings = ClassifyStructure(FindSwings(x, a)) /\ Swings' = ClassifyStructure(FindSwings(y, b))
  BY DEF Swings, SwingsOf, Candles
<1>6. clock \in Nat /\ clock' \in Nat /\ a \in Nat /\ b \in Nat /\ a \in Int /\ b \in Int
  BY <1>1, <1>2
<1> HIDE DEF p, q, a, b
<1>7. n \in Nat /\ StartsOf(p) = 0 .. n - 1
  BY <1>1, <1>6, StartsAre
<1>8. m \in Nat /\ StartsOf(q) = 0 .. m - 1
  BY <1>2, <1>6, StartsAre
<1> HIDE DEF n, m
<1>9. n <= m
  <2>1. n > 0 => n - 1 \in 0 .. m - 1
    BY <1>4, <1>7, <1>8
  <2>2. QED
    BY <1>7, <1>8, <2>1
<1>10. IsPrefix(Closed(x), Closed(y))
  BY <1>1, <1>2, <1>4, <1>6, <1>7, <1>8, <1>9, ClosedGrows
<1>11. View(x, a) /\ View(y, b)
  BY <1>1, <1>2, <1>6, <1>7, <1>8, UnderlyingIsView
<1> HIDE DEF x, y
<1>12. /\ Closed(x) \in Seq(CandleType) /\ Closed(y) \in Seq(CandleType)
       /\ \A i \in 1 .. Len(Closed(x)) : Closed(x)[i].end <= a
  BY <1>11 DEF View
<1>13. IsPrefix(FindSwings(x, a), FindSwings(y, b))
  BY <1>4, <1>6, <1>10, <1>12, SwingsExtend
<1>14. FindSwings(x, a) \in Seq(SwingType) /\ FindSwings(y, b) \in Seq(SwingType)
  BY <1>12, SwingsType
<1>15. IsPrefix(ClassifyStructure(FindSwings(x, a)), ClassifyStructure(FindSwings(y, b)))
  BY <1>13, <1>14, LabelsExtend
<1>16. QED
  BY <1>5, <1>15

\* No step takes a swing back but the correction of an ended bar (swings.py:33-61).
THEOREM SwingsAreNeverRevoked ==
  Spec => [][CorrectsEndedBar \/ IsPrefix(Swings, Swings')]_vars
<1>1. IInv /\ IInv' /\ [Next]_vars => [CorrectsEndedBar \/ IsPrefix(Swings, Swings')]_vars
  BY StepKeepsSwings
<1>2. QED
  BY <1>1, InitIInv, NextIInv, PTL DEF Spec

-----------------------------------------------------------------------------
(*****************************************************************************)
(* Aggregates are final.                                                     *)
(*****************************************************************************)
\* Equal elements at the same indices are picked alike.
LEMMA PickedSame ==
  ASSUME NEW S, NEW s \in Seq(S), NEW t \in Seq(S),
         NEW I \in SUBSET (1 .. Len(s)), I \in SUBSET (1 .. Len(t)),
         \A i \in I : s[i] = t[i]
  PROVE  Picked(s, I) = Picked(t, I)
<1>1. /\ Picked(s, I) \in Seq(S) /\ Len(Picked(s, I)) = Cardinality(I)
      /\ \A k \in 1 .. Cardinality(I) : InOrder(I)[k] \in I /\ Picked(s, I)[k] = s[InOrder(I)[k]]
  BY PickedIs
<1>2. /\ Picked(t, I) \in Seq(S) /\ Len(Picked(t, I)) = Cardinality(I)
      /\ \A k \in 1 .. Cardinality(I) : Picked(t, I)[k] = t[InOrder(I)[k]]
  BY PickedIs
<1>3. \A k \in 1 .. Cardinality(I) : Picked(s, I)[k] = Picked(t, I)[k]
  BY <1>1, <1>2
<1>4. QED
  BY <1>1, <1>2, <1>3, SeqEqual

\* x \div m is the number of the bucket that x falls in.
LEMMA DivIs ==
  ASSUME NEW x \in Nat, NEW m \in Nat \ {0}
  PROVE  /\ x \div m \in 0 .. x
         /\ (x \div m) * m <= x /\ x < (x \div m + 1) * m
OBVIOUS

BucketClosed(cs, m, a, b) ==
  (b + 1) * m <= a /\ \A i \in DOMAIN InBucket(cs, m, b) : InBucket(cs, m, b)[i].is_closed

Merged(cs, m, a, b) == Merge(InBucket(cs, m, b), b, m, BucketClosed(cs, m, a, b))

\* The candles of the buckets that count as closed.
ClosedMerged(cs, m, a) ==
  {Merged(cs, m, a, b) : b \in {c \in Buckets(cs, m) : BucketClosed(cs, m, a, c)}}

\* A bucket is one that some candle falls in.
LEMMA BucketsAre ==
  ASSUME NEW cs \in Seq(CandleType), \A i \in 1 .. Len(cs) : cs[i].start = i - 1,
         NEW m
  PROVE  \A b : b \in Buckets(cs, m) <=> \E i \in 1 .. Len(cs) : b = (i - 1) \div m
<1>1. DOMAIN cs = 1 .. Len(cs)
  BY LenProperties
<1>2. QED
  BY <1>1 DEF Buckets

\* The closed aggregates, one for each bucket that has ended.
LEMMA ClosedBucketsAre ==
  ASSUME NEW cs \in Seq(CandleType), \A i \in 1 .. Len(cs) : cs[i].start = i - 1,
         NEW m \in Nat \ {0}, NEW a
  PROVE  ClosedBuckets(cs, m, a) = ClosedMerged(cs, m, a)
<1> DEFINE B == Buckets(cs, m)
           n == Cardinality(B)
           T == {Merged(cs, m, a, b) : b \in B}
           f == [k \in DOMAIN InOrder(B) |-> Merged(cs, m, a, InOrder(B)[k])]
           agg == AggregateIntraday(cs, m, a)
<1>1. DOMAIN cs = 1 .. Len(cs) /\ Len(cs) \in Nat
  BY LenProperties
<1>2. \A b : b \in B <=> \E i \in 1 .. Len(cs) : b = (i - 1) \div m
  BY BucketsAre
<1>3. IsFiniteSet(B) /\ B \subseteq Int
  <2>1. ASSUME NEW b \in B
        PROVE  b \in 0 .. Len(cs)
    <3>1. PICK i \in 1 .. Len(cs) : b = (i - 1) \div m
      BY <1>2
    <3>2. i - 1 \in Nat /\ i - 1 <= Len(cs)
      BY <1>1
    <3>3. b \in 0 .. i - 1
      BY <3>1, <3>2, DivIs
    <3>4. QED
      BY <3>2, <3>3, <1>1
  <2>2. 0 \in Int /\ Len(cs) \in Int
    BY <1>1
  <2>5. IsFiniteSet(0 .. Len(cs))
    BY <2>2, FS_Interval
  <2>3. B \in SUBSET (0 .. Len(cs))
    BY <2>1
  <2>4. QED
    BY <2>5, <2>3, FS_Subset
<1>4. agg = AsSeq(f)
  BY DEF AggregateIntraday, Merged, BucketClosed
<1> HIDE DEF B, agg
<1>5. n \in Nat
  BY <1>3, FS_CardinalityType
<1>6. DOMAIN InOrder(B) = 1 .. n /\ \A k \in 1 .. n : InOrder(B)[k] \in B
  BY <1>3, InOrderIs
<1>7. \A b \in B : \E k \in 1 .. n : InOrder(B)[k] = b
  BY <1>3, InOrderOnto
<1>8. f \in [1 .. n -> T] /\ \A k \in 1 .. n : f[k] = Merged(cs, m, a, InOrder(B)[k])
  BY <1>6
<1> HIDE DEF f, T, n
<1>9. agg = f /\ DOMAIN f = 1 .. n
  BY <1>4, <1>5, <1>8, AsSeqIs
<1>10. \A b : Merged(cs, m, a, b).is_closed = BucketClosed(cs, m, a, b)
  BY DEF Merged, Merge
<1>11. {agg[i] : i \in {j \in DOMAIN agg : agg[j].is_closed}}
         = {Merged(cs, m, a, b) : b \in {c \in B : BucketClosed(cs, m, a, c)}}
  <2>1. ASSUME NEW i \in 1 .. n, agg[i].is_closed
        PROVE  \E b \in B : BucketClosed(cs, m, a, b) /\ agg[i] = Merged(cs, m, a, b)
    <3>1. agg[i] = Merged(cs, m, a, InOrder(B)[i]) /\ InOrder(B)[i] \in B
      BY <1>6, <1>8, <1>9
    <3>2. BucketClosed(cs, m, a, InOrder(B)[i])
      BY <2>1, <3>1, <1>10
    <3>3. QED
      BY <3>1, <3>2
  <2>2. ASSUME NEW b \in B, BucketClosed(cs, m, a, b)
        PROVE  \E i \in 1 .. n : agg[i] = Merged(cs, m, a, b) /\ agg[i].is_closed
    <3>1. PICK k \in 1 .. n : InOrder(B)[k] = b
      BY <1>7
    <3>2. agg[k] = Merged(cs, m, a, b)
      BY <1>8, <1>9, <3>1
    <3>3. agg[k].is_closed
      BY <3>2, <2>2, <1>10
    <3>4. QED
      BY <3>2, <3>3
  <2>3. DOMAIN agg = 1 .. n
    BY <1>9
  <2>4. QED
    BY <2>1, <2>2, <2>3
<1>12. QED
  BY <1>11 DEF ClosedBuckets, ClosedMerged, agg, B

\* A bucket that is closed keeps its candle when later candles come.
LEMMA AggregatesStay ==
  ASSUME NEW x \in Seq(CandleType), \A i \in 1 .. Len(x) : x[i].start = i - 1,
         NEW y \in Seq(CandleType), \A i \in 1 .. Len(y) : y[i].start = i - 1,
         NEW a \in Nat, NEW b \in Nat, a <= b, a <= Len(x), a <= Len(y),
         \A i \in 1 .. a : x[i] = y[i],
         NEW m \in Nat \ {0}
  PROVE  ClosedBuckets(x, m, a) \subseteq ClosedBuckets(y, m, b)
<1>1. /\ Len(x) \in Nat /\ DOMAIN x = 1 .. Len(x)
      /\ Len(y) \in Nat /\ DOMAIN y = 1 .. Len(y)
  BY LenProperties
<1>2. ASSUME NEW c \in Buckets(x, m), BucketClosed(x, m, a, c)
      PROVE  /\ c \in Buckets(y, m) /\ BucketClosed(y, m, b, c)
             /\ Merged(x, m, a, c) = Merged(y, m, b, c)
  <2> DEFINE I == {i \in 1 .. a : (i - 1) \div m = c}
             end == (c + 1) * m
  <2>1. PICK h \in 1 .. Len(x) : c = (h - 1) \div m
    BY BucketsAre
  <2>2. c \in Nat
    <3>1. h - 1 \in Nat
      BY <1>1
    <3>2. QED
      BY <2>1, <3>1, DivIs
  <2>3. end <= a /\ end \in Nat
    <3>1. end <= a
      BY <1>2 DEF BucketClosed
    <3>2. QED
      BY <2>2, <3>1
  <2>4. ASSUME NEW i \in Nat \ {0}, (i - 1) \div m = c
        PROVE  i \in 1 .. a
    <3>1. i - 1 \in Nat
      OBVIOUS
    <3>2. i - 1 < ((i - 1) \div m + 1) * m
      BY <3>1, DivIs
    <3>3. i - 1 < end
      BY <3>2, <2>4
    <3> HIDE DEF end
    <3>4. QED
      BY <2>3, <3>3
  <2>5. {i \in DOMAIN x : x[i].start \div m = c} = I
    <3>1. \A i \in 1 .. Len(x) : x[i].start \div m = c <=> (i - 1) \div m = c
      OBVIOUS
    <3>2. \A i \in 1 .. Len(x) : i \in Nat \ {0}
      BY <1>1
    <3>3. \A i \in 1 .. a : i \in 1 .. Len(x)
      BY <1>1
    <3>4. QED
      BY <1>1, <2>4, <3>1, <3>2, <3>3
  <2>6. {i \in DOMAIN y : y[i].start \div m = c} = I
    <3>1. \A i \in 1 .. Len(y) : y[i].start \div m = c <=> (i - 1) \div m = c
      OBVIOUS
    <3>2. \A i \in 1 .. Len(y) : i \in Nat \ {0}
      BY <1>1
    <3>3. \A i \in 1 .. a : i \in 1 .. Len(y)
      BY <1>1
    <3>4. QED
      BY <1>1, <2>4, <3>1, <3>2, <3>3
  <2>7. I \in SUBSET (1 .. Len(x)) /\ I \in SUBSET (1 .. Len(y)) /\ I \in SUBSET (1 .. a)
    BY <1>1
  <2>8. InBucket(x, m, c) = Picked(x, I) /\ InBucket(y, m, c) = Picked(y, I)
    BY <2>5, <2>6 DEF InBucket
  <2>9. h \in 1 .. a
    BY <1>1, <2>1, <2>4
  <2> HIDE DEF I, end
  <2>10. Picked(x, I) = Picked(y, I)
    BY <2>7, PickedSame
  <2>11. InBucket(x, m, c) = InBucket(y, m, c)
    BY <2>8, <2>10
  <2>12. end <= b
    BY <2>3
  <2>13. BucketClosed(y, m, b, c)
    BY <1>2, <2>11, <2>12 DEF BucketClosed, end
  <2>14. c \in Buckets(y, m)
    <3>1. h \in 1 .. Len(y)
      BY <2>9, <1>1
    <3>2. QED
      BY <2>1, <3>1, BucketsAre
  <2>15. BucketClosed(x, m, a, c) = BucketClosed(y, m, b, c)
    <3>1. BucketClosed(x, m, a, c) \in BOOLEAN /\ BucketClosed(y, m, b, c) \in BOOLEAN
      BY DEF BucketClosed
    <3>2. QED
      BY <1>2, <2>13, <3>1
  <2>16. Merged(x, m, a, c) = Merged(y, m, b, c)
    BY <2>11, <2>15 DEF Merged
  <2>17. QED
    BY <2>13, <2>14, <2>16
<1>3. ClosedBuckets(x, m, a) = ClosedMerged(x, m, a) /\ ClosedBuckets(y, m, b) = ClosedMerged(y, m, b)
  BY ClosedBucketsAre
<1>4. ClosedMerged(x, m, a) \subseteq ClosedMerged(y, m, b)
  BY <1>2 DEF ClosedMerged
<1>5. QED
  BY <1>3, <1>4

\* A closed candle of a higher timeframe stays as it is while the upstream is
\* punctual and corrects nothing (aggregation.py:95).
THEOREM AggregatesStayClosed == Spec => []AggregatesAreFinal
<1>1. IInv => AggregatesAreFinal
  <2> SUFFICES ASSUME IInv, NEW bars \in 0 .. 1, NEW periods \in 0 .. 1,
                      Len(Closed(Before(bars, periods))) = asOf - periods,
                      Uncorrected(Before(bars, periods), Candles), NEW m \in Widths
               PROVE  ClosedBuckets(Before(bars, periods), m, asOf - periods)
                        \subseteq ClosedBuckets(Candles, m, asOf)
    BY DEF AggregatesAreFinal
  <2> DEFINE x == Before(bars, periods)
             y == Candles
             a == asOf - periods
  <2>1. View(x, a) /\ View(y, asOf) /\ Len(Closed(x)) = a /\ IsPrefix(Closed(x), Closed(y))
    BY ViewsAre DEF Uncorrected
  <2>2. asOf \in Nat /\ a <= asOf
    BY CandlesOfPayload
  <2> HIDE DEF x, y, a
  <2>3. Len(x) \in Nat /\ Len(y) \in Nat /\ Len(Closed(x)) \in Nat /\ Len(Closed(y)) \in Nat
    BY <2>1, LenProperties DEF View
  <2>4. Len(Closed(x)) <= Len(Closed(y))
        /\ \A i \in 1 .. Len(Closed(x)) : Closed(x)[i] = Closed(y)[i]
    <3>1. Closed(x) \in Seq(CandleType) /\ Closed(y) \in Seq(CandleType)
      BY <2>1 DEF View
    <3>2. QED
      BY <3>1, <2>1, PrefixIs
  <2>5. a \in Nat /\ a <= Len(x) /\ a <= Len(y)
    BY <2>1, <2>3, <2>4 DEF View
  <2>6. \A i \in 1 .. a : x[i] = y[i]
    <3>1. \A i \in 1 .. a : i \in 1 .. Len(Closed(x)) /\ i \in 1 .. Len(Closed(y))
      BY <2>1, <2>3, <2>4
    <3>2. QED
      BY <3>1, <2>1, <2>4 DEF View
  <2>7. m \in Nat \ {0}
    BY FeedAssumption
  <2>8. /\ x \in Seq(CandleType) /\ \A i \in 1 .. Len(x) : x[i].start = i - 1
        /\ y \in Seq(CandleType) /\ \A i \in 1 .. Len(y) : y[i].start = i - 1
    BY <2>1 DEF View
  <2>9. ClosedBuckets(x, m, a) \subseteq ClosedBuckets(y, m, asOf)
    BY <2>2, <2>5, <2>6, <2>7, <2>8, AggregatesStay
  <2>10. QED
    BY <2>9 DEF x, y, a
<1>2. QED
  BY <1>1, FeedInvariant, PTL

-----------------------------------------------------------------------------
(*****************************************************************************)
(* Pullbacks lie in the impulse.                                             *)
(*****************************************************************************)
\* The price in a payload is that of the bar last sent for the newest period.
LEMMA LtpIs ==
  ASSUME NEW p \in Seq(BarType), NEW n \in Nat, StartsOf(p) = 0 .. n - 1, p # << >>
  PROVE  /\ n - 1 \in StartsOf(p) /\ LtpOf(p) = p[LastSent(p, n - 1)].close
         /\ LtpOf(p) \in Nat
<1> DEFINE newest == Max(StartsOf(p))
<1>1. Len(p) \in Nat \ {0} /\ DOMAIN p = 1 .. Len(p)
  BY LenProperties, EmptySeq
<1>2. 1 \in DOMAIN p
  BY <1>1
<1>3. p[1].start \in StartsOf(p)
  BY <1>2 DEF StartsOf
<1>4. StartsOf(p) # {} /\ n # 0 /\ n - 1 \in StartsOf(p)
  BY <1>3
<1>5. newest = n - 1
  <2>1. 0 \in Int /\ n - 1 \in Int
    OBVIOUS
  <2>2. IsFiniteSet(StartsOf(p))
    BY <2>1, FS_Interval
  <2>3. StartsOf(p) \subseteq Int
    OBVIOUS
  <2>4. newest \in StartsOf(p) /\ \A t \in StartsOf(p) : t <= newest
    BY <1>4, <2>2, <2>3, MaxIs
  <2> HIDE DEF newest
  <2>5. newest \in Int /\ newest <= n - 1 /\ n - 1 <= newest
    BY <1>4, <2>4
  <2>6. QED
    BY <2>5
<1>6. LtpOf(p) = p[LastSent(p, newest)].close
  BY DEF LtpOf, StartsOf, LastSent
<1> HIDE DEF newest
<1>7. LastSent(p, n - 1) \in 1 .. Len(p)
  BY <1>4, LastSentIs
<1>8. p[LastSent(p, n - 1)] \in BarType
  BY <1>7, ElementOfSeq
<1>9. QED
  BY <1>4, <1>5, <1>6, <1>8 DEF BarType

\* A pullback is named only when the price is between the ends of the impulse.
LEMMA PullbackBetween ==
  ASSUME NEW start \in Int, NEW end \in Int, NEW price \in Int
  PROVE  LET bullish == end > start
             kind == ClassifyPullback(start, end, price,
                                      IF bullish THEN price < start ELSE price > start,
                                      IF bullish THEN price > end ELSE price < end)
         IN /\ kind # "FAILED"
            /\ kind \in {"SHALLOW", "MODERATE", "DEEP"} =>
                 (start <= price /\ price <= end) \/ (end <= price /\ price <= start)
<1>1. CASE start = end
  BY <1>1 DEF ClassifyPullback, Distance
<1>2. CASE start < end
  BY <1>2 DEF ClassifyPullback, Distance
<1>3. CASE end < start
  BY <1>3 DEF ClassifyPullback, Distance
<1>4. QED
  BY <1>1, <1>2, <1>3

\* Min and Max of two integers.
LEMMA EndsAre ==
  ASSUME NEW a \in Int, NEW b \in Int
  PROVE  /\ a <= b => Min({a, b}) = a /\ Max({a, b}) = b
         /\ b <= a => Min({a, b}) = b /\ Max({a, b}) = a
<1>1. IsFiniteSet({a, b}) /\ {a, b} \subseteq Int /\ {a, b} # {}
  <2>1. IsFiniteSet({a}) /\ {a, b} = {a} \cup {b}
    BY FS_Singleton
  <2>2. IsFiniteSet({a} \cup {b})
    BY <2>1, FS_AddElement
  <2>3. QED
    BY <2>1, <2>2
<1>2. /\ Max({a, b}) \in {a, b} /\ \A t \in {a, b} : t <= Max({a, b})
      /\ Min({a, b}) \in {a, b} /\ \A t \in {a, b} : Min({a, b}) <= t
  BY <1>1, MaxIs, MinIs
<1> DEFINE lo == Min({a, b})
           hi == Max({a, b})
<1>3. (lo = a \/ lo = b) /\ (hi = a \/ hi = b) /\ a <= hi /\ b <= hi /\ lo <= a /\ lo <= b
  BY <1>2
<1> HIDE DEF lo, hi
<1>4. (a <= b => lo = a /\ hi = b) /\ (b <= a => lo = b /\ hi = a)
  BY <1>3
<1>5. QED
  BY <1>4 DEF lo, hi

\* The ends of an impulse are swing prices.
LEMMA ImpulseIs ==
  ASSUME NEW s \in Seq(LabeledType), Impulse(s) # None
  PROVE  Impulse(s).start \in Int /\ Impulse(s).end \in Int
<1> DEFINE others == {i \in DOMAIN s : s[i].kind # Last(s).kind}
<1>1. s # << >> /\ others # {}
      /\ Impulse(s) = [start |-> s[Max(others)].price, end |-> Last(s).price]
  BY DEF Impulse
<1>2. Len(s) \in Nat \ {0} /\ DOMAIN s = 1 .. Len(s)
  BY <1>1, LenProperties, EmptySeq
<1>3. others \in SUBSET (1 .. Len(s))
  BY <1>2
<1>4. \A i \in 1 .. Len(s) : s[i].price \in Int
  <2>1. \A i \in 1 .. Len(s) : s[i] \in LabeledType
    BY ElementOfSeq
  <2>2. QED
    BY <2>1 DEF LabeledType
<1> HIDE DEF others
<1>5. Max(others) \in 1 .. Len(s)
  BY <1>1, <1>2, <1>3, BeforeIs
<1>6. Last(s) = s[Len(s)] /\ Len(s) \in 1 .. Len(s)
  BY <1>2 DEF Last
<1>7. QED
  BY <1>1, <1>4, <1>5, <1>6

\* The swings of the payload are labelled swings.
LEMMA SwingsOfPayload ==
  ASSUME IInv
  PROVE  Swings \in Seq(LabeledType)
<1>1. Closed(Candles) \in Seq(CandleType)
  BY ViewsAre DEF View
<1>2. FindSwings(Candles, asOf) \in Seq(SwingType)
  BY <1>1, SwingsType
<1>3. QED
  BY <1>2, ClassifyStructureIs DEF Swings, SwingsOf

\* A shallow, moderate or deep pullback has its price between the ends of the
\* impulse, and none is FAILED (pullback.py:52-67).
THEOREM PullbacksArePullbacks == Spec => []PullbackLiesInTheImpulse
<1>1. IInv => PullbackLiesInTheImpulse
  <2> SUFFICES ASSUME IInv, payload # << >> PROVE PullbackLiesInTheImpulse
    BY DEF PullbackLiesInTheImpulse
  <2> DEFINE i == Impulse(Swings)
             ltp == LtpOf(payload)
             kind == DerivePullback(Swings, ltp)
  <2>1. Swings \in Seq(LabeledType)
    BY SwingsOfPayload
  <2>2. ltp \in Int
    BY CandlesOfPayload, LtpIs
  <2>3. CASE i = None
    <3>1. kind = None
      BY <2>3 DEF DerivePullback
    <3>2. None \notin PullbackKinds
      BY PullbackAssumption
    <3>3. QED
      BY <3>1, <3>2 DEF PullbackKinds, PullbackLiesInTheImpulse
  <2>4. CASE i # None
    <3>1. i.start \in Int /\ i.end \in Int
      BY <2>1, <2>4, ImpulseIs
    <3>2. kind = ClassifyPullback(i.start, i.end, ltp,
                   IF i.end > i.start THEN ltp < i.start ELSE ltp > i.start,
                   IF i.end > i.start THEN ltp > i.end ELSE ltp < i.end)
      BY <2>4 DEF DerivePullback
    <3>3. PullbackLiesInTheImpulse <=>
            /\ kind # "FAILED"
            /\ kind \in {"SHALLOW", "MODERATE", "DEEP"} =>
                 Min({i.start, i.end}) <= ltp /\ ltp <= Max({i.start, i.end})
      BY DEF PullbackLiesInTheImpulse
    <3> DEFINE x == i.start
               y == i.end
    <3>4. x \in Int /\ y \in Int
      BY <3>1
    <3>6. /\ kind # "FAILED"
          /\ kind \in {"SHALLOW", "MODERATE", "DEEP"} =>
               (x <= ltp /\ ltp <= y) \/ (y <= ltp /\ ltp <= x)
      BY <2>2, <3>2, <3>4, PullbackBetween
    <3>7. PullbackLiesInTheImpulse <=>
            /\ kind # "FAILED"
            /\ kind \in {"SHALLOW", "MODERATE", "DEEP"} =>
                 Min({x, y}) <= ltp /\ ltp <= Max({x, y})
      BY <3>3
    <3> HIDE DEF x, y, kind, ltp
    <3>8. /\ x <= y => Min({x, y}) = x /\ Max({x, y}) = y
          /\ y <= x => Min({x, y}) = y /\ Max({x, y}) = x
      BY <3>4, EndsAre
    <3>9. (x <= ltp /\ ltp <= y) \/ (y <= ltp /\ ltp <= x)
            => Min({x, y}) <= ltp /\ ltp <= Max({x, y})
      BY <2>2, <3>4, <3>8
    <3>10. QED
      BY <3>6, <3>7, <3>9
  <2>5. QED
    BY <2>3, <2>4
<1>2. QED
  BY <1>1, FeedInvariant, PTL

-----------------------------------------------------------------------------
(*****************************************************************************)
(* Levels, liquidity zones and reactions are typed.                          *)
(*****************************************************************************)
\* The highest high is the high of some candle and below none.
LEMMA HighsAre ==
  ASSUME NEW cs \in Seq(CandleType), cs # << >>
  PROVE  /\ Max(Highs(cs)) \in Nat
         /\ \A i \in 1 .. Len(cs) : cs[i].high <= Max(Highs(cs))
         /\ \E i \in 1 .. Len(cs) : cs[i].high = Max(Highs(cs))
<1> DEFINE n == Len(cs)
           f == [i \in 1 .. n |-> cs[i].high]
<1>1. n \in Nat \ {0} /\ DOMAIN cs = 1 .. n
  BY LenProperties, EmptySeq
<1>2. \A i \in 1 .. n : cs[i].high \in Nat
  <2>1. \A i \in 1 .. n : cs[i] \in CandleType
    BY ElementOfSeq
  <2>2. QED
    BY <2>1 DEF CandleType
<1>3. \A h : h \in Highs(cs) <=> \E i \in 1 .. n : cs[i].high = h
  BY <1>1 DEF Highs
<1>4. Highs(cs) \subseteq Nat /\ Highs(cs) # {}
  <2>1. 1 \in 1 .. n
    BY <1>1
  <2>2. cs[1].high \in Highs(cs)
    BY <2>1, <1>3
  <2>3. Highs(cs) \subseteq Nat
    BY <1>2, <1>3
  <2>4. QED
    BY <2>2, <2>3
<1>5. f \in [1 .. n -> Highs(cs)] /\ \A h \in Highs(cs) : \E i \in 1 .. n : f[i] = h
  BY <1>3
<1> HIDE DEF f, n
<1>6. IsFiniteSet(1 .. n)
  BY <1>1, FS_Interval
<1>7. f \in Surjection(1 .. n, Highs(cs))
  BY <1>5 DEF Surjection
<1>8. IsFiniteSet(Highs(cs))
  BY <1>6, <1>7, FS_Surjection
<1>9. Highs(cs) \subseteq Int
  BY <1>4
<1>10. Max(Highs(cs)) \in Highs(cs) /\ \A h \in Highs(cs) : h <= Max(Highs(cs))
  BY <1>4, <1>8, <1>9, MaxIs
<1>11. QED
  BY <1>3, <1>4, <1>10 DEF n

\* The lowest low is the low of some candle and above none.
LEMMA LowsAre ==
  ASSUME NEW cs \in Seq(CandleType), cs # << >>
  PROVE  /\ Min(Lows(cs)) \in Nat
         /\ \A i \in 1 .. Len(cs) : Min(Lows(cs)) <= cs[i].low
         /\ \E i \in 1 .. Len(cs) : cs[i].low = Min(Lows(cs))
<1> DEFINE n == Len(cs)
           f == [i \in 1 .. n |-> cs[i].low]
<1>1. n \in Nat \ {0} /\ DOMAIN cs = 1 .. n
  BY LenProperties, EmptySeq
<1>2. \A i \in 1 .. n : cs[i].low \in Nat
  <2>1. \A i \in 1 .. n : cs[i] \in CandleType
    BY ElementOfSeq
  <2>2. QED
    BY <2>1 DEF CandleType
<1>3. \A h : h \in Lows(cs) <=> \E i \in 1 .. n : cs[i].low = h
  BY <1>1 DEF Lows
<1>4. Lows(cs) \subseteq Nat /\ Lows(cs) # {}
  <2>1. 1 \in 1 .. n
    BY <1>1
  <2>2. cs[1].low \in Lows(cs)
    BY <2>1, <1>3
  <2>3. Lows(cs) \subseteq Nat
    BY <1>2, <1>3
  <2>4. QED
    BY <2>2, <2>3
<1>5. f \in [1 .. n -> Lows(cs)] /\ \A h \in Lows(cs) : \E i \in 1 .. n : f[i] = h
  BY <1>3
<1> HIDE DEF f, n
<1>6. IsFiniteSet(1 .. n)
  BY <1>1, FS_Interval
<1>7. f \in Surjection(1 .. n, Lows(cs))
  BY <1>5 DEF Surjection
<1>8. IsFiniteSet(Lows(cs))
  BY <1>6, <1>7, FS_Surjection
<1>9. Lows(cs) \subseteq Int
  BY <1>4
<1>10. Min(Lows(cs)) \in Lows(cs) /\ \A h \in Lows(cs) : Min(Lows(cs)) <= h
  BY <1>4, <1>8, <1>9, MinIs
<1>11. QED
  BY <1>3, <1>4, <1>10 DEF n

ZoneType == [kind : LiquidityKinds, level : Nat]

\* A level gives one zone or none.
LEMMA ZoneIs ==
  ASSUME NEW kind \in LiquidityKinds, NEW level \in Nat \cup {None}
  PROVE  /\ Zone(kind, level) \in Seq(ZoneType)
         /\ Range(Zone(kind, level))
              = IF level = None THEN {} ELSE {[kind |-> kind, level |-> level]}
<1>1. CASE level = None
  <2>1. Zone(kind, level) = << >>
    BY <1>1 DEF Zone
  <2>2. << >> \in Seq(ZoneType) /\ DOMAIN << >> = {}
    BY EmptySeq
  <2>3. QED
    BY <1>1, <2>1, <2>2 DEF Range
<1>2. CASE level # None
  <2> DEFINE z == [kind |-> kind, level |-> level]
  <2>1. z \in ZoneType
    BY <1>2 DEF ZoneType
  <2>2. Zone(kind, level) = <<z>>
    BY <1>2 DEF Zone
  <2> HIDE DEF z
  <2>3. <<z>> \in Seq(ZoneType) /\ Range(<<z>>) = {z}
    BY <2>1 DEF Range
  <2>4. QED
    BY <1>2, <2>2, <2>3 DEF z
<1>3. QED
  BY <1>1, <1>2

\* The highest and the lowest price of some candles, if there are any.
LEMMA TopBottom ==
  ASSUME NEW cs \in Seq(CandleType)
  PROVE  Top(cs) \in Nat \cup {None} /\ Bottom(cs) \in Nat \cup {None}
BY HighsAre, LowsAre DEF Top, Bottom

LevelKinds == DOMAIN MirrorKind

\* The candles of the opening range.
OpeningOf(today) == Picked(today, {i \in DOMAIN today : today[i].start < OpeningPeriods})

\* A level of the day, if there is one.
LevelOf(today, kind) ==
  IF kind = "PDH" THEN IF PrevDay = None THEN None ELSE PrevDay.high
  ELSE IF kind = "PDL" THEN IF PrevDay = None THEN None ELSE PrevDay.low
  ELSE IF kind = "SESSION_HIGH" THEN Top(today)
  ELSE IF kind = "SESSION_LOW" THEN Bottom(today)
  ELSE IF kind = "OPENING_RANGE_HIGH" THEN Top(OpeningOf(today)) ELSE Bottom(OpeningOf(today))

\* The kinds of the session levels.
LEMMA LevelKindsAre ==
  /\ LevelKinds = {"PDH", "PDL", "SESSION_HIGH", "SESSION_LOW", "OPENING_RANGE_HIGH",
                   "OPENING_RANGE_LOW"}
  /\ \A k \in LevelKinds : k \in LiquidityKinds
BY DEF LevelKinds, MirrorKind, LiquidityKinds, MajorLevelKinds

\* A level is a price or nothing.
LEMMA LevelOfType ==
  ASSUME NEW today \in Seq(CandleType), NEW kind
  PROVE  LevelOf(today, kind) \in Nat \cup {None}
<1>1. OpeningOf(today) \in Seq(CandleType)
  <2> DEFINE I == {i \in DOMAIN today : today[i].start < OpeningPeriods}
  <2>1. DOMAIN today = 1 .. Len(today)
    BY LenProperties
  <2>2. I \in SUBSET (1 .. Len(today)) /\ OpeningOf(today) = Picked(today, I)
    BY <2>1 DEF OpeningOf
  <2> HIDE DEF I
  <2>3. QED
    BY <2>2, PickedIs
<1>2. /\ Top(today) \in Nat \cup {None} /\ Bottom(today) \in Nat \cup {None}
      /\ Top(OpeningOf(today)) \in Nat \cup {None}
      /\ Bottom(OpeningOf(today)) \in Nat \cup {None}
  BY <1>1, TopBottom
<1>3. PrevDay # None => PrevDay.high \in Nat /\ PrevDay.low \in Nat
  BY StructureAssumption
<1>4. QED
  BY <1>2, <1>3 DEF LevelOf

\* The session levels are the zones of the levels that exist, one of each kind
\* (levels.py:32-72).
LEMMA LevelZonesAre ==
  ASSUME NEW candles, Closed(candles) \in Seq(CandleType)
  PROVE  /\ LevelZones(candles) \in Seq(ZoneType)
         /\ \A w : w \in Range(LevelZones(candles)) <=>
                \E k \in LevelKinds : /\ LevelOf(Closed(candles), k) # None
                                      /\ w = [kind |-> k, level |-> LevelOf(Closed(candles), k)]
<1> DEFINE today == Closed(candles)
           z(k) == Zone(k, LevelOf(today, k))
           ph == z("PDH")
           pl == z("PDL")
           sh == z("SESSION_HIGH")
           sl == z("SESSION_LOW")
           oh == z("OPENING_RANGE_HIGH")
           ol == z("OPENING_RANGE_LOW")
           At(k, w) == LevelOf(today, k) # None /\ w = [kind |-> k, level |-> LevelOf(today, k)]
<1>1. \A k \in LevelKinds : z(k) \in Seq(ZoneType) /\ \A w : w \in Range(z(k)) <=> At(k, w)
  <2> TAKE k \in LevelKinds
  <2>1. k \in LiquidityKinds /\ LevelOf(today, k) \in Nat \cup {None}
    BY LevelKindsAre, LevelOfType
  <2>2. /\ z(k) \in Seq(ZoneType)
        /\ Range(z(k)) = IF LevelOf(today, k) = None THEN {}
                         ELSE {[kind |-> k, level |-> LevelOf(today, k)]}
    BY <2>1, ZoneIs
  <2>3. QED
    BY <2>2
<1>2. LevelZones(candles) = (((((ph \o pl) \o sh) \o sl) \o oh) \o ol)
  <2> DEFINE day == IF PrevDay = None THEN << >>
                    ELSE Zone("PDH", PrevDay.high) \o Zone("PDL", PrevDay.low)
  <2>1. day = ph \o pl
    <3>1. CASE PrevDay = None
      <4>1. ph = << >> /\ pl = << >>
        BY <3>1 DEF LevelOf, Zone
      <4>2. << >> \o << >> = << >>
        BY EmptySeq, ConcatEmptySeq
      <4> HIDE DEF ph, pl
      <4>3. QED
        BY <3>1, <4>1, <4>2
    <3>2. CASE PrevDay # None
      BY <3>2 DEF LevelOf
    <3>3. QED
      BY <3>1, <3>2
  <2>2. /\ sh = Zone("SESSION_HIGH", Top(today)) /\ sl = Zone("SESSION_LOW", Bottom(today))
        /\ oh = Zone("OPENING_RANGE_HIGH", Top(OpeningOf(today)))
        /\ ol = Zone("OPENING_RANGE_LOW", Bottom(OpeningOf(today)))
    BY DEF LevelOf
  <2>3. LevelZones(candles)
          = ((((day \o Zone("SESSION_HIGH", Top(today))) \o Zone("SESSION_LOW", Bottom(today)))
             \o Zone("OPENING_RANGE_HIGH", Top(OpeningOf(today))))
             \o Zone("OPENING_RANGE_LOW", Bottom(OpeningOf(today))))
    BY DEF LevelZones, OpeningOf
  <2> HIDE DEF day, ph, pl, sh, sl, oh, ol
  <2>4. QED
    BY <2>1, <2>2, <2>3
<1>3. /\ ph \in Seq(ZoneType) /\ pl \in Seq(ZoneType) /\ sh \in Seq(ZoneType)
      /\ sl \in Seq(ZoneType) /\ oh \in Seq(ZoneType) /\ ol \in Seq(ZoneType)
  BY <1>1, LevelKindsAre
<1>4. ASSUME NEW w
      PROVE  /\ w \in Range(ph) <=> At("PDH", w)
             /\ w \in Range(pl) <=> At("PDL", w)
             /\ w \in Range(sh) <=> At("SESSION_HIGH", w)
             /\ w \in Range(sl) <=> At("SESSION_LOW", w)
             /\ w \in Range(oh) <=> At("OPENING_RANGE_HIGH", w)
             /\ w \in Range(ol) <=> At("OPENING_RANGE_LOW", w)
  BY <1>1, LevelKindsAre
<1> HIDE DEF ph, pl, sh, sl, oh, ol, At
<1> DEFINE a == ph \o pl
           b == a \o sh
           c == b \o sl
           d == c \o oh
           e == d \o ol
<1>5. a \in Seq(ZoneType) /\ Range(a) = Range(ph) \cup Range(pl)
  BY <1>3, ConcatProperties, RangeConcatenation
<1> HIDE DEF a
<1>6. b \in Seq(ZoneType) /\ Range(b) = Range(a) \cup Range(sh)
  BY <1>3, <1>5, ConcatProperties, RangeConcatenation
<1> HIDE DEF b
<1>7. c \in Seq(ZoneType) /\ Range(c) = Range(b) \cup Range(sl)
  BY <1>3, <1>6, ConcatProperties, RangeConcatenation
<1> HIDE DEF c
<1>8. d \in Seq(ZoneType) /\ Range(d) = Range(c) \cup Range(oh)
  BY <1>3, <1>7, ConcatProperties, RangeConcatenation
<1> HIDE DEF d
<1>9. e \in Seq(ZoneType) /\ Range(e) = Range(d) \cup Range(ol)
  BY <1>3, <1>8, ConcatProperties, RangeConcatenation
<1>10. LevelZones(candles) = e
  BY <1>2 DEF a, b, c, d
<1> HIDE DEF e
<1>11. Range(e) = Range(ph) \cup Range(pl) \cup Range(sh) \cup Range(sl) \cup Range(oh)
                  \cup Range(ol)
  BY <1>5, <1>6, <1>7, <1>8, <1>9
<1>12. ASSUME NEW w
       PROVE  w \in Range(e) <=> \E k \in LevelKinds : At(k, w)
  <2>1. w \in Range(e) <=> \/ At("PDH", w) \/ At("PDL", w) \/ At("SESSION_HIGH", w)
                           \/ At("SESSION_LOW", w) \/ At("OPENING_RANGE_HIGH", w)
                           \/ At("OPENING_RANGE_LOW", w)
    BY <1>4, <1>11
  <2>2. QED
    BY <2>1, LevelKindsAre
<1>13. QED
  BY <1>9, <1>10, <1>12 DEF At

\* The prices of the swings of a kind.
LEMMA PricesOfType ==
  ASSUME NEW swings \in Seq(LabeledType), NEW kind
  PROVE  PricesOf(swings, kind) \in Seq(Nat)
<1> DEFINE I == {i \in DOMAIN swings : swings[i].kind = kind}
           of == Picked(swings, I)
           n == Cardinality(I)
           f == [i \in DOMAIN of |-> of[i].price]
<1>1. DOMAIN swings = 1 .. Len(swings)
  BY LenProperties
<1>2. I \in SUBSET (1 .. Len(swings))
  BY <1>1
<1>3. PricesOf(swings, kind) = AsSeq(f)
  BY DEF PricesOf
<1> HIDE DEF I
<1>4. of \in Seq(LabeledType) /\ DOMAIN of = 1 .. n /\ Len(of) = n /\ n \in Nat
  BY <1>2, PickedIs
<1> HIDE DEF of, n
<1>5. \A i \in 1 .. n : of[i] \in LabeledType
  BY <1>4, ElementOfSeq
<1>6. \A i \in 1 .. n : of[i].price \in Nat
  BY <1>5 DEF LabeledType
<1>7. f \in [1 .. n -> Nat]
  BY <1>4, <1>6
<1> HIDE DEF f
<1>8. QED
  BY <1>3, <1>4, <1>7, AsSeqIs

\* How far the sums of the prices go.
IsSum(prices, f, m) ==
  f = [k \in 0 .. m |-> IF k = 0 THEN 0 ELSE f[k - 1] + prices[k]]

\* The running sums of a sequence of naturals exist up to any index, by induction
\* on the index: the recursive definition of Sums has a solution.
LEMMA SumExists ==
  ASSUME NEW prices \in Seq(Nat), NEW m \in 0 .. Len(prices)
  PROVE  \E f \in [0 .. m -> Nat] : IsSum(prices, f, m)
<1> DEFINE Bad == {k \in 0 .. Len(prices) : ~ \E f \in [0 .. k -> Nat] : IsSum(prices, f, k)}
<1>1. SUFFICES ASSUME Bad # {}
               PROVE  FALSE
  OBVIOUS
<1>2. Len(prices) \in Nat
  BY LenProperties
<1>3. Bad \in SUBSET Nat
  BY <1>2
<1>4. PICK k \in Bad : \A j \in Bad : k <= j
  BY <1>1, <1>3, NatMin
<1>5. k \in 0 .. Len(prices) /\ ~ \E f \in [0 .. k -> Nat] : IsSum(prices, f, k)
  OBVIOUS
<1>6. CASE k = 0
  <2> DEFINE f == [i \in 0 .. 0 |-> 0]
  <2>1. f \in [0 .. k -> Nat]
    BY <1>6
  <2>2. IsSum(prices, f, k)
    BY <1>6 DEF IsSum
  <2>3. QED
    BY <1>5, <2>1, <2>2
<1>7. CASE k # 0
  <2>1. k - 1 \in 0 .. Len(prices) /\ k \in 1 .. Len(prices) /\ ~ (k <= k - 1)
    BY <1>2, <1>5, <1>7
  <2>2. k - 1 \notin Bad
    BY <1>4, <2>1
  <2>3. PICK g \in [0 .. k - 1 -> Nat] : IsSum(prices, g, k - 1)
    BY <2>1, <2>2
  <2>4. prices[k] \in Nat
    BY <2>1, ElementOfSeq
  <2> DEFINE f == [i \in 0 .. k |-> IF i = k THEN g[k - 1] + prices[k] ELSE g[i]]
  <2>5. k - 1 \in 0 .. k - 1 /\ \A i \in 0 .. k : i = k \/ i \in 0 .. k - 1
    BY <2>1
  <2>6. g[k - 1] + prices[k] \in Nat
    <3>1. g[k - 1] \in Nat
      BY <2>5
    <3>2. QED
      BY <3>1, <2>4
  <2>7. f \in [0 .. k -> Nat]
    BY <2>5, <2>6
  <2>8. \A i \in 0 .. k - 1 : g[i] = IF i = 0 THEN 0 ELSE g[i - 1] + prices[i]
    BY <2>3 DEF IsSum
  <2>9. ASSUME NEW i \in 0 .. k
        PROVE  f[i] = IF i = 0 THEN 0 ELSE f[i - 1] + prices[i]
    <3>1. CASE i = k
      <4>1. f[i] = g[k - 1] + prices[k]
        BY <3>1
      <4>2. i - 1 \in 0 .. k /\ i - 1 # k /\ i # 0
        BY <2>1, <3>1
      <4>3. f[i - 1] = g[i - 1]
        BY <4>2
      <4>4. QED
        BY <3>1, <4>1, <4>2, <4>3
    <3>2. CASE i # k
      <4>1. i \in 0 .. k - 1 /\ f[i] = g[i]
        BY <2>5, <3>2
      <4>2. i # 0 => i - 1 \in 0 .. k /\ i - 1 # k
        BY <2>1, <4>1
      <4>3. i # 0 => f[i - 1] = g[i - 1]
        BY <4>2
      <4> HIDE DEF f
      <4>4. QED
        BY <4>1, <4>3, <2>8
    <3>3. QED
      BY <3>1, <3>2
  <2>10. f = [i \in 0 .. k |-> f[i]]
    OBVIOUS
  <2> HIDE DEF f
  <2>11. IsSum(prices, f, k)
    BY <2>9, <2>10 DEF IsSum
  <2>12. QED
    BY <1>5, <2>7, <2>11
<1>8. QED
  BY <1>6, <1>7

\* The sums do not decrease.
LEMMA SumsAre ==
  ASSUME NEW prices \in Seq(Nat)
  PROVE  /\ Sums(prices) \in [0 .. Len(prices) -> Nat]
         /\ \A i, j \in 0 .. Len(prices) : i <= j => Sums(prices)[i] <= Sums(prices)[j]
<1> DEFINE n == Len(prices)
           sum == Sums(prices)
<1>1. n \in Nat
  BY LenProperties
<1>2. sum = CHOOSE f : IsSum(prices, f, n)
  BY DEF Sums, IsSum
<1>3. \E f \in [0 .. n -> Nat] : IsSum(prices, f, n)
  BY <1>1, SumExists
<1>4. IsSum(prices, sum, n)
  BY <1>2, <1>3
<1> HIDE DEF sum
<1>5. DOMAIN sum = 0 .. n
        /\ \A k \in 0 .. n : sum[k] = IF k = 0 THEN 0 ELSE sum[k - 1] + prices[k]
  BY <1>4 DEF IsSum
<1>6. \A i \in 1 .. n : prices[i] \in Nat
  BY ElementOfSeq
<1> HIDE DEF n
<1>7. ASSUME NEW i \in 0 .. n, NEW j \in 0 .. n, i <= j, sum[i] \in Nat
      PROVE  sum[j] \in Nat /\ sum[i] <= sum[j]
  <2> DEFINE Bad == {k \in 0 .. n : i <= k /\ ~ (sum[k] \in Nat /\ sum[i] <= sum[k])}
  <2>1. SUFFICES ASSUME Bad # {}
                 PROVE  FALSE
    BY <1>7
  <2>2. Bad \in SUBSET Nat
    BY <1>1
  <2>3. PICK k \in Bad : \A l \in Bad : k <= l
    BY <2>1, <2>2, NatMin
  <2>4. k \in 0 .. n /\ i <= k /\ ~ (sum[k] \in Nat /\ sum[i] <= sum[k])
    OBVIOUS
  <2>5. k # i
    BY <2>4, <1>7
  <2>6. k - 1 \in 0 .. n /\ i <= k - 1 /\ k # 0 /\ k \in 1 .. n /\ ~ (k <= k - 1)
    BY <1>1, <2>4, <2>5
  <2>7. sum[k - 1] \in Nat /\ sum[i] <= sum[k - 1]
    BY <2>3, <2>6
  <2>8. sum[k] = sum[k - 1] + prices[k] /\ prices[k] \in Nat
    BY <1>5, <1>6, <2>4, <2>6
  <2>9. QED
    BY <1>7, <2>4, <2>7, <2>8
<1>8. sum[0] \in Nat /\ 0 \in 0 .. n
  BY <1>1, <1>5
<1>9. \A j \in 0 .. n : sum[j] \in Nat
  BY <1>7, <1>8
<1>10. sum = [k \in 0 .. n |-> sum[k]]
  BY <1>5, <1>4 DEF IsSum
<1>11. sum \in [0 .. n -> Nat]
  BY <1>9, <1>10
<1>12. QED
  BY <1>7, <1>9, <1>11 DEF sum, n

(***************************************************************************)
(* Ascending sorts: the prices at their places in the order.               *)
(***************************************************************************)
Comes(prices, j, i) == prices[j] < prices[i] \/ (prices[j] = prices[i] /\ j < i)

Place(prices, i) == Cardinality({j \in 1 .. Len(prices) : Comes(prices, j, i)})

\* In a sequence every place of the ascending order is taken.
LEMMA PlaceExists ==
  ASSUME NEW prices \in Seq(Nat), NEW k \in 1 .. Len(prices)
  PROVE  \E i \in 1 .. Len(prices) : Place(prices, i) = k - 1
<1> DEFINE n == Len(prices)
           S == 1 .. n
           R == {p \in S \X S : Comes(prices, p[1], p[2])}
<1>1. n \in Nat
  BY LenProperties
<1>2. \A i \in S : prices[i] \in Nat
  BY ElementOfSeq
<1>3. \A x, y \in S : <<x, y>> \in R <=> Comes(prices, x, y)
  OBVIOUS
<1>4. IsFiniteSet(S) /\ Cardinality(S) = n
  <2>1. 1 \in Int /\ n \in Int /\ (1 > n => n = 0) /\ n - 1 + 1 = n
    BY <1>1
  <2>2. QED
    BY <2>1, FS_Interval
<1>5. \A t \in S : {u \in S : <<u, t>> \in R} = {j \in 1 .. Len(prices) : Comes(prices, j, t)}
  BY <1>3
<1>6. k \in 1 .. Cardinality(S)
  BY <1>4
<1>7. S \subseteq Int
  OBVIOUS
<1> HIDE DEF R, S, n
<1>8. \A x \in S : <<x, x>> \notin R
  <2> TAKE x \in S
  <2>1. x \in Int /\ prices[x] \in Nat
    BY <1>2, <1>7
  <2>2. ~ Comes(prices, x, x)
    BY <2>1 DEF Comes
  <2>3. QED
    BY <2>2, <1>3
<1>9. \A x, y, z \in S : <<x, y>> \in R /\ <<y, z>> \in R => <<x, z>> \in R
  <2> SUFFICES ASSUME NEW x \in S, NEW y \in S, NEW z \in S, <<x, y>> \in R, <<y, z>> \in R
               PROVE  <<x, z>> \in R
    OBVIOUS
  <2>1. x \in Int /\ y \in Int /\ z \in Int
        /\ prices[x] \in Nat /\ prices[y] \in Nat /\ prices[z] \in Nat
    BY <1>2, <1>7
  <2>2. Comes(prices, x, y) /\ Comes(prices, y, z)
    BY <1>3
  <2>3. Comes(prices, x, z)
    BY <2>1, <2>2, SMTT(60) DEF Comes
  <2>4. QED
    BY <2>3, <1>3
<1>10. \A x, y \in S : x = y \/ <<x, y>> \in R \/ <<y, x>> \in R
  <2> TAKE x, y \in S
  <2>1. x \in Int /\ y \in Int /\ prices[x] \in Nat /\ prices[y] \in Nat
    BY <1>2, <1>7
  <2>2. x = y \/ Comes(prices, x, y) \/ Comes(prices, y, x)
    BY <2>1 DEF Comes
  <2>3. QED
    BY <2>2, <1>3
<1>11. \E t \in S : RankIn(S, R, t) = k - 1
  BY <1>4, <1>6, <1>8, <1>9, <1>10, RankExists
<1>12. QED
  BY <1>5, <1>11 DEF RankIn, Place, S, n

\* Ascending lists the prices of the sequence.
LEMMA AscendingType ==
  ASSUME NEW prices \in Seq(Nat)
  PROVE  /\ Ascending(prices) \in Seq(Nat) /\ Len(Ascending(prices)) = Len(prices)
         /\ \A k \in 1 .. Len(prices) : \E i \in 1 .. Len(prices) :
              Ascending(prices)[k] = prices[i] /\ Place(prices, i) = k - 1
<1> DEFINE n == Len(prices)
           at(k) == CHOOSE i \in 1 .. n : Place(prices, i) = k - 1
           f == [k \in 1 .. n |-> prices[at(k)]]
<1>1. n \in Nat
  BY LenProperties
<1>2. Ascending(prices) = AsSeq(f)
  BY DEF Ascending, Place, Comes
<1>3. \A k \in 1 .. n : at(k) \in 1 .. n /\ Place(prices, at(k)) = k - 1
  BY PlaceExists
<1>4. \A k \in 1 .. n : f[k] = prices[at(k)]
  OBVIOUS
<1>5. \A i \in 1 .. n : prices[i] \in Nat
  BY ElementOfSeq
<1>6. f \in [1 .. n -> Nat]
  BY <1>3, <1>5
<1> HIDE DEF f, at
<1>7. AsSeq(f) = f /\ f \in Seq(Nat) /\ Len(f) = n
  BY <1>1, <1>6, AsSeqIs
<1>8. QED
  BY <1>2, <1>3, <1>4, <1>7

\* A quotient of naturals is a natural.
LEMMA QuotientType ==
  ASSUME NEW x \in Nat, NEW m \in Nat \ {0}
  PROVE  x \div m \in Nat
OBVIOUS

\* Clusters of equal highs or lows are zones, at an average price.
LEMMA EqualLevelZonesType ==
  ASSUME NEW prices \in Seq(Nat), NEW kind \in LiquidityKinds
  PROVE  /\ EqualLevelZones(prices, kind) \in Seq(ZoneType)
         /\ \A w \in Range(EqualLevelZones(prices, kind)) : w.kind = kind
<1> DEFINE sorted == Ascending(prices)
           n == Len(sorted)
           sums == Sums(sorted)
           Near(i) == {j \in i .. n : (sorted[j] - sorted[i]) * 10000 <= 8 * sorted[i]}
           Reach(i) == Max(Near(i))
           Level(i) == (sums[Reach(i)] - sums[i - 1]) \div (Reach(i) - i + 1)
           Begin(C) == 1 \in C /\ \A i \in C : Reach(i) < n => Reach(i) + 1 \in C
           begins == {i \in 1 .. n : \A C \in SUBSET (1 .. n) : Begin(C) => i \in C}
           I == {i \in begins : Reach(i) > i}
           zones == InOrder(I)
           f == [k \in DOMAIN zones |-> [kind |-> kind, level |-> Level(zones[k])]]
<1>1. EqualLevelZones(prices, kind) = AsSeq(f)
  BY DEF EqualLevelZones
<1>2. sorted \in Seq(Nat)
  BY AscendingType
<1>3. n \in Nat
  BY <1>2, LenProperties
<1>4. \A i \in 1 .. n : sorted[i] \in Nat
  BY <1>2, ElementOfSeq
<1>5. sums \in [0 .. n -> Nat] /\ \A i, j \in 0 .. n : i <= j => sums[i] <= sums[j]
  BY <1>2, SumsAre
<1>6. I \in SUBSET (1 .. n)
  OBVIOUS
<1> HIDE DEF sorted, n, sums, I
<1>7. ASSUME NEW i \in 1 .. n
      PROVE  Reach(i) \in i .. n
  <2>1. i \in Near(i)
    <3>1. sorted[i] \in Nat
      BY <1>4
    <3>2. (sorted[i] - sorted[i]) * 10000 <= 8 * sorted[i]
      BY <3>1
    <3>3. QED
      BY <3>2, <1>3
  <2>2. Near(i) \in SUBSET (1 .. n)
    BY <1>3
  <2>3. Near(i) \in SUBSET (i .. n)
    OBVIOUS
  <2> HIDE DEF Near
  <2>4. Max(Near(i)) \in Near(i)
    BY <2>1, <2>2, <1>3, BeforeIs
  <2>5. QED
    BY <2>3, <2>4
<1>8. ASSUME NEW i \in 1 .. n
      PROVE  Level(i) \in Nat
  <2> DEFINE r == Reach(i)
  <2>1. r \in i .. n
    BY <1>7
  <2> HIDE DEF Reach, r
  <2>2. r \in 0 .. n /\ i - 1 \in 0 .. n /\ i - 1 <= r /\ r - i + 1 \in Nat \ {0}
    BY <1>3, <2>1
  <2>3. sums[r] \in Nat /\ sums[i - 1] \in Nat /\ sums[i - 1] <= sums[r]
    BY <1>5, <2>2
  <2>4. sums[r] - sums[i - 1] \in Nat
    BY <2>3
  <2>5. (sums[r] - sums[i - 1]) \div (r - i + 1) \in Nat
    BY <2>2, <2>4, QuotientType
  <2>6. QED
    BY <2>5 DEF r
<1> HIDE DEF Level
<1>9. IsFiniteSet(I) /\ I \subseteq Int
  <2>1. 1 \in Int /\ n \in Int
    BY <1>3
  <2>2. IsFiniteSet(1 .. n)
    BY <2>1, FS_Interval
  <2>3. IsFiniteSet(I)
    BY <1>6, <2>2, FS_Subset
  <2>4. \A i \in I : i \in Int
    BY <1>6
  <2>5. QED
    BY <2>3, <2>4
<1> DEFINE c == Cardinality(I)
<1>10. DOMAIN zones = 1 .. c /\ (\A k \in 1 .. c : zones[k] \in I) /\ c \in Nat
  BY <1>9, InOrderIs, FS_CardinalityType
<1> HIDE DEF zones, c
<1>11. \A k \in 1 .. c : Level(zones[k]) \in Nat
  BY <1>6, <1>8, <1>10
<1>12. \A k \in 1 .. c : [kind |-> kind, level |-> Level(zones[k])] \in ZoneType
  BY <1>11 DEF ZoneType
<1>13. f \in [1 .. c -> ZoneType] /\ \A k \in 1 .. c : f[k].kind = kind
  BY <1>10, <1>12
<1> HIDE DEF f
<1>14. AsSeq(f) = f /\ f \in Seq(ZoneType)
  BY <1>10, <1>13, AsSeqIs
<1>15. \A w \in Range(f) : w.kind = kind
  BY <1>13 DEF Range
<1>16. QED
  BY <1>1, <1>14, <1>15

\* Zones of the levels' kinds are the session levels; the others are equal highs
\* and lows.
LEMMA ZonesAre ==
  ASSUME NEW candles, Closed(candles) \in Seq(CandleType), NEW swings \in Seq(LabeledType)
  PROVE  /\ IdentifyLiquidityZones(candles, swings) \in Seq(ZoneType)
         /\ Range(LevelZones(candles)) \subseteq Range(IdentifyLiquidityZones(candles, swings))
         /\ \A w \in Range(IdentifyLiquidityZones(candles, swings)) :
              w.kind \in LevelKinds => w \in Range(LevelZones(candles))
<1> DEFINE a == LevelZones(candles)
           b == EqualLevelZones(PricesOf(swings, "HIGH"), "EQUAL_HIGH")
           c == EqualLevelZones(PricesOf(swings, "LOW"), "EQUAL_LOW")
           d == a \o b
           e == d \o c
<1>1. /\ "EQUAL_HIGH" \in LiquidityKinds /\ "EQUAL_LOW" \in LiquidityKinds
      /\ "EQUAL_HIGH" \notin LevelKinds /\ "EQUAL_LOW" \notin LevelKinds
  BY DEF LiquidityKinds, LevelKinds, MirrorKind
<1>2. a \in Seq(ZoneType)
  BY LevelZonesAre
<1>3. PricesOf(swings, "HIGH") \in Seq(Nat) /\ PricesOf(swings, "LOW") \in Seq(Nat)
  BY PricesOfType
<1>4. /\ b \in Seq(ZoneType) /\ \A w \in Range(b) : w.kind = "EQUAL_HIGH"
      /\ c \in Seq(ZoneType) /\ \A w \in Range(c) : w.kind = "EQUAL_LOW"
  BY <1>1, <1>3, EqualLevelZonesType
<1>5. IdentifyLiquidityZones(candles, swings) = e
  BY DEF IdentifyLiquidityZones
<1> HIDE DEF a, b, c
<1>6. d \in Seq(ZoneType) /\ Range(d) = Range(a) \cup Range(b)
  BY <1>2, <1>4, ConcatProperties, RangeConcatenation
<1> HIDE DEF d
<1>7. e \in Seq(ZoneType) /\ Range(e) = Range(d) \cup Range(c)
  BY <1>4, <1>6, ConcatProperties, RangeConcatenation
<1> HIDE DEF e
<1>8. \A w \in Range(e) : w.kind \in LevelKinds => w \in Range(a)
  BY <1>1, <1>4, <1>6, <1>7
<1>9. QED
  BY <1>5, <1>6, <1>7, <1>8 DEF a

\* classify_reaction gives one of the seven reactions.
LEMMA ClassifyReactionType ==
  ASSUME NEW cs, NEW level, NEW direction
  PROVE  ClassifyReaction(cs, level, direction) \in ReactionKinds
BY DEF ClassifyReaction, ReactionKinds

\* The last ten closed candles.
Recent(candles) ==
  SubSeq(Closed(candles), Max({1, Len(Closed(candles)) - 9}), Len(Closed(candles)))

\* The last of the recent candles is the last closed one.
LEMMA RecentIs ==
  ASSUME NEW candles, Closed(candles) \in Seq(CandleType)
  PROVE  /\ Recent(candles) \in Seq(CandleType)
         /\ Recent(candles) # << >> =>
              Closed(candles) # << >> /\ Last(Recent(candles)) = Last(Closed(candles))
<1> DEFINE c == Closed(candles)
           n == Len(c)
           a == Max({1, n - 9})
           r == SubSeq(c, a, n)
<1>1. n \in Nat /\ DOMAIN c = 1 .. n
  BY LenProperties
<1>2. \A i \in 1 .. n : c[i] \in CandleType
  BY ElementOfSeq
<1>3. (n = 0 => c = << >>) /\ (c = << >> => n = 0)
  BY EmptySeq
<1>4. Recent(candles) = r
  BY DEF Recent
<1> HIDE DEF c, n
<1>5. a \in Int /\ 1 <= a /\ (n # 0 => a <= n)
  <2>1. 1 \in Int /\ n - 9 \in Int
    BY <1>1
  <2>2. /\ 1 <= n - 9 => Max({1, n - 9}) = n - 9
        /\ n - 9 <= 1 => Max({1, n - 9}) = 1
    BY <2>1, EndsAre
  <2>3. 1 <= n - 9 \/ n - 9 <= 1
    BY <1>1
  <2> HIDE DEF a
  <2>4. (1 <= n - 9 => a = n - 9) /\ (n - 9 <= 1 => a = 1)
    BY <2>2 DEF a
  <2>5. QED
    BY <1>1, <2>3, <2>4
<1> HIDE DEF a
<1>6. \A i \in a .. n : c[i] \in CandleType
  BY <1>1, <1>2, <1>5
<1>7. /\ r \in Seq(CandleType) /\ Len(r) = (IF a <= n THEN n - a + 1 ELSE 0)
      /\ \A i \in 1 .. n - a + 1 : r[i] = c[a + i - 1]
  BY <1>1, <1>5, <1>6, SubSeqProperties
<1> HIDE DEF r
<1>8. ASSUME r # << >>
      PROVE  c # << >> /\ Last(r) = Last(c)
  <2>1. Len(r) \in Nat \ {0}
    BY <1>7, <1>8, LenProperties, EmptySeq
  <2>2. a <= n /\ Len(r) = n - a + 1 /\ n # 0
    BY <1>1, <1>5, <1>7, <2>1
  <2>3. r[n - a + 1] = c[a + (n - a + 1) - 1]
    <3>1. n - a + 1 \in 1 .. n - a + 1
      BY <1>1, <1>5, <2>2
    <3>2. QED
      BY <3>1, <1>7
  <2>4. a + (n - a + 1) - 1 = n
    BY <1>1, <1>5
  <2>5. QED
    BY <1>3, <2>2, <2>3, <2>4 DEF Last, n
<1>9. QED
  BY <1>4, <1>7, <1>8 DEF c

\* The side from which a zone is tested.
Side(level, price) == IF level <= price THEN "BELOW" ELSE "ABOVE"

\* Each zone gets the reaction of the recent candles to its level, from the side of
\* the price.
LEMMA ReactionsAre ==
  ASSUME NEW zones \in Seq(ZoneType), NEW candles, NEW price
  PROVE  /\ ClassifyReactionsAtZones(zones, candles, price) \in Reactions
         /\ Len(ClassifyReactionsAtZones(zones, candles, price)) = Len(zones)
         /\ \A i \in 1 .. Len(zones) :
              ClassifyReactionsAtZones(zones, candles, price)[i]
                = [kind |-> zones[i].kind, level |-> zones[i].level,
                   reaction |-> ClassifyReaction(Recent(candles), zones[i].level,
                                                 Side(zones[i].level, price))]
<1> DEFINE R == [kind : LiquidityKinds, level : Nat, reaction : ReactionKinds]
           n == Len(zones)
           At(i) == [kind |-> zones[i].kind, level |-> zones[i].level,
                     reaction |-> ClassifyReaction(Recent(candles), zones[i].level,
                                                   Side(zones[i].level, price))]
           f == [i \in 1 .. n |-> At(i)]
<1>1. n \in Nat /\ DOMAIN zones = 1 .. n
  BY LenProperties
<1>2. ASSUME NEW i \in 1 .. n
      PROVE  At(i) \in R
  <2>1. zones[i] \in ZoneType
    BY ElementOfSeq
  <2>2. zones[i].kind \in LiquidityKinds /\ zones[i].level \in Nat
    BY <2>1 DEF ZoneType
  <2>3. QED
    BY <2>2, ClassifyReactionType
<1>3. ClassifyReactionsAtZones(zones, candles, price) = AsSeq(f)
  BY <1>1 DEF ClassifyReactionsAtZones, Recent, Side
<1>4. f \in [1 .. n -> R] /\ \A i \in 1 .. n : f[i] = At(i)
  BY <1>2
<1>5. Reactions = Seq(R)
  BY DEF Reactions
<1> HIDE DEF f, R
<1>6. AsSeq(f) = f /\ f \in Seq(R) /\ Len(f) = n
  BY <1>1, <1>4, AsSeqIs
<1>7. QED
  BY <1>3, <1>4, <1>5, <1>6

\* An invalidation is a price or nothing.
LEMMA LastPriceType ==
  ASSUME NEW swings \in Seq(LabeledType), NEW kind
  PROVE  LastPrice(swings, kind) \in Nat \cup {None}
<1> DEFINE S == {i \in DOMAIN swings : swings[i].kind = kind}
<1>1. DOMAIN swings = 1 .. Len(swings) /\ Len(swings) \in Nat
  BY LenProperties
<1>2. S \in SUBSET (1 .. Len(swings))
  BY <1>1
<1>3. LastPrice(swings, kind) = IF S = {} THEN None ELSE swings[Max(S)].price
  BY DEF LastPrice
<1> HIDE DEF S
<1>4. CASE S # {}
  <2>1. Max(S) \in 1 .. Len(swings)
    BY <1>1, <1>2, <1>4, BeforeIs
  <2>2. swings[Max(S)] \in LabeledType
    BY <2>1, ElementOfSeq
  <2>3. QED
    BY <1>3, <1>4, <2>2 DEF LabeledType
<1>5. QED
  BY <1>3, <1>4

\* What decide() makes of the analysis, with momentum to match.
Context == [Analysis EXCEPT !.momentum = "STRONG"]

\* The context made of the analysis meets what the lemmas on the frameworks ask of
\* a context.
LEMMA AnalysisIs ==
  ASSUME IInv, payload # << >>
  PROVE  /\ ContextOk(Context) /\ Context.ltp = LtpOf(payload)
         /\ \A i \in DOMAIN Context.reactions :
              LET r == Context.reactions[i]
              IN r.reaction = ClassifyReaction(Recent(Candles), r.level,
                                               Side(r.level, LtpOf(payload)))
<1> DEFINE swings == Swings
           zones == IdentifyLiquidityZones(Candles, swings)
           ltp == LtpOf(payload)
           reactions == ClassifyReactionsAtZones(zones, Candles, ltp)
           bias == TrendBias(swings)
           regime == ClassifyRegime(bias, None, None, NearestReaction(reactions, ltp))
           low == LastPrice(swings, "LOW")
           high == LastPrice(swings, "HIGH")
<1>1. Closed(Candles) \in Seq(CandleType)
  BY ViewsAre DEF View
<1>2. swings \in Seq(LabeledType)
  BY SwingsOfPayload
<1>3. ltp \in Nat
  BY CandlesOfPayload, LtpIs
<1>4. zones \in Seq(ZoneType)
  BY <1>1, <1>2, ZonesAre
<1>5. Context = [swings |-> swings, bias |-> bias, reactions |-> reactions, ltp |-> ltp,
                 invalidation_long |-> low, invalidation_short |-> high, regime |-> regime,
                 pullback |-> DerivePullback(swings, ltp), momentum |-> "STRONG", range |-> None]
  BY DEF Context, Analysis, AnalyzeStructure, Swings, SwingsOf
<1> HIDE DEF swings, ltp
<1>6. bias \in Biases
  BY DEF TrendBias, Biases
<1> HIDE DEF bias
<1>7. low \in Nat \cup {None} /\ high \in Nat \cup {None}
  BY <1>2, LastPriceType
<1> HIDE DEF zones
<1>8. /\ reactions \in Reactions /\ Len(reactions) = Len(zones)
      /\ \A i \in 1 .. Len(zones) :
           reactions[i] = [kind |-> zones[i].kind, level |-> zones[i].level,
                           reaction |-> ClassifyReaction(Recent(Candles), zones[i].level,
                                                         Side(zones[i].level, ltp))]
  BY <1>4, ReactionsAre
<1>9. DOMAIN reactions = 1 .. Len(zones)
  BY <1>8, LenProperties DEF Reactions
<1> HIDE DEF reactions, low, high
<1>10. regime \in Regimes /\ (regime = "TRENDING_UP" => bias = "BULLISH")
       /\ (regime = "TRENDING_DOWN" => bias = "BEARISH")
  BY <1>6, TrendAgreesWithBias
<1> HIDE DEF regime
<1>11. ContextOk(Context)
  BY <1>3, <1>5, <1>6, <1>7, <1>8, <1>10 DEF ContextOk
<1>12. Context.ltp = ltp /\ Context.reactions = reactions
  BY <1>5
<1>13. \A i \in DOMAIN reactions :
         reactions[i].reaction = ClassifyReaction(Recent(Candles), reactions[i].level,
                                                  Side(reactions[i].level, ltp))
  BY <1>8, <1>9
<1>14. QED
  BY <1>11, <1>12, <1>13 DEF ltp

-----------------------------------------------------------------------------
(*****************************************************************************)
(* Fades trade with the close.                                               *)
(*****************************************************************************)
Faded == {"SWEEP", "REJECTION", "FAILED_BREAK"}

\* A level that was swept, rejected or broken in vain is on the side of the last close.
LEMMA FadedIs ==
  ASSUME NEW cs \in Seq(CandleType), NEW level \in Nat, NEW ltp \in Nat,
         ClassifyReaction(cs, level, Side(level, ltp)) \in Faded
  PROVE  /\ cs # << >>
         /\ level < ltp => Last(cs).close >= level
         /\ level > ltp => Last(cs).close <= level
<1> DEFINE d == Side(level, ltp)
           above == d = "ABOVE"
           p == Last(cs).close
           Beyond(x) == IF above THEN x > level ELSE x < level
<1>1. cs # << >>
  BY DEF ClassifyReaction, Faded
<1>2. ~ Beyond(p)
  <2>1. CASE Beyond(p)
    <3>1. ClassifyReaction(cs, level, d) \in {"UNTESTED", "ACCEPTANCE", "CONTINUATION"}
      BY <2>1 DEF ClassifyReaction
    <3>2. QED
      BY <3>1 DEF Faded
  <2>2. QED
    BY <2>1
<1>3. p \in Nat
  <2>1. Len(cs) \in Nat \ {0}
    BY <1>1, LenProperties, EmptySeq
  <2>2. cs[Len(cs)] \in CandleType
    BY <2>1, ElementOfSeq
  <2>3. QED
    BY <2>2 DEF CandleType, Last
<1> HIDE DEF p
<1>4. level < ltp => p >= level
  BY <1>2, <1>3 DEF Side
<1>5. level > ltp => p <= level
  BY <1>2, <1>3 DEF Side
<1>6. QED
  BY <1>1, <1>4, <1>5 DEF p

\* A framework that fades a level took it from a reaction, away from it.
LEMMA LevelChosen ==
  ASSUME NEW ctx, ContextOk(ctx), NEW name, NEW regime, NEW kind, NEW zones,
         ByReaction(ctx, name, regime, kind, zones) # None
  PROVE  LET r == ByReaction(ctx, name, regime, kind, zones)
         IN /\ r.direction = DirectionIf(r.invalidation < ctx.ltp)
            /\ \E i \in DOMAIN ctx.reactions : /\ ctx.reactions[i].level = r.invalidation
                                               /\ ctx.reactions[i].reaction = kind
<1> DEFINE S == {i \in DOMAIN ctx.reactions : /\ ctx.reactions[i].reaction = kind
                                              /\ ctx.reactions[i].kind \in zones}
           k == NearestIn(ctx.reactions, ctx.ltp, S)
           level == ctx.reactions[k].level
<1>1. S # {} /\ ByReaction(ctx, name, regime, kind, zones) = Result(name, level < ctx.ltp, level, None)
  BY DEF ByReaction
<1>2. k \in S
  <2>1. ctx.reactions \in Reactions /\ ctx.ltp \in Nat /\ S \in SUBSET DOMAIN ctx.reactions
    BY DEF ContextOk
  <2>2. S # {}
    BY <1>1
  <2> HIDE DEF S
  <2>3. QED
    BY <2>1, <2>2, NearestIsIn
<1>3. k \in DOMAIN ctx.reactions /\ ctx.reactions[k].reaction = kind
  BY <1>2
<1> HIDE DEF S, k
<1>4. level # None
  BY <1>1 DEF Result
<1>5. Result(name, level < ctx.ltp, level, None)
        = [framework |-> name, direction |-> DirectionIf(level < ctx.ltp),
           invalidation |-> level, target |-> None]
  BY <1>4 DEF Result
<1>6. QED
  BY <1>1, <1>3, <1>5

Fading == LevelReactionFrameworks \ {"CONFIRMED_STRUCTURAL_BREAKOUT"}

\* The frameworks that fade a level, and what they fade.
LEMMA FadingResults ==
  ASSUME NEW ctx, ContextOk(ctx), NEW i \in 1 .. 8, EvaluateFrameworks(ctx)[i] # None,
         EvaluateFrameworks(ctx)[i].framework \in Fading
  PROVE  LET r == EvaluateFrameworks(ctx)[i]
         IN /\ r.direction = DirectionIf(r.invalidation < ctx.ltp)
            /\ \E k \in DOMAIN ctx.reactions : /\ ctx.reactions[k].level = r.invalidation
                                               /\ ctx.reactions[k].reaction \in Faded
<1> DEFINE r == EvaluateFrameworks(ctx)[i]
<1>1. r.framework = FrameworkOrder[i]
  BY FrameworksAreOk DEF FrameworkOk
<1>2. i \in {3, 4, 5, 8}
  <2>1. i = 1 \/ i = 2 \/ i = 6 \/ i = 7 \/ i \in {3, 4, 5, 8}
    OBVIOUS
  <2>2. FrameworkOrder[1] = "TREND_CONTINUATION" /\ FrameworkOrder[2] = "STRUCTURED_PULLBACK"
        /\ FrameworkOrder[6] = "CONFIRMED_STRUCTURAL_BREAKOUT"
        /\ FrameworkOrder[7] = "COMPRESSION_EXPANSION"
    BY DEF FrameworkOrder
  <2>3. QED
    BY <1>1, <2>1, <2>2 DEF Fading, LevelReactionFrameworks
<1>3. CASE i = 3
  <2>1. r = LiquiditySweepConfirmation(ctx)
    BY <1>3 DEF EvaluateFrameworks
  <2>2. QED
    BY <2>1, LevelChosen DEF LiquiditySweepConfirmation, Faded
<1>4. CASE i = 4
  <2>1. r = RangeBoundaryRejection(ctx)
    BY <1>4 DEF EvaluateFrameworks
  <2>2. QED
    BY <2>1, LevelChosen DEF RangeBoundaryRejection, Faded
<1>5. CASE i = 5
  <2>1. r = FailedBreakoutReversal(ctx)
    BY <1>5 DEF EvaluateFrameworks
  <2>2. QED
    BY <2>1, LevelChosen DEF FailedBreakoutReversal, Faded
<1>6. CASE i = 8
  <2>1. r = StructuralReversal(ctx)
    BY <1>6 DEF EvaluateFrameworks
  <2>2. QED
    BY <2>1, LevelChosen DEF StructuralReversal, Faded
<1>7. QED
  BY <1>2, <1>3, <1>4, <1>5, <1>6

\* A sweep, failed break or rejection is traded in the direction of the last close
\* (frameworks.py:157-195, 246-249), unless the level is at the very price.
THEOREM FadesFollowTheClose == Spec => []FadesTradeWithTheClose
<1>1. IInv => FadesTradeWithTheClose
  <2> SUFFICES ASSUME IInv, payload # << >>, NEW f \in Applicable,
                      f.framework \in Fading, f.invalidation # LtpOf(payload)
               PROVE  IF f.direction = "CALL" THEN LastClose >= f.invalidation
                                              ELSE LastClose <= f.invalidation
    BY DEF FadesTradeWithTheClose, Fading
  <2> DEFINE results == EvaluateFrameworks(Context)
             ltp == LtpOf(payload)
             level == f.invalidation
  <2>1. ContextOk(Context) /\ Context.ltp = ltp
        /\ \A i \in DOMAIN Context.reactions :
             Context.reactions[i].reaction
               = ClassifyReaction(Recent(Candles), Context.reactions[i].level,
                                  Side(Context.reactions[i].level, ltp))
    BY AnalysisIs
  <2>2. PICK i \in 1 .. 8 : f = results[i] /\ results[i] # None
    <3>1. DOMAIN results = 1 .. 8
      BY DEF EvaluateFrameworks
    <3>2. Applicable = {results[i] : i \in DOMAIN results} \ {None}
      BY DEF Applicable, Context
    <3>3. QED
      BY <3>1, <3>2
  <2>3. /\ f.direction = DirectionIf(level < ltp)
        /\ \E k \in DOMAIN Context.reactions : /\ Context.reactions[k].level = level
                                               /\ Context.reactions[k].reaction \in Faded
    BY <2>1, <2>2, FadingResults
  <2>4. PICK k \in DOMAIN Context.reactions : /\ Context.reactions[k].level = level
                                              /\ Context.reactions[k].reaction \in Faded
    BY <2>3
  <2>5. level \in Nat
    BY <2>1, <2>4, ReactionLevels DEF ContextOk
  <2>6. ltp \in Nat
    BY <2>1 DEF ContextOk
  <2>7. ClassifyReaction(Recent(Candles), level, Side(level, ltp)) \in Faded
    BY <2>1, <2>4
  <2>8. Closed(Candles) \in Seq(CandleType)
    BY ViewsAre DEF View
  <2>9. Recent(Candles) \in Seq(CandleType)
        /\ (Recent(Candles) # << >> => Last(Recent(Candles)) = Last(Closed(Candles)))
    BY <2>8, RecentIs
  <2> DEFINE recent == Recent(Candles)
  <2>10. /\ recent # << >> /\ (level < ltp => Last(recent).close >= level)
         /\ (level > ltp => Last(recent).close <= level)
    BY <2>5, <2>6, <2>7, <2>9, FadedIs
  <2>11. LastClose = Last(recent).close
    BY <2>9, <2>10 DEF LastClose
  <2>12. level < ltp \/ level > ltp
    BY <2>5, <2>6
  <2>13. f.direction = "CALL" <=> level < ltp
    BY <2>3 DEF DirectionIf
  <2> HIDE DEF level, ltp, recent
  <2>14. level < ltp => LastClose >= level
    BY <2>10, <2>11
  <2>15. level > ltp => LastClose <= level
    BY <2>10, <2>11
  <2>16. QED
    BY <2>5, <2>6, <2>12, <2>13, <2>14, <2>15 DEF level
<1>2. QED
  BY <1>1, FeedInvariant, PTL

-----------------------------------------------------------------------------
(*****************************************************************************)
(* The mirror image: bars, candles, swings, labels, bias, levels, reactions. *)
(*****************************************************************************)
\* Bars as they are sent: of one of the shapes.
ShapedBars == {Bar(t, s) : t \in Nat, s \in Shapes}

\* A bar of one of the shapes and its mirror image are bars with prices among the
\* levels.
LEMMA ShapedAre ==
  ASSUME Mirrorable, NEW b \in ShapedBars
  PROVE  /\ b \in BarType /\ MirrorBar(b) \in BarType
         /\ b.high \in Levels /\ b.low \in Levels
         /\ MirrorBar(b).start = b.start /\ MirrorBar(b).close = Mirror - b.close
<1>1. PICK t \in Nat, s \in Shapes : b = Bar(t, s)
  BY DEF ShapedBars
<1>2. s \in [open : Nat, high : Nat, low : Nat, close : Nat] /\ Mirror \in Nat
      /\ s.low <= s.open /\ s.open <= s.high /\ s.low <= s.close /\ s.close <= s.high
  BY FeedAssumption
<1>3. s.high <= Mirror
  BY DEF Mirrorable
<1>4. /\ b.start = t /\ b.open = s.open /\ b.high = s.high /\ b.low = s.low /\ b.close = s.close
  BY <1>1 DEF Bar
<1>5. b \in BarType
  BY <1>1, BarIsBar
<1>6. /\ Mirror - s.open \in Nat /\ Mirror - s.low \in Nat /\ Mirror - s.high \in Nat
      /\ Mirror - s.close \in Nat
  <2>1. s.open \in Nat /\ s.low \in Nat /\ s.high \in Nat /\ s.close \in Nat
    BY <1>2
  <2> DEFINE o == s.open
             h == s.high
             l == s.low
             c == s.close
  <2>2. o \in Nat /\ h \in Nat /\ l \in Nat /\ c \in Nat
        /\ o <= h /\ l <= o /\ c <= h /\ l <= c /\ h <= Mirror /\ Mirror \in Nat
    BY <1>2, <1>3, <2>1
  <2> HIDE DEF o, h, l, c
  <2>3. Mirror - o \in Nat /\ Mirror - l \in Nat /\ Mirror - h \in Nat /\ Mirror - c \in Nat
    BY <2>2
  <2>4. QED
    BY <2>3 DEF o, h, l, c
<1>7. MirrorBar(b) = [start |-> t, open |-> Mirror - s.open, high |-> Mirror - s.low,
                      low |-> Mirror - s.high, close |-> Mirror - s.close]
  BY <1>4 DEF MirrorBar
<1>8. MirrorBar(b) \in BarType
  BY <1>6, <1>7 DEF BarType
<1>9. s.high \in Levels /\ s.low \in Levels
  BY DEF Levels
<1>10. QED
  BY <1>4, <1>5, <1>7, <1>8, <1>9

Shaped == payload \in Seq(ShapedBars)

\* Every bar in the payload has one of the shapes.
THEOREM BarsKeepTheirShape == Spec => []Shaped
<1>1. Init => Shaped
  BY EmptySeq DEF Init, Shaped
<1>2. IInv /\ Shaped /\ [Next]_vars => Shaped'
  <2> SUFFICES ASSUME IInv, payload \in Seq(ShapedBars), [Next]_vars
               PROVE  payload' \in Seq(ShapedBars)
    BY DEF Shaped
  <2>1. /\ clock \in 0 .. Periods /\ payload \in Seq(BarType) /\ InSequence(payload)
        /\ \A i \in DOMAIN payload : payload[i].start <= clock
    BY DEF IInv
  <2>2. Periods \in Nat
    BY FeedAssumption
  <2>3. Cardinality(Starts) \in Nat /\ Starts = 0 .. Cardinality(Starts) - 1
    <3>1. Starts = StartsOf(payload) /\ clock \in Nat
      BY <2>1, <2>2 DEF Starts, StartsOf
    <3>2. QED
      BY <2>1, <3>1, StartsAre
  <2>4. ASSUME NEW t \in Nat, NEW s \in Shapes, payload' = Append(payload, Bar(t, s))
        PROVE  payload' \in Seq(ShapedBars)
    <3>1. Bar(t, s) \in ShapedBars
      BY DEF ShapedBars
    <3>2. QED
      BY <2>4, <3>1, AppendProperties
  <2>5. CASE \E shape \in Shapes : OpenBar(shape)
    BY <2>3, <2>4, <2>5 DEF OpenBar
  <2>6. CASE \E start \in Starts, shape \in Shapes : ResendBar(start, shape)
    <3>1. \A start \in Starts : start \in Nat
      BY <2>3
    <3>2. QED
      BY <2>4, <2>6, <3>1 DEF ResendBar
  <2>7. CASE PeriodEnds \/ Tick \/ DayOver \/ UNCHANGED vars
    <3>1. payload' = payload
      BY <2>7 DEF PeriodEnds, Tick, DayOver, vars
    <3>2. QED
      BY <3>1
  <2>8. QED
    BY <2>5, <2>6, <2>7 DEF Next
<1>3. QED
  BY <1>1, <1>2, FeedInvariant, PTL DEF Spec

MirrorBars(p) == AsSeq([i \in DOMAIN p |-> MirrorBar(p[i])])

\* Shaped bars are bars.
LEMMA ShapedSeq ==
  ASSUME Mirrorable, NEW p \in Seq(ShapedBars)
  PROVE  p \in Seq(BarType)
<1>1. \A i \in 1 .. Len(p) : p[i] \in BarType
  BY ElementOfSeq, ShapedAre
<1>2. Len(p) \in Nat /\ p \in [1 .. Len(p) -> ShapedBars]
  BY LenProperties
<1>3. p \in [1 .. Len(p) -> BarType]
  BY <1>1, <1>2
<1>4. QED
  BY <1>2, <1>3, SeqDef

\* The bars turned upside down have the starts of the bars.
LEMMA MirrorBarsAre ==
  ASSUME Mirrorable, NEW p \in Seq(ShapedBars)
  PROVE  /\ MirrorBars(p) \in Seq(BarType) /\ Len(MirrorBars(p)) = Len(p)
         /\ \A i \in 1 .. Len(p) : MirrorBars(p)[i] = MirrorBar(p[i])
         /\ StartsOf(MirrorBars(p)) = StartsOf(p)
         /\ \A t : LastSent(MirrorBars(p), t) = LastSent(p, t)
<1> DEFINE n == Len(p)
           f == [i \in 1 .. n |-> MirrorBar(p[i])]
<1>1. n \in Nat /\ DOMAIN p = 1 .. n
  BY LenProperties
<1>2. \A i \in 1 .. n : p[i] \in ShapedBars
  BY ElementOfSeq
<1>3. f \in [1 .. n -> BarType] /\ \A i \in 1 .. n : f[i] = MirrorBar(p[i])
  BY <1>2, ShapedAre
<1>4. MirrorBars(p) = AsSeq(f)
  BY <1>1 DEF MirrorBars
<1> HIDE DEF f
<1>5. AsSeq(f) = f /\ f \in Seq(BarType) /\ Len(f) = n /\ DOMAIN f = 1 .. n
  BY <1>1, <1>3, AsSeqIs
<1>6. \A i \in 1 .. n : f[i].start = p[i].start
  BY <1>2, <1>3, ShapedAre
<1>7. StartsOf(f) = StartsOf(p)
  BY <1>1, <1>5, <1>6 DEF StartsOf
<1>8. \A t : {i \in DOMAIN f : f[i].start = t} = {i \in DOMAIN p : p[i].start = t}
  BY <1>1, <1>5, <1>6
<1>9. \A t : LastSent(f, t) = LastSent(p, t)
  BY <1>8 DEF LastSent
<1>10. QED
  BY <1>3, <1>4, <1>5, <1>7, <1>9

MirrorCandle(c) ==
  [start |-> c.start, end |-> c.end, open |-> Mirror - c.open, high |-> Mirror - c.low,
   low |-> Mirror - c.high, close |-> Mirror - c.close, is_closed |-> c.is_closed]

\* The candles d are the candles c upside down.
Mirrored(c, d) ==
  /\ c \in Seq(CandleType) /\ d \in Seq(CandleType) /\ Len(d) = Len(c)
  /\ \A i \in 1 .. Len(c) : d[i] = MirrorCandle(c[i])

\* The closed candles of the turned bars are the closed candles turned.
LEMMA MirrorUnderlying ==
  ASSUME Mirrorable, NEW p \in Seq(ShapedBars), NEW n \in Nat, StartsOf(p) = 0 .. n - 1, NEW a \in Int
  PROVE  Mirrored(Closed(BuildUnderlying(p, a)), Closed(BuildUnderlying(MirrorBars(p), a)))
<1> DEFINE q == MirrorBars(p)
           c == BuildUnderlying(p, a)
           d == BuildUnderlying(q, a)
           m == Seen(n, a)
           e == Ended(n, a)
<1>1. p \in Seq(BarType)
  BY ShapedSeq
<1>2. /\ q \in Seq(BarType) /\ Len(q) = Len(p)
      /\ \A i \in 1 .. Len(p) : q[i] = MirrorBar(p[i])
      /\ StartsOf(q) = 0 .. n - 1
      /\ \A t : LastSent(q, t) = LastSent(p, t)
  BY MirrorBarsAre
<1> HIDE DEF q
<1>3. \A i \in 1 .. m : i - 1 \in StartsOf(p) /\ c[i] = BuildCandle(p[LastSent(p, i - 1)], a)
  BY <1>1, UnderlyingAt
<1>4. \A i \in 1 .. m : d[i] = BuildCandle(q[LastSent(q, i - 1)], a)
  BY <1>2, UnderlyingAt
<1>5. /\ Closed(c) \in Seq(CandleType) /\ Len(Closed(c)) = e /\ e <= m
      /\ \A i \in 1 .. e : Closed(c)[i] = c[i]
  BY <1>1, ClosedUnderlying
<1>6. /\ Closed(d) \in Seq(CandleType) /\ Len(Closed(d)) = e
      /\ \A i \in 1 .. e : Closed(d)[i] = d[i]
  BY <1>2, ClosedUnderlying
<1>7. m \in Nat /\ e \in Nat
  BY DEF Seen, Ended
<1> HIDE DEF c, d, m, e
<1>8. ASSUME NEW i \in 1 .. e
      PROVE  Closed(d)[i] = MirrorCandle(Closed(c)[i])
  <2>1. i \in 1 .. m
    BY <1>5, <1>7
  <2>2. LastSent(p, i - 1) \in 1 .. Len(p)
    BY <1>1, <1>3, <2>1, LastSentIs
  <2> DEFINE b == p[LastSent(p, i - 1)]
  <2>3. c[i] = BuildCandle(b, a) /\ d[i] = BuildCandle(MirrorBar(b), a)
    BY <1>2, <1>3, <1>4, <2>1, <2>2
  <2> HIDE DEF b
  <2>4. BuildCandle(MirrorBar(b), a) = MirrorCandle(BuildCandle(b, a))
    BY DEF BuildCandle, MirrorBar, MirrorCandle
  <2>5. QED
    BY <1>5, <1>6, <2>3, <2>4
<1>9. QED
  BY <1>5, <1>6, <1>8 DEF Mirrored, c, d, q

\* The newest price of the turned bars is the newest price turned.
LEMMA MirrorLtp ==
  ASSUME Mirrorable, NEW p \in Seq(ShapedBars), NEW n \in Nat, StartsOf(p) = 0 .. n - 1, p # << >>
  PROVE  /\ LtpOf(p) \in Nat /\ Mirror - LtpOf(p) \in Nat
         /\ LtpOf(MirrorBars(p)) = Mirror - LtpOf(p)
<1> DEFINE q == MirrorBars(p)
<1>1. p \in Seq(BarType) /\ Len(p) # 0
  BY ShapedSeq, LenProperties, EmptySeq
<1>2. /\ q \in Seq(BarType) /\ Len(q) = Len(p)
      /\ \A i \in 1 .. Len(p) : q[i] = MirrorBar(p[i])
      /\ StartsOf(q) = 0 .. n - 1
      /\ \A t : LastSent(q, t) = LastSent(p, t)
  BY MirrorBarsAre
<1>3. q # << >>
  BY <1>1, <1>2, EmptySeq
<1> HIDE DEF q
<1>4. n - 1 \in StartsOf(p) /\ LtpOf(p) = p[LastSent(p, n - 1)].close /\ LtpOf(p) \in Nat
  BY <1>1, LtpIs
<1>5. LtpOf(q) = q[LastSent(q, n - 1)].close /\ LtpOf(q) \in Nat
  BY <1>2, <1>3, LtpIs
<1>6. LastSent(p, n - 1) \in 1 .. Len(p)
  BY <1>1, <1>4, LastSentIs
<1>7. p[LastSent(p, n - 1)] \in ShapedBars
  BY <1>6, ElementOfSeq
<1>8. MirrorBar(p[LastSent(p, n - 1)]).close = Mirror - p[LastSent(p, n - 1)].close
  BY <1>7, ShapedAre
<1>9. LtpOf(q) = Mirror - LtpOf(p)
  BY <1>2, <1>4, <1>5, <1>6, <1>8
<1>10. QED
  BY <1>4, <1>5, <1>9 DEF q

\* A turned candle has the high where the low was.
LEMMA MirrorCandleIs ==
  ASSUME NEW c, NEW d, Mirrored(c, d), NEW i \in 1 .. Len(c)
  PROVE  /\ c[i] \in CandleType /\ d[i] \in CandleType /\ i \in 1 .. Len(d)
         /\ c[i].high \in Nat /\ c[i].low \in Nat /\ c[i].close \in Nat
         /\ d[i].high \in Nat /\ d[i].low \in Nat /\ d[i].close \in Nat
         /\ d[i].high = Mirror - c[i].low /\ d[i].low = Mirror - c[i].high
         /\ d[i].close = Mirror - c[i].close /\ d[i].start = c[i].start /\ d[i].end = c[i].end
<1>1. /\ c \in Seq(CandleType) /\ d \in Seq(CandleType) /\ Len(d) = Len(c)
      /\ d[i] = MirrorCandle(c[i])
  BY DEF Mirrored
<1>2. c[i] \in CandleType /\ d[i] \in CandleType /\ i \in 1 .. Len(d)
  BY <1>1, ElementOfSeq
<1>3. /\ c[i].high \in Nat /\ c[i].low \in Nat /\ c[i].close \in Nat
      /\ d[i].high \in Nat /\ d[i].low \in Nat /\ d[i].close \in Nat
  BY <1>2 DEF CandleType
<1>4. /\ d[i].high = Mirror - c[i].low /\ d[i].low = Mirror - c[i].high
      /\ d[i].close = Mirror - c[i].close /\ d[i].start = c[i].start /\ d[i].end = c[i].end
  BY <1>1 DEF MirrorCandle
<1>5. QED
  BY <1>2, <1>3, <1>4

\* And so have the extremes of turned candles.
LEMMA MirrorExtremes ==
  ASSUME NEW c, NEW d, Mirrored(c, d), c # << >>
  PROVE  /\ d # << >>
         /\ Max(Highs(d)) \in Nat /\ Min(Lows(d)) \in Nat
         /\ Max(Highs(c)) \in Nat /\ Min(Lows(c)) \in Nat
         /\ Max(Highs(d)) = Mirror - Min(Lows(c))
         /\ Min(Lows(d)) = Mirror - Max(Highs(c))
<1> DEFINE hc == Max(Highs(c))
           lc == Min(Lows(c))
           hd == Max(Highs(d))
           ld == Min(Lows(d))
           n == Len(c)
<1>1. c \in Seq(CandleType) /\ d \in Seq(CandleType) /\ Len(d) = n
  BY DEF Mirrored
<1>2. d # << >>
  BY <1>1, EmptySeq
<1>3. /\ hc \in Nat /\ \A i \in 1 .. n : c[i].high <= hc
      /\ \E i \in 1 .. n : c[i].high = hc
  BY <1>1, HighsAre
<1>4. /\ lc \in Nat /\ \A i \in 1 .. n : lc <= c[i].low
      /\ \E i \in 1 .. n : c[i].low = lc
  BY <1>1, LowsAre
<1>5. /\ hd \in Nat /\ \A i \in 1 .. n : d[i].high <= hd
      /\ \E i \in 1 .. n : d[i].high = hd
  BY <1>1, <1>2, HighsAre
<1>6. /\ ld \in Nat /\ \A i \in 1 .. n : ld <= d[i].low
      /\ \E i \in 1 .. n : d[i].low = ld
  BY <1>1, <1>2, LowsAre
<1>7. \A i \in 1 .. n :
        /\ c[i].high \in Nat /\ c[i].low \in Nat /\ d[i].high \in Nat /\ d[i].low \in Nat
        /\ d[i].high = Mirror - c[i].low /\ d[i].low = Mirror - c[i].high
  BY MirrorCandleIs
<1>8. Mirror \in Nat
  BY FeedAssumption
<1> HIDE DEF hc, lc, hd, ld, n
<1>9. hd = Mirror - lc
  <2>1. PICK i \in 1 .. n : d[i].high = hd
    BY <1>5
  <2>2. PICK j \in 1 .. n : c[j].low = lc
    BY <1>4
  <2>3. hd = Mirror - c[i].low /\ lc <= c[i].low /\ c[i].low \in Nat
    BY <1>4, <1>7, <2>1
  <2>4. d[j].high = Mirror - lc /\ d[j].high <= hd
    BY <1>5, <1>7, <2>2
  <2>5. QED
    BY <1>4, <1>5, <1>8, <2>3, <2>4
<1>10. ld = Mirror - hc
  <2>1. PICK i \in 1 .. n : d[i].low = ld
    BY <1>6
  <2>2. PICK j \in 1 .. n : c[j].high = hc
    BY <1>3
  <2>3. ld = Mirror - c[i].high /\ c[i].high <= hc /\ c[i].high \in Nat
    BY <1>3, <1>7, <2>1
  <2>4. d[j].low = Mirror - hc /\ ld <= d[j].low
    BY <1>6, <1>7, <2>2
  <2>5. QED
    BY <1>3, <1>6, <1>8, <2>3, <2>4
<1>11. QED
  BY <1>2, <1>3, <1>4, <1>5, <1>6, <1>9, <1>10 DEF hc, lc, hd, ld

\* A part of the turned candles is the part turned.
LEMMA MirrorPart ==
  ASSUME NEW c, NEW d, Mirrored(c, d), NEW a \in Int, NEW b \in Int, 1 <= a, b <= Len(c)
  PROVE  /\ Mirrored(SubSeq(c, a, b), SubSeq(d, a, b))
         /\ Len(SubSeq(c, a, b)) = IF a <= b THEN b - a + 1 ELSE 0
<1> DEFINE x == SubSeq(c, a, b)
           y == SubSeq(d, a, b)
<1>1. /\ c \in Seq(CandleType) /\ d \in Seq(CandleType) /\ Len(d) = Len(c) /\ Len(c) \in Nat
      /\ \A i \in 1 .. Len(c) : d[i] = MirrorCandle(c[i])
  BY LenProperties DEF Mirrored
<1>2. \A i \in a .. b : i \in 1 .. Len(c) /\ c[i] \in CandleType /\ d[i] \in CandleType
  BY <1>1, ElementOfSeq
<1>3. /\ x \in Seq(CandleType) /\ Len(x) = (IF a <= b THEN b - a + 1 ELSE 0)
      /\ \A i \in 1 .. b - a + 1 : x[i] = c[a + i - 1]
  BY <1>2, SubSeqProperties
<1>4. /\ y \in Seq(CandleType) /\ Len(y) = (IF a <= b THEN b - a + 1 ELSE 0)
      /\ \A i \in 1 .. b - a + 1 : y[i] = d[a + i - 1]
  BY <1>2, SubSeqProperties
<1> HIDE DEF x, y
<1>5. \A i \in 1 .. Len(x) : i \in 1 .. b - a + 1 /\ a + i - 1 \in a .. b
  BY <1>3
<1>6. \A i \in 1 .. Len(x) : y[i] = MirrorCandle(x[i])
  BY <1>1, <1>2, <1>3, <1>4, <1>5
<1>7. QED
  BY <1>3, <1>4, <1>6 DEF Mirrored, x, y

FlipKind(k) == IF k = "HIGH" THEN "LOW" ELSE "HIGH"

FlipSwing(w) == [kind |-> FlipKind(w.kind), index |-> w.index, price |-> Mirror - w.price]

\* The other slot of the same candle.
Flip(s) == IF s % 2 = 1 THEN s + 1 ELSE s - 1

\* Flipping a slot stays within its candle.
LEMMA FlipIs ==
  ASSUME NEW n \in Nat, NEW s \in 1 .. 2 * n
  PROVE  /\ Flip(s) \in 1 .. 2 * n /\ Flip(Flip(s)) = s
         /\ (Flip(s) + 1) \div 2 = (s + 1) \div 2
         /\ Flip(s) % 2 = 1 <=> s % 2 # 1
BY DEF Flip

\* The turned candle offers the turned swing in the other slot.
LEMMA FlipCandidate ==
  ASSUME NEW c, NEW d, Mirrored(c, d), NEW s \in 1 .. 2 * Len(c)
  PROVE  Candidate(d, Flip(s)) = FlipSwing(Candidate(c, s))
<1> DEFINE i == (s + 1) \div 2
           t == Flip(s)
<1>1. c \in Seq(CandleType)
  BY DEF Mirrored
<1>2. i \in 1 .. Len(c)
  BY <1>1, CandidatesAre
<1>3. Len(c) \in Nat
  BY <1>1, LenProperties
<1>4. (t + 1) \div 2 = i /\ (t % 2 = 1 <=> s % 2 # 1)
  BY <1>3, FlipIs
<1>5. Candidate(c, s) = IF s % 2 = 1 THEN [kind |-> "HIGH", index |-> i, price |-> c[i].high]
                        ELSE [kind |-> "LOW", index |-> i, price |-> c[i].low]
  BY DEF Candidate
<1>6. Candidate(d, t) = IF t % 2 = 1 THEN [kind |-> "HIGH", index |-> i, price |-> d[i].high]
                        ELSE [kind |-> "LOW", index |-> i, price |-> d[i].low]
  BY <1>4 DEF Candidate
<1>7. d[i].high = Mirror - c[i].low /\ d[i].low = Mirror - c[i].high
  BY <1>2, MirrorCandleIs
<1> HIDE DEF i, t
<1>8. CASE s % 2 = 1
  <2>1. Candidate(c, s) = [kind |-> "HIGH", index |-> i, price |-> c[i].high]
    BY <1>5, <1>8
  <2>2. Candidate(d, t) = [kind |-> "LOW", index |-> i, price |-> d[i].low]
    BY <1>4, <1>6, <1>8
  <2>3. FlipSwing(Candidate(c, s)) = [kind |-> "LOW", index |-> i, price |-> Mirror - c[i].high]
    BY <2>1 DEF FlipSwing, FlipKind
  <2>4. QED
    BY <1>7, <2>2, <2>3 DEF t
<1>9. CASE s % 2 # 1
  <2>1. Candidate(c, s) = [kind |-> "LOW", index |-> i, price |-> c[i].low]
    BY <1>5, <1>9
  <2>2. Candidate(d, t) = [kind |-> "HIGH", index |-> i, price |-> d[i].high]
    BY <1>4, <1>6, <1>9
  <2>3. FlipSwing(Candidate(c, s)) = [kind |-> "HIGH", index |-> i, price |-> Mirror - c[i].low]
    BY <2>1 DEF FlipSwing, FlipKind
  <2>4. QED
    BY <1>7, <2>2, <2>3 DEF t
<1>10. QED
  BY <1>8, <1>9 DEF t

\* A swing is the extreme of a window when the turned one is of the turned window.
LEMMA FlipExtreme ==
  ASSUME NEW c, NEW d, Mirrored(c, d), c # << >>, NEW w \in SwingType
  PROVE  IsExtreme(FlipSwing(w), d) <=> IsExtreme(w, c)
<1> DEFINE hc == Max(Highs(c))
           lc == Min(Lows(c))
           hd == Max(Highs(d))
           ld == Min(Lows(d))
<1>1. /\ hd \in Nat /\ ld \in Nat /\ hc \in Nat /\ lc \in Nat
      /\ hd = Mirror - lc /\ ld = Mirror - hc
  BY MirrorExtremes
<1>2. Mirror \in Nat
  BY FeedAssumption
<1>3. w.kind \in {"HIGH", "LOW"} /\ w.price \in Nat
  BY DEF SwingType
<1>4. /\ FlipSwing(w).kind = FlipKind(w.kind) /\ FlipSwing(w).price = Mirror - w.price
  BY DEF FlipSwing
<1>5. IsExtreme(w, c) <=> w.price = IF w.kind = "HIGH" THEN hc ELSE lc
  BY DEF IsExtreme
<1>6. IsExtreme(FlipSwing(w), d) <=> Mirror - w.price = IF FlipKind(w.kind) = "HIGH" THEN hd ELSE ld
  BY <1>4 DEF IsExtreme
<1> HIDE DEF hc, lc, hd, ld
<1>7. CASE w.kind = "HIGH"
  BY <1>1, <1>2, <1>3, <1>5, <1>6, <1>7 DEF FlipKind
<1>8. CASE w.kind = "LOW"
  BY <1>1, <1>2, <1>3, <1>5, <1>6, <1>8 DEF FlipKind
<1>9. QED
  BY <1>3, <1>7, <1>8

\* So the confirmed swings of the turned candles are in the flipped slots.
LEMMA FlipSlots ==
  ASSUME NEW c, NEW d, Mirrored(c, d), NEW a, NEW s \in 1 .. 2 * Len(c)
  PROVE  Flip(s) \in SwingSlots(d, a) <=> s \in SwingSlots(c, a)
<1> DEFINE i == (s + 1) \div 2
           t == Flip(s)
           L == Lookback
           u == SubSeq(c, i - L, i + L)
           v == SubSeq(d, i - L, i + L)
<1>1. c \in Seq(CandleType) /\ Len(d) = Len(c) /\ Len(c) \in Nat
  BY LenProperties DEF Mirrored
<1>2. i \in 1 .. Len(c) /\ Candidate(c, s) \in SwingType
  BY <1>1, CandidatesAre
<1>3. (t + 1) \div 2 = i /\ t \in 1 .. 2 * Len(d)
  BY <1>1, FlipIs
<1>4. Candidate(d, t) = FlipSwing(Candidate(c, s))
  BY FlipCandidate
<1>5. L \in Nat \ {0}
  BY StructureAssumption
<1>6. s \in SwingSlots(c, a) <=>
        /\ i > L /\ i + L <= Len(c) /\ c[i + L].end <= a /\ IsExtreme(Candidate(c, s), u)
  BY DEF SwingSlots
<1>7. t \in SwingSlots(d, a) <=>
        /\ i > L /\ i + L <= Len(d) /\ d[i + L].end <= a /\ IsExtreme(Candidate(d, t), v)
  BY <1>3 DEF SwingSlots
<1> HIDE DEF i, L, t, u, v
<1>8. ASSUME i > L, i + L <= Len(c)
      PROVE  /\ d[i + L].end = c[i + L].end
             /\ IsExtreme(FlipSwing(Candidate(c, s)), v) <=> IsExtreme(Candidate(c, s), u)
  <2>1. i + L \in 1 .. Len(c) /\ i - L \in Int /\ i + L \in Int /\ 1 <= i - L /\ i - L <= i + L
        /\ (i + L) - (i - L) + 1 > 0
    BY <1>2, <1>5, <1>8
  <2>2. d[i + L].end = c[i + L].end
    BY <2>1, MirrorCandleIs
  <2>3. Mirrored(u, v) /\ Len(u) = (i + L) - (i - L) + 1
    BY <1>8, <2>1, MirrorPart DEF u, v
  <2>4. u # << >>
    BY <2>1, <2>3, EmptySeq
  <2>5. QED
    BY <1>2, <2>2, <2>3, <2>4, FlipExtreme
<1>9. QED
  BY <1>1, <1>4, <1>6, <1>7, <1>8 DEF t

\* What is flipped is counted as before.
LEMMA FlipCount ==
  ASSUME NEW n \in Nat, NEW A \in SUBSET (1 .. 2 * n), NEW B,
         \A t : t \in B <=> \E s \in A : t = Flip(s)
  PROVE  IsFiniteSet(B) /\ Cardinality(B) = Cardinality(A) /\ B \in SUBSET (1 .. 2 * n)
<1> DEFINE f == [s \in A |-> Flip(s)]
<1>1. \A s \in A : Flip(s) \in 1 .. 2 * n /\ Flip(Flip(s)) = s
  BY FlipIs
<1>2. IsFiniteSet(A)
  <2>1. 1 \in Int /\ 2 * n \in Int
    OBVIOUS
  <2>2. IsFiniteSet(1 .. 2 * n)
    BY <2>1, FS_Interval
  <2>3. QED
    BY <2>2, FS_Subset
<1>3. f \in [A -> B] /\ \A s \in A : f[s] = Flip(s)
  OBVIOUS
<1> HIDE DEF f
<1>4. f \in Injection(A, B)
  BY <1>1, <1>3 DEF Injection, IsInjective
<1>5. f \in Surjection(A, B)
  BY <1>3 DEF Surjection
<1>6. ExistsBijection(A, B)
  BY <1>4, <1>5 DEF ExistsBijection, Bijection
<1>7. IsFiniteSet(B) /\ Cardinality(B) = Cardinality(A)
  BY <1>2, <1>6, FS_Bijection
<1>8. QED
  BY <1>1, <1>7

\* No bar has both slots.
OneEach(I) == \A s, t \in I : (s + 1) \div 2 = (t + 1) \div 2 => s = t

\* Flipped slots are in the order of the slots, when no bar has both.
LEMMA FlipOrder ==
  ASSUME NEW n \in Nat, NEW I \in SUBSET (1 .. 2 * n), OneEach(I), NEW J \in SUBSET (1 .. 2 * n),
         \A s \in 1 .. 2 * n : Flip(s) \in J <=> s \in I
  PROVE  /\ Cardinality(J) = Cardinality(I)
         /\ \A k \in 1 .. Cardinality(I) : InOrder(J)[k] = Flip(InOrder(I)[k])
<1>1. \A s \in 1 .. 2 * n : /\ Flip(s) \in 1 .. 2 * n /\ Flip(Flip(s)) = s
                           /\ (Flip(s) + 1) \div 2 = (s + 1) \div 2
  BY FlipIs
<1>2. \A t : t \in J <=> \E s \in I : t = Flip(s)
  BY <1>1
<1>3. IsFiniteSet(J) /\ Cardinality(J) = Cardinality(I)
  BY <1>2, FlipCount
<1>4. IsFiniteSet(I) /\ Cardinality(I) \in Nat
  <2>1. \A t : t \in I <=> \E s \in J : t = Flip(s)
    BY <1>1
  <2>2. QED
    BY <2>1, FlipCount, FS_CardinalityType
<1>5. ASSUME NEW s \in I, NEW t \in I
      PROVE  Flip(s) < Flip(t) <=> s < t
  <2>1. s \in Int /\ t \in Int /\ Flip(s) \in Int /\ Flip(t) \in Int
    BY <1>1
  <2> DEFINE i == (s + 1) \div 2
             j == (t + 1) \div 2
             u == Flip(s)
             v == Flip(t)
  <2>2. (u + 1) \div 2 = i /\ (v + 1) \div 2 = j /\ (i = j => s = t)
    BY <1>1 DEF OneEach
  <2> HIDE DEF u, v
  <2>3. i < j => s < t /\ u < v
    BY <2>1, <2>2 DEF u, v
  <2>4. j < i => t < s /\ v < u
    BY <2>1, <2>2 DEF u, v
  <2>5. i \in Int /\ j \in Int
    BY <2>1
  <2> HIDE DEF i, j
  <2>6. i < j \/ j < i \/ i = j
    BY <2>5
  <2>7. i = j => s = t /\ u = v
    BY <2>2 DEF u, v
  <2>8. u \in Int /\ v \in Int
    BY <2>1 DEF u, v
  <2>9. u < v <=> s < t
    BY <2>1, <2>3, <2>4, <2>6, <2>7, <2>8
  <2>10. QED
    BY <2>9 DEF u, v
<1>6. ASSUME NEW s \in I
      PROVE  Rank(J, Flip(s)) = Rank(I, s)
  <2> DEFINE A == {u \in I : u < s}
             B == {u \in J : u < Flip(s)}
  <2>1. A \in SUBSET (1 .. 2 * n)
    OBVIOUS
  <2>2. \A t : t \in B <=> \E u \in A : t = Flip(u)
    BY <1>2, <1>5
  <2>3. Rank(J, Flip(s)) = Cardinality(B) /\ Rank(I, s) = Cardinality(A)
    BY DEF Rank
  <2> HIDE DEF A, B
  <2>4. QED
    BY <2>1, <2>2, <2>3, FlipCount
<1>7. I \subseteq Int /\ J \subseteq Int
  OBVIOUS
<1>8. ASSUME NEW k \in 1 .. Cardinality(I)
      PROVE  InOrder(J)[k] = Flip(InOrder(I)[k])
  <2> DEFINE s == InOrder(I)[k]
  <2>1. s \in I /\ Rank(I, s) = k - 1
    BY <1>4, <1>7, InOrderIs
  <2> HIDE DEF s
  <2>2. Flip(s) \in J /\ Rank(J, Flip(s)) = k - 1
    BY <1>2, <1>6, <2>1
  <2>3. InOrder(J)[k] = Flip(s)
    BY <1>3, <1>7, <2>2, InOrderRank
  <2>4. QED
    BY <2>3 DEF s
<1>9. QED
  BY <1>3, <1>8

\* The swings t are the swings s upside down.
Flipped(s, t) ==
  /\ s \in Seq(SwingType) /\ t \in Seq(SwingType) /\ Len(t) = Len(s)
  /\ \A i \in 1 .. Len(s) : t[i] = FlipSwing(s[i])

\* When no bar is a swing of both kinds, find_swings of the turned candles gives
\* the turned swings, in the same order.
LEMMA FlippedSwings ==
  ASSUME NEW x, NEW y, Mirrored(Closed(x), Closed(y)), NEW a,
         \A i, j \in 1 .. Len(FindSwings(x, a)) :
           i < j => FindSwings(x, a)[i].index # FindSwings(x, a)[j].index
  PROVE  Flipped(FindSwings(x, a), FindSwings(y, a))
<1> DEFINE c == Closed(x)
           d == Closed(y)
           I == SwingSlots(c, a)
           J == SwingSlots(d, a)
           s == FindSwings(x, a)
           t == FindSwings(y, a)
           n == Len(c)
<1>1. c \in Seq(CandleType) /\ d \in Seq(CandleType) /\ Len(d) = n /\ Mirrored(c, d)
  BY DEF Mirrored
<1>2. n \in Nat
  BY <1>1, LenProperties
<1>3. s = Picked(Candidates(c), I) /\ t = Picked(Candidates(d), J)
  BY <1>1, SwingsArePicked
<1>4. s \in Seq(SwingType) /\ t \in Seq(SwingType)
  BY <1>1, SwingsType
<1>5. I \in SUBSET (1 .. 2 * n) /\ J \in SUBSET (1 .. 2 * n)
  BY <1>1 DEF SwingSlots
<1>6. \A i, j \in 1 .. Len(s) : i < j => s[i].index # s[j].index
  OBVIOUS
<1>7. \A u \in 1 .. 2 * n : Flip(u) \in J <=> u \in I
  BY <1>1, FlipSlots
<1> HIDE DEF c, d, I, J, s, t, n
<1>8. /\ Candidates(c) \in Seq(SwingType) /\ Len(Candidates(c)) = 2 * n
      /\ Candidates(d) \in Seq(SwingType) /\ Len(Candidates(d)) = 2 * n
      /\ \A u \in 1 .. 2 * n : /\ Candidates(c)[u] = Candidate(c, u)
                               /\ Candidate(c, u).index = (u + 1) \div 2
                               /\ Candidates(d)[u] = Candidate(d, u)
  BY <1>1, CandidatesAre DEF n
<1>9. /\ IsFiniteSet(I) /\ I \subseteq Int /\ Cardinality(I) \in Nat /\ Len(s) = Cardinality(I)
      /\ \A k \in 1 .. Cardinality(I) : InOrder(I)[k] \in I /\ s[k] = Candidates(c)[InOrder(I)[k]]
  BY <1>3, <1>5, <1>8, PickedIs
<1>10. /\ Len(t) = Cardinality(J)
       /\ \A k \in 1 .. Cardinality(J) : InOrder(J)[k] \in J /\ t[k] = Candidates(d)[InOrder(J)[k]]
  BY <1>3, <1>5, <1>8, PickedIs
<1>11. OneEach(I)
  <2> SUFFICES ASSUME NEW u \in I, NEW v \in I, (u + 1) \div 2 = (v + 1) \div 2, u # v
               PROVE  FALSE
    BY DEF OneEach
  <2>1. PICK i \in 1 .. Cardinality(I) : InOrder(I)[i] = u
    BY <1>9, InOrderOnto
  <2>2. PICK j \in 1 .. Cardinality(I) : InOrder(I)[j] = v
    BY <1>9, InOrderOnto
  <2>3. s[i].index = (u + 1) \div 2 /\ s[j].index = (v + 1) \div 2
    BY <1>5, <1>8, <1>9, <2>1, <2>2, ZenonT(60)
  <2>4. i # j /\ i \in Int /\ j \in Int
    BY <2>1, <2>2
  <2>5. i < j \/ j < i
    BY <2>4
  <2>6. QED
    BY <1>6, <1>9, <2>3, <2>5, SMTT(60)
<1>12. /\ Cardinality(J) = Cardinality(I)
       /\ \A k \in 1 .. Cardinality(I) : InOrder(J)[k] = Flip(InOrder(I)[k])
  BY <1>2, <1>5, <1>7, <1>11, FlipOrder
<1>13. \A u \in 1 .. 2 * n : Candidate(d, Flip(u)) = FlipSwing(Candidate(c, u))
  BY <1>1, FlipCandidate DEF n
<1>14. ASSUME NEW k \in 1 .. Len(s)
       PROVE  t[k] = FlipSwing(s[k])
  <2> DEFINE u == InOrder(I)[k]
  <2>1. k \in 1 .. Cardinality(I) /\ u \in 1 .. 2 * n /\ s[k] = Candidate(c, u)
    BY <1>5, <1>8, <1>9
  <2>2. InOrder(J)[k] = Flip(u) /\ Flip(u) \in 1 .. 2 * n /\ t[k] = Candidates(d)[Flip(u)]
    BY <1>5, <1>10, <1>12, <2>1
  <2>3. t[k] = Candidate(d, Flip(u))
    BY <1>8, <2>2
  <2>4. QED
    BY <1>13, <2>1, <2>3
<1>15. QED
  BY <1>4, <1>9, <1>10, <1>12, <1>14 DEF Flipped, s, t

FlipLabel(l) ==
  IF l = "HH" THEN "LL" ELSE IF l = "LL" THEN "HH"
  ELSE IF l = "LH" THEN "HL" ELSE IF l = "HL" THEN "LH" ELSE l

FlipLabeled(w) ==
  [kind |-> FlipKind(w.kind), index |-> w.index, price |-> Mirror - w.price,
   label |-> FlipLabel(w.label)]

\* The labelled swings t are the labelled swings s upside down.
FlippedLabels(s, t) ==
  /\ s \in Seq(LabeledType) /\ t \in Seq(LabeledType) /\ Len(t) = Len(s)
  /\ \A i \in 1 .. Len(s) : t[i] = FlipLabeled(s[i])

\* The parts of a turned swing.
LEMMA FlipSwingIs ==
  ASSUME NEW s, NEW t, Flipped(s, t), NEW i \in 1 .. Len(s)
  PROVE  /\ i \in 1 .. Len(t) /\ s[i].kind \in {"HIGH", "LOW"} /\ t[i].kind = FlipKind(s[i].kind)
         /\ s[i].price \in Nat /\ t[i].price \in Nat /\ t[i].price = Mirror - s[i].price
         /\ t[i].index = s[i].index
<1>1. /\ s \in Seq(SwingType) /\ t \in Seq(SwingType) /\ Len(t) = Len(s)
      /\ t[i] = FlipSwing(s[i])
  BY DEF Flipped
<1>2. s[i] \in SwingType /\ t[i] \in SwingType
  BY <1>1, ElementOfSeq
<1>3. s[i].kind \in {"HIGH", "LOW"} /\ s[i].price \in Nat /\ t[i].price \in Nat
  BY <1>2 DEF SwingType
<1>4. /\ t[i].kind = FlipKind(s[i].kind) /\ t[i].price = Mirror - s[i].price
      /\ t[i].index = s[i].index
  BY <1>1 DEF FlipSwing
<1>5. QED
  BY <1>1, <1>3, <1>4

\* Turned kinds are equal when the kinds are.
LEMMA FlipSame ==
  ASSUME NEW k \in {"HIGH", "LOW"}, NEW l \in {"HIGH", "LOW"}
  PROVE  /\ FlipKind(k) = FlipKind(l) <=> k = l
         /\ FlipKind(k) \in {"HIGH", "LOW"} /\ FlipKind(FlipKind(k)) = k
         /\ FlipKind("HIGH") = "LOW" /\ FlipKind("LOW") = "HIGH"
BY DEF FlipKind

\* A swing that does not repeat the price of an earlier one of its kind gets the
\* opposite label (swings.py:71-80).
LEMMA LabelFlips ==
  ASSUME NEW s, NEW t, Flipped(s, t), NEW i \in 1 .. Len(s),
         \A j \in 1 .. (i - 1) : s[j].kind = s[i].kind => s[j].price # s[i].price
  PROVE  Label(t, i) = FlipLabel(Label(s, i))
<1> DEFINE B == {j \in 1 .. (i - 1) : s[j].kind = s[i].kind}
           C == {j \in 1 .. (i - 1) : t[j].kind = t[i].kind}
<1>1. Len(s) \in Nat
  BY LenProperties DEF Flipped
<1>2. \A j \in 1 .. (i - 1) : j \in 1 .. Len(s)
  BY <1>1
<1>3. B = C
  <2>1. ASSUME NEW j \in 1 .. (i - 1)
        PROVE  s[j].kind = s[i].kind <=> t[j].kind = t[i].kind
    <3>1. /\ s[i].kind \in {"HIGH", "LOW"} /\ t[i].kind = FlipKind(s[i].kind)
      BY FlipSwingIs
    <3>2. /\ s[j].kind \in {"HIGH", "LOW"} /\ t[j].kind = FlipKind(s[j].kind)
      BY <1>2, FlipSwingIs
    <3>3. QED
      BY <3>1, <3>2, FlipSame
  <2>2. QED
    BY <2>1
<1>4. Label(s, i) = IF B = {} THEN None
                    ELSE IF s[i].kind = "HIGH"
                         THEN IF s[i].price > s[Max(B)].price THEN "HH" ELSE "LH"
                         ELSE IF s[i].price > s[Max(B)].price THEN "HL" ELSE "LL"
  BY DEF Label
<1>5. Label(t, i) = IF B = {} THEN None
                    ELSE IF t[i].kind = "HIGH"
                         THEN IF t[i].price > t[Max(B)].price THEN "HH" ELSE "LH"
                         ELSE IF t[i].price > t[Max(B)].price THEN "HL" ELSE "LL"
  BY <1>3 DEF Label
<1>6. \A j \in B : j \in 1 .. (i - 1) /\ s[j].kind = s[i].kind
  OBVIOUS
<1>7. B \in SUBSET (1 .. (i - 1)) /\ i - 1 \in Nat
  BY <1>1
<1> HIDE DEF B, C
<1>8. CASE B = {}
  <2>1. Label(s, i) = None /\ Label(t, i) = None
    BY <1>4, <1>5, <1>8
  <2>2. FlipLabel(None) = None
    BY LabelAssumption DEF FlipLabel, SwingLabels
  <2>3. QED
    BY <2>1, <2>2
<1>9. CASE B # {}
  <2> DEFINE m == Max(B)
             p == s[i].price
             q == s[m].price
             u == t[i].price
             v == t[m].price
  <2>1. m \in B /\ m \in 1 .. (i - 1)
    BY <1>7, <1>9, BeforeIs
  <2>2. m \in 1 .. Len(s) /\ p # q
    BY <1>2, <1>6, <2>1
  <2>3. /\ p \in Nat /\ u \in Nat /\ u = Mirror - p
        /\ s[i].kind \in {"HIGH", "LOW"} /\ t[i].kind = FlipKind(s[i].kind)
    BY FlipSwingIs
  <2>4. q \in Nat /\ v \in Nat /\ v = Mirror - q
    BY <2>2, FlipSwingIs
  <2>5. Mirror \in Nat
    BY FeedAssumption
  <2>6. Label(s, i) = IF s[i].kind = "HIGH" THEN IF p > q THEN "HH" ELSE "LH"
                      ELSE IF p > q THEN "HL" ELSE "LL"
    BY <1>4, <1>9
  <2>7. Label(t, i) = IF t[i].kind = "HIGH" THEN IF u > v THEN "HH" ELSE "LH"
                      ELSE IF u > v THEN "HL" ELSE "LL"
    BY <1>5, <1>9
  <2> HIDE DEF p, q, u, v, m
  <2>8. u > v <=> ~ (p > q)
    BY <2>2, <2>3, <2>4, <2>5
  <2>9. /\ FlipLabel("HH") = "LL" /\ FlipLabel("LL") = "HH"
        /\ FlipLabel("HL") = "LH" /\ FlipLabel("LH") = "HL"
    BY DEF FlipLabel
  <2>10. CASE s[i].kind = "HIGH"
    BY <2>3, <2>6, <2>7, <2>8, <2>9, <2>10 DEF FlipKind
  <2>11. CASE s[i].kind = "LOW"
    BY <2>3, <2>6, <2>7, <2>8, <2>9, <2>11 DEF FlipKind
  <2>12. QED
    BY <2>3, <2>10, <2>11
<1>10. QED
  BY <1>8, <1>9

\* So all labels are opposite.
LEMMA LabelsFlip ==
  ASSUME NEW s, NEW t, Flipped(s, t),
         \A i, j \in 1 .. Len(s) : i < j /\ s[i].kind = s[j].kind => s[i].price # s[j].price
  PROVE  FlippedLabels(ClassifyStructure(s), ClassifyStructure(t))
<1>1. s \in Seq(SwingType) /\ t \in Seq(SwingType) /\ Len(t) = Len(s) /\ Len(s) \in Nat
  BY LenProperties DEF Flipped
<1>2. /\ ClassifyStructure(s) \in Seq(LabeledType) /\ Len(ClassifyStructure(s)) = Len(s)
      /\ ClassifyStructure(t) \in Seq(LabeledType) /\ Len(ClassifyStructure(t)) = Len(s)
  BY <1>1, ClassifyStructureIs
<1>3. ASSUME NEW i \in 1 .. Len(s)
      PROVE  ClassifyStructure(t)[i] = FlipLabeled(ClassifyStructure(s)[i])
  <2>1. ClassifyStructure(s)[i] = [kind |-> s[i].kind, index |-> s[i].index,
                                   price |-> s[i].price, label |-> Label(s, i)]
    BY <1>1, ClassifyStructureIs
  <2>2. ClassifyStructure(t)[i] = [kind |-> t[i].kind, index |-> t[i].index,
                                   price |-> t[i].price, label |-> Label(t, i)]
    BY <1>1, ClassifyStructureIs
  <2>3. \A j \in 1 .. (i - 1) : s[j].kind = s[i].kind => s[j].price # s[i].price
    BY <1>1
  <2>4. Label(t, i) = FlipLabel(Label(s, i))
    BY <2>3, LabelFlips
  <2>5. t[i].kind = FlipKind(s[i].kind) /\ t[i].price = Mirror - s[i].price
        /\ t[i].index = s[i].index
    BY FlipSwingIs
  <2>6. QED
    BY <2>1, <2>2, <2>4, <2>5 DEF FlipLabeled
<1>4. QED
  BY <1>2, <1>3 DEF FlippedLabels

\* The parts of a turned labelled swing.
LEMMA FlipLabeledIs ==
  ASSUME NEW s, NEW t, FlippedLabels(s, t), NEW i \in 1 .. Len(s)
  PROVE  /\ i \in 1 .. Len(t) /\ s[i].kind \in {"HIGH", "LOW"} /\ t[i].kind = FlipKind(s[i].kind)
         /\ s[i].price \in Nat /\ t[i].price \in Nat /\ t[i].price = Mirror - s[i].price
         /\ s[i].label \in {None} \cup SwingLabels /\ t[i].label = FlipLabel(s[i].label)
<1>1. /\ s \in Seq(LabeledType) /\ t \in Seq(LabeledType) /\ Len(t) = Len(s)
      /\ t[i] = FlipLabeled(s[i])
  BY DEF FlippedLabels
<1>2. s[i] \in LabeledType /\ t[i] \in LabeledType
  BY <1>1, ElementOfSeq
<1>3. s[i].kind \in {"HIGH", "LOW"} /\ s[i].price \in Nat /\ t[i].price \in Nat
      /\ s[i].label \in {None} \cup SwingLabels
  BY <1>2 DEF LabeledType, SwingLabels
<1>4. /\ t[i].kind = FlipKind(s[i].kind) /\ t[i].price = Mirror - s[i].price
      /\ t[i].label = FlipLabel(s[i].label)
  BY <1>1 DEF FlipLabeled
<1>5. QED
  BY <1>1, <1>3, <1>4

\* An opposite label votes for the other side.
LEMMA FlipVote ==
  ASSUME NEW l \in SwingLabels
  PROVE  FlipLabel(l) # None /\ (FlipLabel(l) \in {"HH", "HL"} <=> l \notin {"HH", "HL"})
BY LabelAssumption DEF FlipLabel, SwingLabels

\* The last four labels vote for the other side (swings.py:90-103).
LEMMA BiasFlips ==
  ASSUME NEW s, NEW t, FlippedLabels(s, t)
  PROVE  TrendBias(t) = MirrorBias(TrendBias(s))
<1> DEFINE I == {i \in DOMAIN s : s[i].label # None}
           J == {i \in DOMAIN t : t[i].label # None}
           k == Picked(s, I)
           l == Picked(t, J)
           R == {i \in DOMAIN k : i > Len(k) - 4}
           Q == {i \in DOMAIN l : i > Len(l) - 4}
           U == {i \in R : k[i].label \in {"HH", "HL"}}
           V == {i \in Q : l[i].label \in {"HH", "HL"}}
           u == Cardinality(U)
           v == Cardinality(V)
           r == Cardinality(R)
           q == Cardinality(Q)
<1>1. /\ s \in Seq(LabeledType) /\ t \in Seq(LabeledType) /\ Len(t) = Len(s)
      /\ DOMAIN s = 1 .. Len(s) /\ DOMAIN t = 1 .. Len(s)
  BY LenProperties DEF FlippedLabels
<1>2. \A i \in 1 .. Len(s) : /\ s[i].label \in {None} \cup SwingLabels
                             /\ t[i].label = FlipLabel(s[i].label)
  BY FlipLabeledIs
<1>3. FlipLabel(None) = None /\ \A x \in SwingLabels : FlipLabel(x) # None
  BY FlipVote, LabelAssumption DEF FlipLabel, SwingLabels
<1>4. J = I /\ I \in SUBSET (1 .. Len(s))
  BY <1>1, <1>2, <1>3
<1>5. \A i \in I : s[i].label \in SwingLabels
  BY <1>1, <1>2
<1>6. TrendBias(s) = IF u > r - u THEN "BULLISH" ELSE IF r - u > u THEN "BEARISH" ELSE "NEUTRAL"
  BY DEF TrendBias
<1>7. TrendBias(t) = IF v > q - v THEN "BULLISH" ELSE IF q - v > v THEN "BEARISH" ELSE "NEUTRAL"
  BY DEF TrendBias
<1> HIDE DEF I, J
<1> DEFINE n == Cardinality(I)
<1>8. /\ n \in Nat /\ Len(k) = n /\ DOMAIN k = 1 .. n
      /\ \A i \in 1 .. n : InOrder(I)[i] \in I /\ k[i] = s[InOrder(I)[i]]
  BY <1>1, <1>4, PickedIs
<1>9. /\ Len(l) = n /\ DOMAIN l = 1 .. n
      /\ \A i \in 1 .. n : l[i] = t[InOrder(I)[i]]
  <2>1. I \in SUBSET (1 .. Len(t))
    BY <1>1, <1>4
  <2>2. QED
    BY <1>1, <1>4, <2>1, PickedIs
<1> HIDE DEF k, l, n
<1>10. \A i \in 1 .. n : k[i].label \in SwingLabels /\ l[i].label = FlipLabel(k[i].label)
  BY <1>2, <1>4, <1>5, <1>8, <1>9, ZenonT(60)
<1>11. Q = R /\ R \in SUBSET (1 .. n)
  BY <1>8, <1>9
<1>12. \A i \in R : l[i].label \in {"HH", "HL"} <=> k[i].label \notin {"HH", "HL"}
  BY <1>10, <1>11, FlipVote
<1>13. V = R \ U /\ U \in SUBSET R /\ R \cap U = U
  BY <1>11, <1>12
<1>14. IsFiniteSet(R)
  <2>1. 1 \in Int /\ n \in Int
    BY <1>8
  <2>2. IsFiniteSet(1 .. n)
    BY <2>1, FS_Interval
  <2>3. QED
    BY <1>11, <2>2, FS_Subset
<1>15. q = r
  BY <1>11
<1> HIDE DEF R, Q, U, V
<1>16. IsFiniteSet(U) /\ Cardinality(R \ U) = Cardinality(R) - Cardinality(R \cap U)
  BY <1>13, <1>14, FS_Subset, FS_Difference
<1>17. v = r - u
  BY <1>13, <1>16
<1>18. u \in Nat /\ r \in Nat
  BY <1>14, <1>16, FS_CardinalityType
<1> HIDE DEF u, v, r, q
<1>19. CASE u > r - u
  BY <1>6, <1>7, <1>15, <1>17, <1>18, <1>19 DEF MirrorBias
<1>20. CASE r - u > u
  BY <1>6, <1>7, <1>15, <1>17, <1>18, <1>20 DEF MirrorBias
<1>21. CASE ~ (u > r - u) /\ ~ (r - u > u)
  BY <1>6, <1>7, <1>15, <1>17, <1>18, <1>21 DEF MirrorBias
<1>22. QED
  BY <1>19, <1>20, <1>21

\* No price has no mirror image.
LEMMA MirrorPriceIs ==
  /\ MirrorPrice(None) = None
  /\ \A p \in Nat : MirrorPrice(p) = Mirror - p
<1>1. \A p \in Nat : p # None
  BY NoneAssumption
<1>2. QED
  BY <1>1 DEF MirrorPrice

\* The last high of the turned swings is the last low turned, and conversely.
LEMMA LastPriceFlips ==
  ASSUME NEW s, NEW t, FlippedLabels(s, t), NEW k \in {"HIGH", "LOW"}
  PROVE  LastPrice(t, FlipKind(k)) = MirrorPrice(LastPrice(s, k))
<1> DEFINE S == {i \in DOMAIN s : s[i].kind = k}
           T == {i \in DOMAIN t : t[i].kind = FlipKind(k)}
<1>1. Len(s) \in Nat /\ DOMAIN s = 1 .. Len(s) /\ DOMAIN t = 1 .. Len(s)
  BY LenProperties DEF FlippedLabels
<1>2. ASSUME NEW i \in 1 .. Len(s)
      PROVE  t[i].kind = FlipKind(k) <=> s[i].kind = k
  <2>1. s[i].kind \in {"HIGH", "LOW"} /\ t[i].kind = FlipKind(s[i].kind)
    BY FlipLabeledIs
  <2>2. QED
    BY <2>1, FlipSame
<1>3. T = S /\ S \in SUBSET (1 .. Len(s))
  BY <1>1, <1>2
<1>4. /\ LastPrice(s, k) = IF S = {} THEN None ELSE s[Max(S)].price
      /\ LastPrice(t, FlipKind(k)) = IF T = {} THEN None ELSE t[Max(T)].price
  BY DEF LastPrice
<1> HIDE DEF S, T
<1>5. CASE S = {}
  BY <1>3, <1>4, <1>5, MirrorPriceIs
<1>6. CASE S # {}
  <2> DEFINE m == Max(S)
  <2>1. m \in 1 .. Len(s)
    BY <1>1, <1>3, <1>6, BeforeIs
  <2>2. s[m].price \in Nat /\ t[m].price = Mirror - s[m].price
    BY <2>1, FlipLabeledIs
  <2>3. LastPrice(s, k) = s[m].price /\ LastPrice(t, FlipKind(k)) = t[m].price
    BY <1>3, <1>4, <1>6
  <2>4. QED
    BY <2>2, <2>3, MirrorPriceIs
<1>7. QED
  BY <1>5, <1>6

\* The impulse of the turned swings is the impulse turned.
LEMMA ImpulseFlips ==
  ASSUME NEW s, NEW t, FlippedLabels(s, t)
  PROVE  /\ Impulse(s) = None => Impulse(t) = None
         /\ Impulse(s) # None =>
              /\ Impulse(s).start \in Nat /\ Impulse(s).end \in Nat
              /\ Impulse(t) # None
              /\ Impulse(t).start = Mirror - Impulse(s).start
              /\ Impulse(t).end = Mirror - Impulse(s).end
              /\ Impulse(t).start \in Nat /\ Impulse(t).end \in Nat
<1> DEFINE S == {i \in DOMAIN s : s[i].kind # Last(s).kind}
           T == {i \in DOMAIN t : t[i].kind # Last(t).kind}
<1>1. /\ Len(s) \in Nat /\ DOMAIN s = 1 .. Len(s) /\ DOMAIN t = 1 .. Len(s)
      /\ (s = << >> <=> Len(s) = 0) /\ (t = << >> <=> Len(s) = 0) /\ Len(t) = Len(s)
  BY LenProperties, EmptySeq DEF FlippedLabels
<1>2. /\ Impulse(s) = IF s = << >> \/ S = {} THEN None
                      ELSE [start |-> s[Max(S)].price, end |-> Last(s).price]
      /\ Impulse(t) = IF t = << >> \/ T = {} THEN None
                      ELSE [start |-> t[Max(T)].price, end |-> Last(t).price]
  BY DEF Impulse
<1>3. CASE Len(s) = 0
  BY <1>1, <1>2, <1>3
<1>4. CASE Len(s) # 0
  <2> DEFINE n == Len(s)
  <2>1. n \in 1 .. n
    BY <1>1, <1>4
  <2>2. Last(s) = s[n] /\ Last(t) = t[n]
    BY <1>1 DEF Last
  <2>3. /\ s[n].kind \in {"HIGH", "LOW"} /\ t[n].kind = FlipKind(s[n].kind)
        /\ s[n].price \in Nat /\ t[n].price = Mirror - s[n].price /\ t[n].price \in Nat
    BY <2>1, FlipLabeledIs
  <2>4. ASSUME NEW i \in 1 .. n
        PROVE  t[i].kind # t[n].kind <=> s[i].kind # s[n].kind
    <3>1. s[i].kind \in {"HIGH", "LOW"} /\ t[i].kind = FlipKind(s[i].kind)
      BY FlipLabeledIs
    <3>2. QED
      BY <2>3, <3>1, FlipSame
  <2>5. T = S /\ S \in SUBSET (1 .. n)
    BY <1>1, <2>2, <2>4
  <2> HIDE DEF S, T
  <2>6. CASE S = {}
    BY <1>2, <2>5, <2>6
  <2>7. CASE S # {}
    <3> DEFINE m == Max(S)
    <3>1. m \in 1 .. Len(s)
      BY <1>1, <2>5, <2>7, BeforeIs
    <3>2. s[m].price \in Nat /\ t[m].price = Mirror - s[m].price /\ t[m].price \in Nat
      BY <3>1, FlipLabeledIs
    <3>3. /\ Impulse(s) = [start |-> s[m].price, end |-> s[n].price]
          /\ Impulse(t) = [start |-> t[m].price, end |-> t[n].price]
      BY <1>1, <1>2, <1>4, <2>2, <2>5, <2>7
    <3> HIDE DEF m, n
    <3>4. Impulse(s) \in [start : Nat, end : Nat] /\ Impulse(t) \in [start : Nat, end : Nat]
      BY <2>3, <3>2, <3>3
    <3>5. Impulse(s) # None /\ Impulse(t) # None
      BY <3>4, PullbackAssumption
    <3>6. QED
      BY <2>3, <3>2, <3>3, <3>5
  <2>8. QED
    BY <2>6, <2>7
<1>5. QED
  BY <1>3, <1>4

\* The pullback of an impulse from a to b at price p.
PullbackOf(a, b, p) ==
  ClassifyPullback(a, b, p, IF b > a THEN p < a ELSE p > a, IF b > a THEN p > b ELSE p < b)

\* The turned impulse has the same pullback at the turned price (pullback.py:52-67).
LEMMA ClassifyPullbackFlips ==
  ASSUME NEW a \in Nat, NEW b \in Nat, NEW p \in Nat,
         NEW x \in Nat, NEW y \in Nat, NEW q \in Nat,
         x = Mirror - a, y = Mirror - b, q = Mirror - p
  PROVE  PullbackOf(x, y, q) = PullbackOf(a, b, p)
<1> DEFINE span == Distance(a, b)
           back == Distance(b, p)
           broke == IF b > a THEN p < a ELSE p > a
           resumed == IF b > a THEN p > b ELSE p < b
<1>1. Mirror \in Nat
  BY FeedAssumption
<1>2. Distance(x, y) = span /\ Distance(y, q) = back
  BY <1>1 DEF Distance
<1>3. CASE a = b
  <2>1. span = 0
    BY <1>3 DEF Distance
  <2>2. QED
    BY <1>2, <2>1 DEF PullbackOf, ClassifyPullback
<1>4. CASE a # b
  <2>1. /\ (IF y > x THEN q < x ELSE q > x) <=> broke
        /\ (IF y > x THEN q > y ELSE q < y) <=> resumed
    BY <1>1, <1>4
  <2> HIDE DEF span, back, broke, resumed
  <2>2. QED
    BY <1>2, <2>1 DEF PullbackOf, ClassifyPullback, span, back, broke, resumed
<1>5. QED
  BY <1>3, <1>4

\* And so have the turned swings (decision.py:266-276).
LEMMA PullbackFlips ==
  ASSUME NEW s, NEW t, FlippedLabels(s, t), NEW p \in Nat, Mirror - p \in Nat
  PROVE  DerivePullback(t, Mirror - p) = DerivePullback(s, p)
<1>1. CASE Impulse(s) = None
  <2>1. Impulse(t) = None
    BY <1>1, ImpulseFlips
  <2>2. QED
    BY <1>1, <2>1 DEF DerivePullback
<1>2. CASE Impulse(s) # None
  <2> DEFINE a == Impulse(s).start
             b == Impulse(s).end
             x == Impulse(t).start
             y == Impulse(t).end
             q == Mirror - p
  <2>1. /\ a \in Nat /\ b \in Nat /\ x \in Nat /\ y \in Nat /\ x = Mirror - a /\ y = Mirror - b
        /\ Impulse(t) # None
    BY <1>2, ImpulseFlips
  <2>2. DerivePullback(s, p) = PullbackOf(a, b, p)
    BY <1>2 DEF DerivePullback, PullbackOf
  <2>3. DerivePullback(t, q) = PullbackOf(x, y, q)
    BY <2>1 DEF DerivePullback, PullbackOf
  <2>4. q \in Nat /\ q = Mirror - p
    OBVIOUS
  <2> HIDE DEF a, b, x, y, q
  <2>5. PullbackOf(x, y, q) = PullbackOf(a, b, p)
    BY <2>1, <2>4, ClassifyPullbackFlips, SMTT(60)
  <2>6. QED
    BY <2>2, <2>3, <2>5 DEF q
<1>3. QED
  BY <1>1, <1>2

\* Levels are prices, and so are their mirror images.
LEMMA LevelsAre ==
  ASSUME Mirrorable, NEW l \in Levels
  PROVE  l \in Nat /\ l <= Mirror /\ Mirror - l \in Nat
<1>1. Mirror \in Nat
  BY FeedAssumption
<1>2. CASE \E s \in Shapes : l = s.high \/ l = s.low
  <2>1. PICK s \in Shapes : l = s.high \/ l = s.low
    BY <1>2
  <2>2. s \in [open : Nat, high : Nat, low : Nat, close : Nat] /\ s.low <= s.open /\ s.open <= s.high
        /\ s.high <= Mirror
    BY FeedAssumption DEF Mirrorable
  <2> DEFINE h == s.high
             w == s.low
             o == s.open
  <2>3. h \in Nat /\ w \in Nat /\ o \in Nat /\ w <= o /\ o <= h /\ h <= Mirror /\ (l = h \/ l = w)
    BY <2>1, <2>2
  <2> HIDE DEF h, w, o
  <2>4. QED
    BY <1>1, <2>3
<1>3. CASE PrevDay # None /\ (l = PrevDay.high \/ l = PrevDay.low)
  <2> DEFINE h == PrevDay.high
             w == PrevDay.low
  <2>1. PrevDay \in [high : Nat, low : Nat] /\ h + w = Mirror
    BY <1>3, StructureAssumption DEF Mirrorable
  <2>2. h \in Nat /\ w \in Nat /\ h + w = Mirror /\ (l = h \/ l = w)
    BY <1>3, <2>1
  <2> HIDE DEF h, w
  <2>3. QED
    BY <1>1, <2>2
<1>4. \/ \E s \in Shapes : l = s.high \/ l = s.low
      \/ PrevDay # None /\ (l = PrevDay.high \/ l = PrevDay.low)
  <2>1. l \in {s.high : s \in Shapes} => \E s \in Shapes : l = s.high
    OBVIOUS
  <2>2. l \in {s.low : s \in Shapes} => \E s \in Shapes : l = s.low
    OBVIOUS
  <2>3. QED
    BY <2>1, <2>2 DEF Levels
<1>5. QED
  BY <1>2, <1>3, <1>4

\* All extremes are among the levels.
Priced(cs) == \A i \in 1 .. Len(cs) : cs[i].high \in Levels /\ cs[i].low \in Levels

\* Picked from the turned candles is the turned pick.
LEMMA PickedMirrored ==
  ASSUME NEW c, NEW d, Mirrored(c, d), NEW I \in SUBSET (1 .. Len(c))
  PROVE  /\ Mirrored(Picked(c, I), Picked(d, I))
         /\ Priced(c) => Priced(Picked(c, I))
<1>1. /\ c \in Seq(CandleType) /\ d \in Seq(CandleType) /\ Len(d) = Len(c)
      /\ \A i \in 1 .. Len(c) : d[i] = MirrorCandle(c[i])
  BY DEF Mirrored
<1> DEFINE x == Picked(c, I)
           y == Picked(d, I)
           n == Cardinality(I)
<1>2. /\ x \in Seq(CandleType) /\ Len(x) = n
      /\ \A k \in 1 .. n : InOrder(I)[k] \in I /\ x[k] = c[InOrder(I)[k]]
  BY <1>1, PickedIs
<1>3. /\ y \in Seq(CandleType) /\ Len(y) = n
      /\ \A k \in 1 .. n : y[k] = d[InOrder(I)[k]]
  <2>1. I \in SUBSET (1 .. Len(d))
    BY <1>1
  <2>2. QED
    BY <1>1, <2>1, PickedIs
<1> HIDE DEF x, y, n
<1>4. \A k \in 1 .. n : y[k] = MirrorCandle(x[k])
  BY <1>1, <1>2, <1>3
<1>5. Priced(c) => Priced(x)
  BY <1>2 DEF Priced
<1>6. QED
  BY <1>2, <1>3, <1>4, <1>5 DEF Mirrored, x, y

\* The opening range of the turned candles is the opening range turned.
LEMMA OpeningFlips ==
  ASSUME NEW c, NEW d, Mirrored(c, d)
  PROVE  /\ Mirrored(OpeningOf(c), OpeningOf(d))
         /\ Priced(c) => Priced(OpeningOf(c))
<1> DEFINE I == {i \in DOMAIN c : c[i].start < OpeningPeriods}
           J == {i \in DOMAIN d : d[i].start < OpeningPeriods}
<1>1. DOMAIN c = 1 .. Len(c) /\ DOMAIN d = 1 .. Len(c)
  BY LenProperties DEF Mirrored
<1>2. \A i \in 1 .. Len(c) : d[i].start = c[i].start
  BY MirrorCandleIs
<1>3. J = I /\ I \in SUBSET (1 .. Len(c))
  BY <1>1, <1>2
<1>4. OpeningOf(c) = Picked(c, I) /\ OpeningOf(d) = Picked(d, J)
  BY DEF OpeningOf
<1> HIDE DEF I, J
<1>5. QED
  BY <1>3, <1>4, PickedMirrored

\* The top of the turned candles is the bottom turned.
LEMMA TopFlips ==
  ASSUME NEW c, NEW d, Mirrored(c, d)
  PROVE  /\ Top(d) = MirrorPrice(Bottom(c)) /\ Bottom(d) = MirrorPrice(Top(c))
         /\ Priced(c) => Top(c) \in Levels \cup {None} /\ Bottom(c) \in Levels \cup {None}
<1>1. c \in Seq(CandleType) /\ (c = << >> <=> d = << >>)
  BY EmptySeq DEF Mirrored
<1>2. CASE c = << >>
  BY <1>1, <1>2, MirrorPriceIs DEF Top, Bottom
<1>3. CASE c # << >>
  <2>1. /\ Max(Highs(c)) \in Nat /\ Min(Lows(c)) \in Nat
        /\ Max(Highs(d)) = Mirror - Min(Lows(c)) /\ Min(Lows(d)) = Mirror - Max(Highs(c))
    BY <1>3, MirrorExtremes
  <2>2. /\ Top(c) = Max(Highs(c)) /\ Bottom(c) = Min(Lows(c))
        /\ Top(d) = Max(Highs(d)) /\ Bottom(d) = Min(Lows(d))
    BY <1>1, <1>3 DEF Top, Bottom
  <2>3. /\ \E i \in 1 .. Len(c) : c[i].high = Max(Highs(c))
        /\ \E i \in 1 .. Len(c) : c[i].low = Min(Lows(c))
    BY <1>1, <1>3, HighsAre, LowsAre
  <2>4. Priced(c) => Max(Highs(c)) \in Levels /\ Min(Lows(c)) \in Levels
    BY <2>3 DEF Priced
  <2>5. QED
    BY <2>1, <2>2, <2>4, MirrorPriceIs
<1>4. QED
  BY <1>2, <1>3

\* Each session level of the turned candles is the level of the mirrored kind turned.
LEMMA LevelFlips ==
  ASSUME Mirrorable, NEW c, NEW d, Mirrored(c, d), NEW k \in LevelKinds
  PROVE  /\ MirrorKind[k] \in LevelKinds
         /\ LevelOf(d, MirrorKind[k]) = MirrorPrice(LevelOf(c, k))
         /\ Priced(c) => LevelOf(c, k) \in Levels \cup {None}
<1>1. Mirrored(OpeningOf(c), OpeningOf(d)) /\ (Priced(c) => Priced(OpeningOf(c)))
  BY OpeningFlips
<1>2. /\ Top(d) = MirrorPrice(Bottom(c)) /\ Bottom(d) = MirrorPrice(Top(c))
      /\ Priced(c) => Top(c) \in Levels \cup {None} /\ Bottom(c) \in Levels \cup {None}
  BY TopFlips
<1>3. /\ Top(OpeningOf(d)) = MirrorPrice(Bottom(OpeningOf(c)))
      /\ Bottom(OpeningOf(d)) = MirrorPrice(Top(OpeningOf(c)))
      /\ Priced(c) => /\ Top(OpeningOf(c)) \in Levels \cup {None}
                      /\ Bottom(OpeningOf(c)) \in Levels \cup {None}
  BY <1>1, TopFlips
<1>4. k \in {"PDH", "PDL", "SESSION_HIGH", "SESSION_LOW", "OPENING_RANGE_HIGH",
             "OPENING_RANGE_LOW"}
  BY LevelKindsAre
<1>5. MirrorKind[k] = IF k = "PDH" THEN "PDL" ELSE IF k = "PDL" THEN "PDH"
                      ELSE IF k = "SESSION_HIGH" THEN "SESSION_LOW"
                      ELSE IF k = "SESSION_LOW" THEN "SESSION_HIGH"
                      ELSE IF k = "OPENING_RANGE_HIGH" THEN "OPENING_RANGE_LOW"
                      ELSE "OPENING_RANGE_HIGH"
  BY <1>4 DEF MirrorKind
<1>6. MirrorKind[k] \in LevelKinds
  BY <1>4, <1>5, LevelKindsAre
<1>7. CASE k \in {"PDH", "PDL"}
  <2>1. CASE PrevDay = None
    <3>1. LevelOf(c, k) = None /\ LevelOf(d, MirrorKind[k]) = None
      BY <1>5, <1>7, <2>1 DEF LevelOf
    <3>2. QED
      BY <1>6, <3>1, MirrorPriceIs
  <2>2. CASE PrevDay # None
    <3> DEFINE h == PrevDay.high
               w == PrevDay.low
    <3>1. h \in Nat /\ w \in Nat /\ h + w = Mirror /\ h \in Levels /\ w \in Levels
      <4>1. PrevDay \in [high : Nat, low : Nat] /\ h + w = Mirror
        BY <2>2, StructureAssumption DEF Mirrorable
      <4>2. h \in Nat /\ w \in Nat
        BY <4>1
      <4>3. h \in Levels /\ w \in Levels
        BY <2>2 DEF Levels
      <4>4. QED
        BY <4>1, <4>2, <4>3
    <3>2. /\ LevelOf(c, k) = IF k = "PDH" THEN h ELSE w
          /\ LevelOf(d, MirrorKind[k]) = IF k = "PDH" THEN w ELSE h
      BY <1>5, <1>7, <2>2 DEF LevelOf
    <3> HIDE DEF h, w
    <3>3. MirrorPrice(h) = w /\ MirrorPrice(w) = h
      <4>1. Mirror - h = w /\ Mirror - w = h
        BY <3>1
      <4>2. QED
        BY <3>1, <4>1, MirrorPriceIs
    <3>4. QED
      BY <1>6, <3>1, <3>2, <3>3
  <2>3. QED
    BY <2>1, <2>2
<1>8. CASE k = "SESSION_HIGH"
  BY <1>2, <1>5, <1>6, <1>8 DEF LevelOf
<1>9. CASE k = "SESSION_LOW"
  BY <1>2, <1>5, <1>6, <1>9 DEF LevelOf
<1>10. CASE k = "OPENING_RANGE_HIGH"
  BY <1>3, <1>5, <1>6, <1>10 DEF LevelOf
<1>11. CASE k = "OPENING_RANGE_LOW"
  BY <1>3, <1>5, <1>6, <1>11 DEF LevelOf
<1>12. QED
  BY <1>4, <1>7, <1>8, <1>9, <1>10, <1>11

\* classify_reaction at a level tested from below (liquidity.py:103-137).
LEMMA ReactionAbove ==
  ASSUME NEW cs, NEW level
  PROVE  LET U == cs = << >> \/ \A i \in DOMAIN cs : cs[i].high # level /\ ~ (cs[i].high > level)
             B == Last(cs).close > level
             F == /\ \E i \in 1 .. (Len(cs) - 1) : cs[i].close > level
                  /\ Last(cs).close # level /\ ~ B
             N == Last(cs).low > level
             S == (Max(Highs(cs)) - level) * 1000 > level
         IN ClassifyReaction(cs, level, "ABOVE")
              = IF U THEN "UNTESTED" ELSE IF F THEN "FAILED_BREAK"
                ELSE IF B THEN IF N THEN "ACCEPTANCE" ELSE "CONTINUATION"
                ELSE IF S THEN "SWEEP" ELSE "REJECTION"
BY DEF ClassifyReaction

\* classify_reaction at a level tested from above.
LEMMA ReactionBelow ==
  ASSUME NEW cs, NEW level
  PROVE  LET U == cs = << >> \/ \A i \in DOMAIN cs : cs[i].low # level /\ ~ (cs[i].low < level)
             B == Last(cs).close < level
             F == /\ \E i \in 1 .. (Len(cs) - 1) : cs[i].close < level
                  /\ Last(cs).close # level /\ ~ B
             N == Last(cs).high < level
             S == (level - Min(Lows(cs))) * 1000 > level
         IN ClassifyReaction(cs, level, "BELOW")
              = IF U THEN "UNTESTED" ELSE IF F THEN "FAILED_BREAK"
                ELSE IF B THEN IF N THEN "ACCEPTANCE" ELSE "CONTINUATION"
                ELSE IF S THEN "SWEEP" ELSE "REJECTION"
BY DEF ClassifyReaction

\* What a level tested from below gives, the turned level tested from above gives of
\* the turned candles.
LEMMA ReactionFlipsAbove ==
  ASSUME Mirrorable, NEW c, NEW d, Mirrored(c, d), Priced(c), NEW level \in Levels
  PROVE  ClassifyReaction(d, Mirror - level, "BELOW") = ClassifyReaction(c, level, "ABOVE")
<1> DEFINE m == Mirror - level
           n == Len(c)
           U == c = << >> \/ \A i \in DOMAIN c : c[i].high # level /\ ~ (c[i].high > level)
           B == Last(c).close > level
           F == /\ \E i \in 1 .. (Len(c) - 1) : c[i].close > level
                /\ Last(c).close # level /\ ~ B
           N == Last(c).low > level
           S == (Max(Highs(c)) - level) * 1000 > level
           UU == d = << >> \/ \A i \in DOMAIN d : d[i].low # m /\ ~ (d[i].low < m)
           BB == Last(d).close < m
           FF == /\ \E i \in 1 .. (Len(d) - 1) : d[i].close < m
                 /\ Last(d).close # m /\ ~ BB
           NN == Last(d).high < m
           SS == (m - Min(Lows(d))) * 1000 > m
<1>1. ClassifyReaction(c, level, "ABOVE")
        = IF U THEN "UNTESTED" ELSE IF F THEN "FAILED_BREAK"
          ELSE IF B THEN IF N THEN "ACCEPTANCE" ELSE "CONTINUATION"
          ELSE IF S THEN "SWEEP" ELSE "REJECTION"
  BY ReactionAbove
<1>2. ClassifyReaction(d, m, "BELOW")
        = IF UU THEN "UNTESTED" ELSE IF FF THEN "FAILED_BREAK"
          ELSE IF BB THEN IF NN THEN "ACCEPTANCE" ELSE "CONTINUATION"
          ELSE IF SS THEN "SWEEP" ELSE "REJECTION"
  BY ReactionBelow
<1>3. /\ n \in Nat /\ Len(d) = n /\ DOMAIN c = 1 .. n /\ DOMAIN d = 1 .. n
      /\ c \in Seq(CandleType) /\ (c = << >> <=> n = 0) /\ (d = << >> <=> n = 0)
  BY LenProperties, EmptySeq DEF Mirrored
<1>4. level \in Nat /\ m \in Nat /\ Mirror \in Nat
  BY LevelsAre, FeedAssumption
<1>5. ASSUME NEW i \in 1 .. n
      PROVE  /\ d[i].low = m <=> c[i].high = level
             /\ d[i].low < m <=> c[i].high > level
             /\ d[i].high < m <=> c[i].low > level
             /\ d[i].close = m <=> c[i].close = level
             /\ d[i].close < m <=> c[i].close > level
  <2> DEFINE h == c[i].high
             l == c[i].low
             p == c[i].close
             dh == d[i].high
             dl == d[i].low
             dp == d[i].close
  <2>1. /\ h \in Nat /\ l \in Nat /\ p \in Nat
        /\ dl = Mirror - h /\ dh = Mirror - l /\ dp = Mirror - p
    BY MirrorCandleIs
  <2> HIDE DEF h, l, p, dh, dl, dp
  <2>2. /\ (dl = m <=> h = level) /\ (dl < m <=> h > level) /\ (dh < m <=> l > level)
        /\ (dp = m <=> p = level) /\ (dp < m <=> p > level)
    BY <1>4, <2>1
  <2>3. QED
    BY <2>2 DEF h, l, p, dh, dl, dp
<1>6. CASE n = 0
  BY <1>1, <1>2, <1>3, <1>6
<1>7. CASE n # 0
  <2>1. n \in 1 .. n /\ Last(c) = c[n] /\ Last(d) = d[n] /\ c # << >>
        /\ \A i \in 1 .. (n - 1) : i \in 1 .. n
    BY <1>3, <1>7 DEF Last
  <2>2. UU <=> U
    BY <1>3, <1>5, <1>7
  <2>3. (BB <=> B) /\ (NN <=> N) /\ (Last(d).close = m <=> Last(c).close = level)
    BY <1>5, <2>1
  <2>4. (\E i \in 1 .. (Len(d) - 1) : d[i].close < m)
          <=> \E i \in 1 .. (Len(c) - 1) : c[i].close > level
    BY <1>3, <1>5, <2>1
  <2>5. FF <=> F
    BY <2>3, <2>4
  <2>6. ASSUME ~ U
        PROVE  SS <=> S
    <3> DEFINE x == Max(Highs(c))
               y == Min(Lows(d))
    <3>1. x \in Nat /\ y \in Nat /\ y = Mirror - x
      BY <2>1, MirrorExtremes
    <3>2. x \in Levels
      <4>1. \E i \in 1 .. n : c[i].high = x
        BY <1>3, <2>1, HighsAre
      <4>2. QED
        BY <4>1 DEF Priced
    <3>3. level <= x
      <4>1. PICK i \in 1 .. n : ~ (c[i].high # level /\ ~ (c[i].high > level))
        BY <1>3, <2>6
      <4>2. c[i].high <= x
        BY <1>3, <2>1, HighsAre
      <4>3. c[i].high \in Nat
        BY MirrorCandleIs
      <4> HIDE DEF x
      <4>4. QED
        BY <1>4, <3>1, <4>1, <4>2, <4>3
    <3>4. Distance(x, level) * 1000 > level <=> Distance(x, level) * 1000 > m
      BY <3>2 DEF Mirrorable
    <3> HIDE DEF x, y
    <3>5. Distance(x, level) = x - level
      BY <1>4, <3>1, <3>3 DEF Distance
    <3>6. m - y = x - level
      BY <1>4, <3>1
    <3>7. (m - y) * 1000 > m <=> (x - level) * 1000 > level
      BY <3>4, <3>5, <3>6
    <3>8. QED
      BY <3>7 DEF x, y
  <2> HIDE DEF U, B, F, N, S, UU, BB, FF, NN, SS, m
  <2>7. ClassifyReaction(d, m, "BELOW") = ClassifyReaction(c, level, "ABOVE")
    BY <1>1, <1>2, <2>2, <2>3, <2>5, <2>6
  <2>8. QED
    BY <2>7 DEF m
<1>8. QED
  BY <1>6, <1>7

\* And conversely.
LEMMA ReactionFlipsBelow ==
  ASSUME Mirrorable, NEW c, NEW d, Mirrored(c, d), Priced(c), NEW level \in Levels
  PROVE  ClassifyReaction(d, Mirror - level, "ABOVE") = ClassifyReaction(c, level, "BELOW")
<1> DEFINE m == Mirror - level
           n == Len(c)
           U == c = << >> \/ \A i \in DOMAIN c : c[i].low # level /\ ~ (c[i].low < level)
           B == Last(c).close < level
           F == /\ \E i \in 1 .. (Len(c) - 1) : c[i].close < level
                /\ Last(c).close # level /\ ~ B
           N == Last(c).high < level
           S == (level - Min(Lows(c))) * 1000 > level
           UU == d = << >> \/ \A i \in DOMAIN d : d[i].high # m /\ ~ (d[i].high > m)
           BB == Last(d).close > m
           FF == /\ \E i \in 1 .. (Len(d) - 1) : d[i].close > m
                 /\ Last(d).close # m /\ ~ BB
           NN == Last(d).low > m
           SS == (Max(Highs(d)) - m) * 1000 > m
<1>1. ClassifyReaction(c, level, "BELOW")
        = IF U THEN "UNTESTED" ELSE IF F THEN "FAILED_BREAK"
          ELSE IF B THEN IF N THEN "ACCEPTANCE" ELSE "CONTINUATION"
          ELSE IF S THEN "SWEEP" ELSE "REJECTION"
  BY ReactionBelow
<1>2. ClassifyReaction(d, m, "ABOVE")
        = IF UU THEN "UNTESTED" ELSE IF FF THEN "FAILED_BREAK"
          ELSE IF BB THEN IF NN THEN "ACCEPTANCE" ELSE "CONTINUATION"
          ELSE IF SS THEN "SWEEP" ELSE "REJECTION"
  BY ReactionAbove
<1>3. /\ n \in Nat /\ Len(d) = n /\ DOMAIN c = 1 .. n /\ DOMAIN d = 1 .. n
      /\ c \in Seq(CandleType) /\ (c = << >> <=> n = 0) /\ (d = << >> <=> n = 0)
  BY LenProperties, EmptySeq DEF Mirrored
<1>4. level \in Nat /\ m \in Nat /\ Mirror \in Nat
  BY LevelsAre, FeedAssumption
<1>5. ASSUME NEW i \in 1 .. n
      PROVE  /\ d[i].high = m <=> c[i].low = level
             /\ d[i].high > m <=> c[i].low < level
             /\ d[i].low > m <=> c[i].high < level
             /\ d[i].close = m <=> c[i].close = level
             /\ d[i].close > m <=> c[i].close < level
  <2> DEFINE h == c[i].low
             l == c[i].high
             p == c[i].close
             dh == d[i].low
             dl == d[i].high
             dp == d[i].close
  <2>1. /\ h \in Nat /\ l \in Nat /\ p \in Nat
        /\ dl = Mirror - h /\ dh = Mirror - l /\ dp = Mirror - p
    BY MirrorCandleIs
  <2> HIDE DEF h, l, p, dh, dl, dp
  <2>2. /\ (dl = m <=> h = level) /\ (dl > m <=> h < level) /\ (dh > m <=> l < level)
        /\ (dp = m <=> p = level) /\ (dp > m <=> p < level)
    BY <1>4, <2>1
  <2>3. QED
    BY <2>2 DEF h, l, p, dh, dl, dp
<1>6. CASE n = 0
  BY <1>1, <1>2, <1>3, <1>6
<1>7. CASE n # 0
  <2>1. n \in 1 .. n /\ Last(c) = c[n] /\ Last(d) = d[n] /\ c # << >>
        /\ \A i \in 1 .. (n - 1) : i \in 1 .. n
    BY <1>3, <1>7 DEF Last
  <2>2. UU <=> U
    BY <1>3, <1>5, <1>7
  <2>3. (BB <=> B) /\ (NN <=> N) /\ (Last(d).close = m <=> Last(c).close = level)
    BY <1>5, <2>1
  <2>4. (\E i \in 1 .. (Len(d) - 1) : d[i].close > m)
          <=> \E i \in 1 .. (Len(c) - 1) : c[i].close < level
    BY <1>3, <1>5, <2>1
  <2>5. FF <=> F
    BY <2>3, <2>4
  <2>6. ASSUME ~ U
        PROVE  SS <=> S
    <3> DEFINE x == Min(Lows(c))
               y == Max(Highs(d))
    <3>1. x \in Nat /\ y \in Nat /\ y = Mirror - x
      BY <2>1, MirrorExtremes
    <3>2. x \in Levels
      <4>1. \E i \in 1 .. n : c[i].low = x
        BY <1>3, <2>1, LowsAre
      <4>2. QED
        BY <4>1 DEF Priced
    <3>3. x <= level
      <4>1. PICK i \in 1 .. n : ~ (c[i].low # level /\ ~ (c[i].low < level))
        BY <1>3, <2>6
      <4>2. x <= c[i].low
        BY <1>3, <2>1, LowsAre
      <4>3. c[i].low \in Nat
        BY MirrorCandleIs
      <4> HIDE DEF x
      <4>4. QED
        BY <1>4, <3>1, <4>1, <4>2, <4>3
    <3>4. Distance(x, level) * 1000 > level <=> Distance(x, level) * 1000 > m
      BY <3>2 DEF Mirrorable
    <3> HIDE DEF x, y
    <3>5. Distance(x, level) = level - x
      BY <1>4, <3>1, <3>3 DEF Distance
    <3>6. y - m = level - x
      BY <1>4, <3>1
    <3>7. (y - m) * 1000 > m <=> (level - x) * 1000 > level
      BY <3>4, <3>5, <3>6
    <3>8. QED
      BY <3>7 DEF x, y
  <2> HIDE DEF U, B, F, N, S, UU, BB, FF, NN, SS, m
  <2>7. ClassifyReaction(d, m, "ABOVE") = ClassifyReaction(c, level, "BELOW")
    BY <1>1, <1>2, <2>2, <2>3, <2>5, <2>6
  <2>8. QED
    BY <2>7 DEF m
<1>8. QED
  BY <1>6, <1>7

\* The recent candles of the turned day are the recent candles turned.
LEMMA RecentFlips ==
  ASSUME NEW x, NEW y, Mirrored(Closed(x), Closed(y)), Priced(Closed(x))
  PROVE  Mirrored(Recent(x), Recent(y)) /\ Priced(Recent(x))
<1> DEFINE c == Closed(x)
           d == Closed(y)
           n == Len(c)
           a == Max({1, n - 9})
           r == SubSeq(c, a, n)
<1>1. Mirrored(c, d) /\ Priced(c)
  OBVIOUS
<1>2. n \in Nat /\ Len(d) = n /\ c \in Seq(CandleType)
  BY <1>1, LenProperties DEF Mirrored
<1>3. Recent(x) = r /\ Recent(y) = SubSeq(d, a, n)
  BY <1>2 DEF Recent
<1> HIDE DEF c, d, n
<1>4. a \in Int /\ 1 <= a
  <2>1. 1 \in Int /\ n - 9 \in Int
    BY <1>2
  <2>2. /\ 1 <= n - 9 => Max({1, n - 9}) = n - 9
        /\ n - 9 <= 1 => Max({1, n - 9}) = 1
    BY <2>1, EndsAre
  <2>3. 1 <= n - 9 \/ n - 9 <= 1
    BY <1>2
  <2> HIDE DEF a
  <2>4. (1 <= n - 9 => a = n - 9) /\ (n - 9 <= 1 => a = 1)
    BY <2>2 DEF a
  <2>5. QED
    BY <2>1, <2>3, <2>4
<1> HIDE DEF a
<1>5. Mirrored(r, SubSeq(d, a, n)) /\ Len(r) = IF a <= n THEN n - a + 1 ELSE 0
  <2>1. n \in Int /\ n <= Len(c)
    BY <1>2 DEF n
  <2>2. QED
    BY <1>1, <1>4, <2>1, MirrorPart
<1>6. Priced(r)
  <2>1. \A i \in a .. n : c[i] \in CandleType
    <3>1. \A i \in 1 .. n : c[i] \in CandleType
      BY <1>2, ElementOfSeq DEF n
    <3>2. QED
      BY <1>2, <1>4, <3>1
  <2>2. \A i \in 1 .. n - a + 1 : r[i] = c[a + i - 1]
    BY <1>2, <1>4, <2>1, SubSeqProperties
  <2>3. \A i \in 1 .. Len(r) : i \in 1 .. n - a + 1 /\ a + i - 1 \in 1 .. n
    BY <1>2, <1>4, <1>5
  <2>4. \A i \in 1 .. n : c[i].high \in Levels /\ c[i].low \in Levels
    BY <1>1 DEF Priced, n
  <2> HIDE DEF r
  <2>5. \A i \in 1 .. Len(r) : r[i].high \in Levels /\ r[i].low \in Levels
    BY <2>2, <2>3, <2>4
  <2>6. QED
    BY <2>5 DEF Priced
<1>7. QED
  BY <1>3, <1>5, <1>6

\* The extremes of the candles of a payload are among the levels.
LEMMA PricedUnderlying ==
  ASSUME Mirrorable, NEW p \in Seq(ShapedBars), NEW n \in Nat, StartsOf(p) = 0 .. n - 1, NEW a \in Int
  PROVE  Priced(Closed(BuildUnderlying(p, a)))
<1> DEFINE c == BuildUnderlying(p, a)
           e == Ended(n, a)
<1>1. p \in Seq(BarType)
  BY ShapedSeq
<1>2. Len(Closed(c)) = e /\ e <= Seen(n, a) /\ \A i \in 1 .. e : Closed(c)[i] = c[i]
  BY <1>1, ClosedUnderlying
<1>3. e \in Nat /\ Seen(n, a) \in Nat
  BY DEF Ended, Seen
<1> HIDE DEF c, e
<1>4. ASSUME NEW i \in 1 .. e
      PROVE  Closed(c)[i].high \in Levels /\ Closed(c)[i].low \in Levels
  <2>1. i \in 1 .. Seen(n, a)
    BY <1>2, <1>3
  <2>2. i - 1 \in StartsOf(p) /\ c[i] = BuildCandle(p[LastSent(p, i - 1)], a)
    BY <1>1, <2>1, UnderlyingAt DEF c
  <2>3. LastSent(p, i - 1) \in 1 .. Len(p)
    BY <1>1, <2>2, LastSentIs
  <2> DEFINE b == p[LastSent(p, i - 1)]
  <2>4. b \in ShapedBars
    BY <2>3, ElementOfSeq
  <2>5. b.high \in Levels /\ b.low \in Levels
    BY <2>4, ShapedAre
  <2> HIDE DEF b
  <2>6. c[i].high = b.high /\ c[i].low = b.low
    BY <2>2 DEF BuildCandle, b
  <2>7. QED
    BY <1>2, <2>5, <2>6
<1>5. QED
  BY <1>2, <1>4 DEF Priced, c

\* A level of the day has, turned, the same reaction.
LEMMA ReactionFlips ==
  ASSUME Mirrorable, NEW c, NEW d, Mirrored(c, d), Priced(c), NEW level \in Levels, NEW price \in Nat,
         level # price
  PROVE  ClassifyReaction(d, Mirror - level, Side(Mirror - level, Mirror - price))
           = ClassifyReaction(c, level, Side(level, price))
<1>1. level \in Nat /\ Mirror \in Nat
  BY LevelsAre, FeedAssumption
<1>2. CASE level < price
  <2>1. Side(level, price) = "BELOW" /\ Side(Mirror - level, Mirror - price) = "ABOVE"
    BY <1>1, <1>2 DEF Side
  <2>2. QED
    BY <2>1, ReactionFlipsBelow
<1>3. CASE price < level
  <2>1. Side(level, price) = "ABOVE" /\ Side(Mirror - level, Mirror - price) = "BELOW"
    BY <1>1, <1>3 DEF Side
  <2>2. QED
    BY <2>1, ReactionFlipsAbove
<1>4. QED
  BY <1>1, <1>2, <1>3

\* So every session level has its mirror image among the reactions of the turned day.
LEMMA ReactionsFlip ==
  ASSUME Mirrorable, NEW x, NEW y, Mirrored(Closed(x), Closed(y)), Priced(Closed(x)),
         NEW s \in Seq(LabeledType), NEW t \in Seq(LabeledType), NEW price \in Nat,
         NEW i \in DOMAIN ClassifyReactionsAtZones(IdentifyLiquidityZones(x, s), x, price)
  PROVE  LET here == ClassifyReactionsAtZones(IdentifyLiquidityZones(x, s), x, price)
             image == ClassifyReactionsAtZones(IdentifyLiquidityZones(y, t), y, Mirror - price)
         IN here[i].kind \in LevelKinds /\ here[i].level # price =>
              \E j \in DOMAIN image :
                image[j] = [kind |-> MirrorKind[here[i].kind], level |-> Mirror - here[i].level,
                            reaction |-> here[i].reaction]
<1> DEFINE u == IdentifyLiquidityZones(x, s)
           v == IdentifyLiquidityZones(y, t)
           q == Mirror - price
           here == ClassifyReactionsAtZones(u, x, price)
           image == ClassifyReactionsAtZones(v, y, q)
           c == Closed(x)
           d == Closed(y)
<1>1. Mirrored(c, d) /\ Priced(c) /\ c \in Seq(CandleType) /\ d \in Seq(CandleType)
  BY DEF Mirrored
<1>2. /\ u \in Seq(ZoneType)
      /\ \A w \in Range(u) : w.kind \in LevelKinds => w \in Range(LevelZones(x))
  BY <1>1, ZonesAre
<1>3. v \in Seq(ZoneType) /\ Range(LevelZones(y)) \subseteq Range(v)
  BY <1>1, ZonesAre
<1>4. \A w : w \in Range(LevelZones(x)) <=>
        \E k \in LevelKinds : LevelOf(c, k) # None /\ w = [kind |-> k, level |-> LevelOf(c, k)]
  BY <1>1, LevelZonesAre
<1>5. \A w : w \in Range(LevelZones(y)) <=>
        \E k \in LevelKinds : LevelOf(d, k) # None /\ w = [kind |-> k, level |-> LevelOf(d, k)]
  BY <1>1, LevelZonesAre
<1>6. Mirrored(Recent(x), Recent(y)) /\ Priced(Recent(x))
  BY RecentFlips
<1> HIDE DEF u, v, c, d
<1>7. /\ here \in Reactions /\ Len(here) = Len(u)
      /\ \A k \in 1 .. Len(u) :
           here[k] = [kind |-> u[k].kind, level |-> u[k].level,
                      reaction |-> ClassifyReaction(Recent(x), u[k].level, Side(u[k].level, price))]
  BY <1>2, ReactionsAre
<1>8. /\ image \in Reactions /\ Len(image) = Len(v)
      /\ \A k \in 1 .. Len(v) :
           image[k] = [kind |-> v[k].kind, level |-> v[k].level,
                       reaction |-> ClassifyReaction(Recent(y), v[k].level, Side(v[k].level, q))]
  BY <1>3, ReactionsAre
<1>9. DOMAIN here = 1 .. Len(u) /\ DOMAIN image = 1 .. Len(v)
      /\ DOMAIN u = 1 .. Len(u) /\ DOMAIN v = 1 .. Len(v)
  BY <1>2, <1>3, <1>7, <1>8, LenProperties DEF Reactions
<1>10. i \in 1 .. Len(u)
  BY <1>9 DEF u
<1> HIDE DEF here, image
<1>11. SUFFICES ASSUME here[i].kind \in LevelKinds, here[i].level # price
                PROVE  \E j \in DOMAIN image :
                         image[j] = [kind |-> MirrorKind[here[i].kind],
                                     level |-> Mirror - here[i].level,
                                     reaction |-> here[i].reaction]
  BY DEF here, image, u, v, q
<1>12. here[i].kind = u[i].kind /\ here[i].level = u[i].level
       /\ here[i].reaction = ClassifyReaction(Recent(x), u[i].level, Side(u[i].level, price))
  <2>1. here[i] = [kind |-> u[i].kind, level |-> u[i].level,
                   reaction |-> ClassifyReaction(Recent(x), u[i].level, Side(u[i].level, price))]
    BY <1>7, <1>10
  <2>2. QED
    BY <2>1
<1>13. u[i] \in Range(u)
  BY <1>9, <1>10 DEF Range
<1>14. u[i] \in Range(LevelZones(x))
  BY <1>2, <1>11, <1>12, <1>13
<1>15. PICK k \in LevelKinds : LevelOf(c, k) # None
                               /\ u[i] = [kind |-> k, level |-> LevelOf(c, k)]
  BY <1>4, <1>14
<1> DEFINE l == LevelOf(c, k)
           m == MirrorKind[k]
<1>16. m \in LevelKinds /\ LevelOf(d, m) = MirrorPrice(l) /\ l \in Levels
  BY <1>1, <1>15, LevelFlips
<1>17. u[i].kind = k /\ u[i].level = l
  BY <1>15
<1> HIDE DEF l, m
<1>18. l \in Nat /\ Mirror - l \in Nat
  BY <1>16, LevelsAre
<1>19. MirrorPrice(l) = Mirror - l /\ Mirror - l # None
  BY <1>18, MirrorPriceIs, NoneAssumption
<1>20. [kind |-> m, level |-> Mirror - l] \in Range(v)
  BY <1>3, <1>5, <1>16, <1>19
<1>21. PICK j \in 1 .. Len(v) : v[j] = [kind |-> m, level |-> Mirror - l]
  BY <1>9, <1>20 DEF Range
<1>22. image[j] = [kind |-> m, level |-> Mirror - l,
                   reaction |-> ClassifyReaction(Recent(y), Mirror - l, Side(Mirror - l, q))]
  BY <1>8, <1>21
<1>23. ClassifyReaction(Recent(y), Mirror - l, Side(Mirror - l, q)) = here[i].reaction
  BY <1>6, <1>11, <1>12, <1>16, <1>17, ReactionFlips
<1>24. image[j] = [kind |-> MirrorKind[here[i].kind], level |-> Mirror - here[i].level,
                   reaction |-> here[i].reaction]
  BY <1>12, <1>17, <1>22, <1>23 DEF m
<1>25. QED
  BY <1>9, <1>21, <1>24

\* The labelled swings of the turned candles are the swings turned, when nothing is
\* tied.
LEMMA SwingsFlip ==
  ASSUME NEW x, NEW y, Mirrored(Closed(x), Closed(y)), NEW a, Untied(SwingsOf(x, a))
  PROVE  FlippedLabels(SwingsOf(x, a), SwingsOf(y, a))
<1> DEFINE s == FindSwings(x, a)
           w == ClassifyStructure(s)
<1>1. s \in Seq(SwingType)
  BY SwingsType DEF Mirrored
<1>2. Untied(w)
  BY DEF SwingsOf
<1> HIDE DEF s
<1>3. /\ w \in Seq(LabeledType) /\ Len(w) = Len(s)
      /\ \A i \in 1 .. Len(s) : w[i] = [kind |-> s[i].kind, index |-> s[i].index,
                                        price |-> s[i].price, label |-> Label(s, i)]
  BY <1>1, ClassifyStructureIs
<1> HIDE DEF w
<1>4. DOMAIN w = 1 .. Len(s)
  BY <1>3, LenProperties
<1>5. \A i \in 1 .. Len(s) : w[i].kind = s[i].kind /\ w[i].index = s[i].index
                             /\ w[i].price = s[i].price
  <2> TAKE i \in 1 .. Len(s)
  <2>1. w[i] = [kind |-> s[i].kind, index |-> s[i].index, price |-> s[i].price,
                label |-> Label(s, i)]
    BY <1>3
  <2>2. QED
    BY <2>1
<1>6. /\ \A i, j \in 1 .. Len(s) : i < j => s[i].index # s[j].index
      /\ \A i, j \in 1 .. Len(s) : i < j /\ s[i].kind = s[j].kind => s[i].price # s[j].price
  BY <1>2, <1>4, <1>5 DEF Untied
<1>7. Flipped(s, FindSwings(y, a))
  BY <1>6, FlippedSwings DEF s
<1>8. FlippedLabels(ClassifyStructure(s), ClassifyStructure(FindSwings(y, a)))
  BY <1>6, <1>7, LabelsFlip
<1>9. QED
  BY <1>8 DEF SwingsOf, s

\* Turned upside down, the same day gives the opposite bias, the mirrored
\* invalidations, the same pullback and the same reaction at every mirrored level.
THEOREM NeitherSideFavoured == Mirrorable => (Spec => []MirrorImage)
<1> SUFFICES ASSUME Mirrorable PROVE Spec => []MirrorImage
  OBVIOUS
<1>1. IInv /\ Shaped => MirrorImage
  <2> SUFFICES ASSUME IInv, Shaped, payload # << >>, Untied(Swings)
               PROVE  MirrorImage
    BY DEF MirrorImage
  <2> DEFINE n == Cardinality(Starts)
             bars == MirrorBars(payload)
             x == Candles
             y == BuildUnderlying(bars, asOf)
             ltp == LtpOf(payload)
             s == SwingsOf(x, asOf)
             t == SwingsOf(y, asOf)
             q == LtpOf(bars)
             image == AnalyzeStructure(y, asOf, q)
             here == AnalyzeStructure(x, asOf, ltp)
  <2>1. payload \in Seq(ShapedBars)
    BY DEF Shaped
  <2>2. asOf \in Int /\ n \in Nat /\ StartsOf(payload) = 0 .. n - 1
    BY CandlesOfPayload
  <2> HIDE DEF n
  <2>3. Mirrored(Closed(x), Closed(y)) /\ Priced(Closed(x))
    BY <2>1, <2>2, MirrorUnderlying, PricedUnderlying DEF Candles
  <2>4. ltp \in Nat /\ Mirror - ltp \in Nat /\ q = Mirror - ltp
    BY <2>1, <2>2, MirrorLtp
  <2>5. Untied(s)
    BY DEF Swings
  <2>6. bars = AsSeq([i \in DOMAIN payload |-> MirrorBar(payload[i])])
    BY DEF MirrorBars
  <2>7. Analysis = here
    BY DEF Analysis
  <2>8. MirrorImage <=>
          /\ image.bias = MirrorBias(here.bias)
          /\ image.invalidation_long = MirrorPrice(here.invalidation_short)
          /\ image.invalidation_short = MirrorPrice(here.invalidation_long)
          /\ image.pullback = here.pullback
          /\ \A i \in DOMAIN here.reactions :
               LET r == here.reactions[i]
               IN r.kind \in LevelKinds /\ r.level # here.ltp =>
                    \E j \in DOMAIN image.reactions :
                      image.reactions[j] = [kind |-> MirrorKind[r.kind],
                                            level |-> Mirror - r.level,
                                            reaction |-> r.reaction]
    BY <2>6, <2>7 DEF MirrorImage, LevelKinds
  <2>9. /\ here.bias = TrendBias(s) /\ here.ltp = ltp
        /\ here.invalidation_long = LastPrice(s, "LOW")
        /\ here.invalidation_short = LastPrice(s, "HIGH")
        /\ here.pullback = DerivePullback(s, ltp)
        /\ here.reactions = ClassifyReactionsAtZones(IdentifyLiquidityZones(x, s), x, ltp)
    BY DEF AnalyzeStructure, SwingsOf
  <2>10. /\ image.bias = TrendBias(t)
         /\ image.invalidation_long = LastPrice(t, "LOW")
         /\ image.invalidation_short = LastPrice(t, "HIGH")
         /\ image.pullback = DerivePullback(t, q)
         /\ image.reactions = ClassifyReactionsAtZones(IdentifyLiquidityZones(y, t), y, q)
    BY DEF AnalyzeStructure, SwingsOf
  <2> HIDE DEF bars, x, y, ltp, q, image, here
  <2>11. FlippedLabels(s, t)
    BY <2>3, <2>5, SwingsFlip
  <2> HIDE DEF s, t
  <2>12. TrendBias(t) = MirrorBias(TrendBias(s))
    BY <2>11, BiasFlips
  <2>13. /\ LastPrice(t, "LOW") = MirrorPrice(LastPrice(s, "HIGH"))
         /\ LastPrice(t, "HIGH") = MirrorPrice(LastPrice(s, "LOW"))
    <3>1. FlipKind("HIGH") = "LOW" /\ FlipKind("LOW") = "HIGH"
      BY DEF FlipKind
    <3>2. QED
      BY <2>11, <3>1, LastPriceFlips
  <2>14. DerivePullback(t, q) = DerivePullback(s, ltp)
    BY <2>4, <2>11, PullbackFlips
  <2>15. s \in Seq(LabeledType) /\ t \in Seq(LabeledType)
    BY <2>11 DEF FlippedLabels
  <2>16. ASSUME NEW i \in DOMAIN here.reactions
         PROVE  LET r == here.reactions[i]
                IN r.kind \in LevelKinds /\ r.level # here.ltp =>
                     \E j \in DOMAIN image.reactions :
                       image.reactions[j] = [kind |-> MirrorKind[r.kind],
                                             level |-> Mirror - r.level,
                                             reaction |-> r.reaction]
    BY <2>3, <2>4, <2>9, <2>10, <2>15, ReactionsFlip
  <2>17. QED
    BY <2>8, <2>9, <2>10, <2>12, <2>13, <2>14, <2>16
<1>2. QED
  BY <1>1, FeedInvariant, BarsKeepTheirShape, PTL
=============================================================================
