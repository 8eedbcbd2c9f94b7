---------------------------- MODULE NaturalSets ----------------------------
(***************************************************************************)
(* The least and the greatest member of a set of naturals, which the code  *)
(* takes with min, max, ORDER BY ... LIMIT 1 and first-of-sorted, and the  *)
(* member of a given rank, which it takes by sorting and indexing.         *)
(***************************************************************************)
EXTENDS Integers, FiniteSetsExt, FiniteSetTheorems, WellFoundedInduction, TLAPS

\* A set of naturals that is not empty has a least member.
LEMMA Least ==
  ASSUME NEW T \in SUBSET Nat, T # {}
  PROVE  \E n \in T : \A m \in T : n <= m
<1> DEFINE R == OpToRel(<, Nat)
<1>1. PICK n \in T : \A m \in T : ~(<<m, n>> \in R)
  <2> HIDE DEF R
  <2> QED
    BY NatLessThanWellFounded, WFMin DEF R
<1>2. R = {ss \in Nat \X Nat : ss[1] < ss[2]}
  BY DEF OpToRel
<1> HIDE DEF R
<1>3. \A m \in T : n <= m
  <2> SUFFICES ASSUME NEW m \in T, m < n PROVE FALSE
    OBVIOUS
  <2>1. <<m, n>> \in Nat \X Nat /\ <<m, n>>[1] < <<m, n>>[2]
    OBVIOUS
  <2>2. <<m, n>> \in R
    BY <1>2, <2>1
  <2> QED
    BY <1>1, <2>2
<1> QED
  BY <1>3

\* One that is bounded has a greatest member too.
LEMMA Greatest ==
  ASSUME NEW n \in Nat, NEW S \in SUBSET (0..n), S # {}
  PROVE  \E i \in S : \A j \in S : j <= i
<1> DEFINE T == {m \in Nat : n - m \in S}
<1>1. PICK k \in S : TRUE
  OBVIOUS
<1>2. n - k \in T
  OBVIOUS
<1>3. PICK m \in T : \A l \in T : m <= l
  BY <1>2, Least
<1>4. \A j \in S : n - j \in T
  OBVIOUS
<1>5. n - m \in S /\ m \in Nat
  OBVIOUS
<1>6. \A j \in S : j <= n - m
  <2> SUFFICES ASSUME NEW j \in S PROVE j <= n - m
    OBVIOUS
  <2>1. n - j \in T
    BY <1>4
  <2> HIDE DEF T
  <2>2. m <= n - j
    BY <1>3, <2>1
  <2>3. j \in Nat /\ n \in Nat
    OBVIOUS
  <2> QED
    BY <1>5, <2>2, <2>3
<1> QED
  BY <1>5, <1>6

\* FiniteSetsExt's Min is the least member.
LEMMA MinIs ==
  ASSUME NEW S \in SUBSET Nat, S # {}
  PROVE  Min(S) \in S /\ \A m \in S : Min(S) <= m
BY Least DEF Min

\* Its Max is the greatest one of a bounded set.
LEMMA MaxIs ==
  ASSUME NEW n \in Nat, NEW S \in SUBSET (0..n), S # {}
  PROVE  Max(S) \in S /\ \A m \in S : m <= Max(S)
<1>1. PICK i \in S : \A j \in S : j <= i
  BY Greatest
<1>2. \A j \in S : j \in Nat
  OBVIOUS
<1>3. \A j \in S : i >= j
  BY <1>1, <1>2
<1>4. Max(S) \in S /\ \A j \in S : Max(S) >= j
  BY <1>3 DEF Max
<1> QED
  BY <1>2, <1>4

\* Of two numbers.
LEMMA OfTwo ==
  ASSUME NEW a \in Int, NEW b \in Int
  PROVE  /\ Min({a, b}) = IF a <= b THEN a ELSE b
         /\ Max({a, b}) = IF a <= b THEN b ELSE a
<1>1. \E x \in {a, b} : \A y \in {a, b} : x <= y
  OBVIOUS
<1>2. \E x \in {a, b} : \A y \in {a, b} : x >= y
  OBVIOUS
<1> QED
  BY <1>1, <1>2 DEF Min, Max

-----------------------------------------------------------------------------
(* A finite set N, strictly and totally ordered by R.                      *)

StrictOrder(N, R) ==
  /\ \A x \in N : <<x, x>> \notin R
  /\ \A x, y, z \in N : <<x, y>> \in R /\ <<y, z>> \in R => <<x, z>> \in R
  /\ \A x, y \in N : x = y \/ <<x, y>> \in R \/ <<y, x>> \in R

Lower(N, R, x) == {y \in N : <<y, x>> \in R}

\* The lower members of a lower member are fewer.
LEMMA LowerShrinks ==
  ASSUME NEW N, IsFiniteSet(N), NEW R, StrictOrder(N, R), NEW x \in N, NEW y \in Lower(N, R, x)
  PROVE  Cardinality(Lower(N, R, y)) < Cardinality(Lower(N, R, x))
<1>1. Lower(N, R, x) \subseteq N /\ Lower(N, R, y) \subseteq N
  BY DEF Lower
<1>2. y \in N /\ y \notin Lower(N, R, y) /\ Lower(N, R, y) \subseteq Lower(N, R, x)
  BY DEF Lower, StrictOrder
<1>3. IsFiniteSet(Lower(N, R, x))
  BY <1>1, FS_Subset
<1>4. Lower(N, R, y) # Lower(N, R, x)
  BY <1>2
<1>5. /\ Cardinality(Lower(N, R, y)) <= Cardinality(Lower(N, R, x))
      /\ Cardinality(Lower(N, R, y)) # Cardinality(Lower(N, R, x))
      /\ Cardinality(Lower(N, R, y)) \in Nat /\ Cardinality(Lower(N, R, x)) \in Nat
  BY <1>2, <1>3, <1>4, FS_Subset, FS_CardinalityType
<1> QED
  BY <1>5

\* Any part of it has a lowest member.
LEMMA Lowest ==
  ASSUME NEW N, IsFiniteSet(N), NEW R, StrictOrder(N, R), NEW M \in SUBSET N, M # {}
  PROVE  \E x \in M : \A y \in M : y = x \/ <<x, y>> \in R
<1> DEFINE rank(x) == Cardinality(Lower(N, R, x))
<1>1. \A x \in N : rank(x) \in Nat
  <2>1. \A x \in N : IsFiniteSet(Lower(N, R, x))
    BY FS_Subset DEF Lower
  <2> QED
    BY <2>1, FS_CardinalityType
<1> DEFINE T == {rank(x) : x \in M}
<1>2. T \in SUBSET Nat /\ T # {}
  BY <1>1
<1>3. PICK n \in T : \A m \in T : n <= m
  BY <1>2, Least
<1>4. PICK x \in M : n = rank(x)
  OBVIOUS
<1>5. \A y \in M : rank(x) <= rank(y)
  BY <1>3, <1>4
<1>6. ASSUME NEW y \in M, <<y, x>> \in R PROVE FALSE
  <2>1. y \in Lower(N, R, x)
    BY <1>6 DEF Lower
  <2>2. rank(y) < rank(x)
    BY <2>1, LowerShrinks
  <2>3. rank(x) \in Nat /\ rank(y) \in Nat /\ rank(x) <= rank(y)
    BY <1>1, <1>5
  <2> HIDE DEF rank
  <2> QED
    BY <2>2, <2>3
<1> QED
  BY <1>6 DEF StrictOrder

\* There is a member of every rank below the size of the set.
LEMMA HasRank ==
  ASSUME NEW N, IsFiniteSet(N), NEW R, StrictOrder(N, R), NEW k \in Nat, k < Cardinality(N)
  PROVE  \E x \in N : Cardinality(Lower(N, R, x)) = k
<1> DEFINE rank(x) == Cardinality(Lower(N, R, x))
<1>0. \A x \in N : IsFiniteSet(Lower(N, R, x)) /\ rank(x) \in Nat
  <2>1. \A x \in N : IsFiniteSet(Lower(N, R, x))
    BY FS_Subset DEF Lower
  <2> QED
    BY <2>1, FS_CardinalityType
<1>1. N # {} /\ Cardinality(N) \in Nat
  BY FS_EmptySet, FS_CardinalityType
<1>2. \E x \in N : rank(x) = 0
  <2>1. PICK x \in N : \A y \in N : y = x \/ <<x, y>> \in R
    BY <1>1, Lowest
  <2>2. Lower(N, R, x) = {}
    BY <2>1 DEF Lower, StrictOrder
  <2> QED
    BY <2>1, <2>2, FS_EmptySet
<1> DEFINE S == {r \in 0..k : \E x \in N : rank(x) = r}
<1>3. S \in SUBSET (0..k) /\ S # {}
  <2>1. 0 \in 0..k
    OBVIOUS
  <2> QED
    BY <1>2, <2>1
<1>4. PICK r \in S : \A q \in S : q <= r
  BY <1>3, Greatest
<1>5. PICK x \in N : rank(x) = r
  OBVIOUS
<1>6. r \in Nat /\ r <= k
  OBVIOUS
<1>7. CASE r < k
  <2> DEFINE L == Lower(N, R, x) \cup {x}
  <2>1. IsFiniteSet(L) /\ Cardinality(L) = r + 1 /\ L \subseteq N
    <3>1. x \notin Lower(N, R, x) /\ L \subseteq N
      BY DEF Lower, StrictOrder
    <3> QED
      BY <1>0, <1>5, <3>1, FS_AddElement
  <2>2. N \ L # {}
    <3> SUFFICES ASSUME N \ L = {} PROVE FALSE
      OBVIOUS
    <3>1. N = L
      BY <2>1
    <3> HIDE DEF L, S, rank
    <3> QED
      BY <1>1, <1>6, <1>7, <2>1, <3>1
  <2>3. PICK y \in N \ L : \A z \in N \ L : z = y \/ <<y, z>> \in R
    <3> DEFINE M == N \ L
    <3>1. M \in SUBSET N /\ M # {}
      BY <2>2
    <3> HIDE DEF L, M, S, rank
    <3>2. \E y \in M : \A z \in M : z = y \/ <<y, z>> \in R
      BY <3>1, Lowest
    <3> QED
      BY <3>2 DEF M
  <2>4. Lower(N, R, y) = L
    <3>1. <<x, y>> \in R
      BY <2>3 DEF Lower, StrictOrder
    <3>2. L \subseteq Lower(N, R, y)
      BY <2>3, <3>1 DEF Lower, StrictOrder
    <3>3. ASSUME NEW z \in Lower(N, R, y), z \notin L PROVE FALSE
      <4>1. z \in N \ L /\ <<z, y>> \in R
        BY <3>3 DEF Lower
      <4>2. z = y \/ <<y, z>> \in R
        BY <2>3, <4>1
      <4> HIDE DEF L
      <4> QED
        BY <2>3, <4>1, <4>2 DEF StrictOrder
    <3> QED
      BY <3>2, <3>3
  <2>5. rank(y) = r + 1
    BY <2>1, <2>4
  <2> HIDE DEF L, rank
  <2>6. r + 1 \in S
    BY <1>6, <1>7, <2>3, <2>5
  <2> HIDE DEF S
  <2> QED
    BY <1>4, <1>6, <2>6
<1>8. CASE r = k
  BY <1>5, <1>8
<1> QED
  BY <1>6, <1>7, <1>8

=============================================================================
