------------------------------- MODULE NatSets -------------------------------
(***************************************************************************)
(* Sets of naturals.  What Min and Max of FiniteSetsExt, by which the      *)
(* models pick a port, a batch length or a prefix of a page, can be relied *)
(* on to return; induction over the naturals in a form with a set in the   *)
(* place of a predicate; and that the elements of a finite set which is in *)
(* strict total order are numbered by how many come before them.           *)
(***************************************************************************)
EXTENDS Naturals, FiniteSets, FiniteSetsExt, FiniteSetTheorems, FunctionTheorems,
        WellFoundedInduction, TLAPS

\* Min of a non-empty set of naturals is its least element.
LEMMA MinProperties ==
  ASSUME NEW S \in SUBSET Nat, S # {}
  PROVE  Min(S) \in S /\ \A x \in S : Min(S) <= x
  <1> DEFINE R == OpToRel(<, Nat)
  <1>1. IsWellFoundedOn(R, Nat)
    BY NatLessThanWellFounded
  <1>2. PICK m \in S : \A x \in S : <<x, m>> \notin R
    <2> HIDE DEF R
    <2> QED
      BY <1>1, WFMin
  <1>3. \A x \in S : ~(x < m)
    BY <1>2 DEF OpToRel
  <1>4. \A x \in S : m <= x
    BY <1>3
  <1> QED
    BY <1>4 DEF Min

\* Max of a non-empty set of naturals below a bound is its greatest element.
LEMMA MaxProperties ==
  ASSUME NEW k \in Nat, NEW S \in SUBSET (0 .. k), S # {}
  PROVE  Max(S) \in S /\ \A x \in S : x <= Max(S)
  <1> DEFINE Bounds == {b \in Nat : \A x \in S : x <= b}
  <1>1. Bounds \in SUBSET Nat /\ k \in Bounds
    OBVIOUS
  <1>2. PICK b \in Bounds : \A c \in Bounds : b <= c
    <2> HIDE DEF Bounds
    <2> QED
      BY <1>1, MinProperties
  <1>3. b \in S
    <2> SUFFICES ASSUME b \notin S PROVE FALSE
      OBVIOUS
    <2>1. \A x \in S : x < b
      BY <1>2
    <2>2. b \in Nat /\ b > 0 /\ \A x \in S : x <= b - 1
      <3>1. PICK y \in S : y < b
        BY <2>1
      <3> QED
        BY <2>1, <3>1
    <2>3. b - 1 \in Bounds
      BY <2>2
    <2> QED
      BY <1>2, <2>2, <2>3
  <1>4. \A x \in S : b >= x
    BY <1>2
  <1> QED
    BY <1>3, <1>4 DEF Max

\* A function to the naturals is least somewhere.
LEMMA LeastArgument ==
  ASSUME NEW I, I # {}, NEW f \in [I -> Nat]
  PROVE  \E m \in I : \A i \in I : f[m] <= f[i]
  <1> DEFINE S == {f[i] : i \in I}
  <1>1. S \in SUBSET Nat /\ S # {}
    OBVIOUS
  <1>2. Min(S) \in S /\ \A x \in S : Min(S) <= x
    <2> HIDE DEF S
    <2> QED
      BY <1>1, MinProperties
  <1>3. PICK m \in I : f[m] = Min(S)
    BY <1>2
  <1> QED
    BY <1>2, <1>3

\* A set with 0 in it and with the successor of each natural in it has them all.
LEMMA NatSetInduction ==
  ASSUME NEW S, 0 \in S, \A n \in Nat : n \in S => n + 1 \in S
  PROVE  Nat \subseteq S
  <1> SUFFICES ASSUME Nat \ S # {} PROVE FALSE
    OBVIOUS
  <1> DEFINE m == Min(Nat \ S)
  <1>1. m \in Nat \ S /\ \A x \in Nat \ S : m <= x
    BY MinProperties
  <1>2. m # 0 /\ m - 1 \in Nat /\ m - 1 \in S
    BY <1>1
  <1> HIDE DEF m
  <1> QED
    BY <1>1, <1>2

\* A function to the naturals is greatest somewhere among finitely many positions.
LEMMA GreatestArgument ==
  ASSUME NEW n \in Nat, NEW f, NEW I \in SUBSET (1 .. n), I # {}, \A i \in I : f[i] \in Nat
  PROVE  \E m \in I : \A i \in I : f[i] <= f[m]
  <1> DEFINE Has(J) == \E m \in J : \A i \in J : f[i] <= f[m]
             S == {k \in Nat : \A J \in SUBSET (I \cap (1 .. k)) : J # {} => Has(J)}
  <1>1. 0 \in S
    <2>1. I \cap (1 .. 0) = {}
      OBVIOUS
    <2> HIDE DEF Has
    <2> QED
      BY <2>1
  <1>2. ASSUME NEW k \in Nat, k \in S
        PROVE  k + 1 \in S
    <2> SUFFICES ASSUME NEW J \in SUBSET (I \cap (1 .. k + 1)), J # {}
                 PROVE  Has(J)
      BY DEF S
    <2> DEFINE K == J \ {k + 1}
    <2>1. K \in SUBSET (I \cap (1 .. k))
      OBVIOUS
    <2>2. CASE K = {}
      <3>1. J = {k + 1} /\ f[k + 1] \in Nat
        BY <2>2
      <3> QED
        BY <3>1
    <2>3. CASE K # {}
      <3>1. PICK m \in K : \A i \in K : f[i] <= f[m]
        BY <1>2, <2>1, <2>3
      <3>2. CASE k + 1 \in J /\ f[m] <= f[k + 1]
        <4>1. \A i \in J : f[i] \in Nat /\ (i \in K \/ i = k + 1)
          OBVIOUS
        <4>2. \A i \in J : f[i] <= f[k + 1]
          BY <3>1, <3>2, <4>1
        <4> QED
          BY <3>2, <4>2
      <3>3. CASE k + 1 \in J /\ ~(f[m] <= f[k + 1])
        <4>1. f[m] \in Nat /\ f[k + 1] \in Nat /\ m \in J
          BY <3>3
        <4>2. \A i \in J : f[i] <= f[m]
          BY <3>1, <3>3, <4>1
        <4> QED
          BY <4>1, <4>2
      <3>4. CASE k + 1 \notin J
        BY <3>1, <3>4
      <3> QED
        BY <3>2, <3>3, <3>4
    <2> QED
      BY <2>2, <2>3
  <1>3. n \in S
    <2> HIDE DEF S
    <2> QED
      BY <1>1, <1>2, NatSetInduction
  <1> QED
    BY <1>3

\* How many elements of I come before i.
Rank(I, before, i) == Cardinality({j \in I : <<j, i>> \in before})

\* before is a strict total order on I.
TotalOrder(I, before) ==
  /\ \A i \in I : <<i, i>> \notin before
  /\ \A i, j \in I : i = j \/ <<i, j>> \in before \/ <<j, i>> \in before
  /\ \A i, j, k \in I : <<i, j>> \in before /\ <<j, k>> \in before => <<i, k>> \in before

\* The ranks grow along the order.
LEMMA RanksGrow ==
  ASSUME NEW I, IsFiniteSet(I), NEW before, TotalOrder(I, before),
         NEW i \in I
  PROVE  /\ Rank(I, before, i) \in 0 .. Cardinality(I) - 1
         /\ \A j \in I : <<i, j>> \in before => Rank(I, before, i) < Rank(I, before, j)
  <1> DEFINE Below(x) == {j \in I : <<j, x>> \in before}
  <1>1. ASSUME NEW x \in I
        PROVE  IsFiniteSet(Below(x)) /\ Cardinality(Below(x)) \in Nat
    BY FS_Subset, FS_CardinalityType
  <1>2. Cardinality(Below(i)) < Cardinality(I)
    <2>1. Below(i) \in SUBSET I /\ Below(i) # I
      BY DEF TotalOrder
    <2>2. Cardinality(Below(i)) \in Nat /\ Cardinality(I) \in Nat
      BY <1>1, FS_CardinalityType
    <2> HIDE DEF Below
    <2>3. Cardinality(Below(i)) <= Cardinality(I) /\ Cardinality(Below(i)) # Cardinality(I)
      BY <2>1, FS_Subset
    <2> QED
      BY <2>2, <2>3
  <1>3. ASSUME NEW j \in I, <<i, j>> \in before
        PROVE  Cardinality(Below(i)) < Cardinality(Below(j))
    <2>1. Below(i) \in SUBSET Below(j)
      BY <1>3 DEF TotalOrder
    <2>2. i \in Below(j) /\ i \notin Below(i)
      BY <1>3 DEF TotalOrder
    <2> HIDE DEF Below
    <2>3. Cardinality(Below(i)) <= Cardinality(Below(j)) /\ Cardinality(Below(i)) # Cardinality(Below(j))
      BY <2>1, <2>2, <1>1, FS_Subset
    <2> QED
      BY <2>3, <1>1
  <1>4. Cardinality(I) \in Nat
    BY FS_CardinalityType
  <1> QED
    BY <1>1, <1>2, <1>3, <1>4 DEF Rank

\* Every number below the size of I is the rank of exactly one element.
LEMMA RanksNumber ==
  ASSUME NEW I, IsFiniteSet(I), NEW before, TotalOrder(I, before)
  PROVE  /\ \A k \in 0 .. Cardinality(I) - 1 : \E i \in I : Rank(I, before, i) = k
         /\ \A i, j \in I : Rank(I, before, i) = Rank(I, before, j) => i = j
  <1> DEFINE n == Cardinality(I)
             f == [i \in I |-> Rank(I, before, i)]
  <1>1. n \in Nat
    BY FS_CardinalityType
  <1>2. f \in [I -> 0 .. n - 1]
    BY RanksGrow
  <1>3. \A i, j \in I : Rank(I, before, i) = Rank(I, before, j) => i = j
    <2> TAKE i, j \in I
    <2>1. CASE <<i, j>> \in before
      <3>1. Rank(I, before, i) < Rank(I, before, j)
        BY <2>1, RanksGrow
      <3> QED
        BY <3>1, <1>2
    <2>2. CASE <<j, i>> \in before
      <3>1. Rank(I, before, j) < Rank(I, before, i)
        BY <2>2, RanksGrow
      <3> QED
        BY <3>1, <1>2
    <2> QED
      BY <2>1, <2>2 DEF TotalOrder
  <1>4. f \in Injection(I, 0 .. n - 1)
    BY <1>2, <1>3 DEF Injection, IsInjective
  <1>5. IsFiniteSet(0 .. n - 1) /\ Cardinality(0 .. n - 1) = n
    BY <1>1, FS_Interval
  <1>6. f \in Surjection(I, 0 .. n - 1)
    <2> HIDE DEF f
    <2> QED
      BY <1>4, <1>5, FS_Injection
  <1> QED
    BY <1>3, <1>6 DEF Surjection
=============================================================================
