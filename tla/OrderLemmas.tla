---------------------------- MODULE OrderLemmas ----------------------------
(***************************************************************************)
(* Least and greatest elements of sets of naturals: versions, documents    *)
(* and rows are ordered, and the code walks them in that order.            *)
(***************************************************************************)
EXTENDS Integers, FiniteSetTheorems, WellFoundedInduction, TLAPS

\* Every nonempty set of naturals has a least element.
LEMMA LeastNatural ==
    ASSUME NEW S \in SUBSET Nat, S # {}
    PROVE  \E m \in S : \A k \in S : m <= k
<1> DEFINE R == OpToRel(<, Nat)
<1>1. IsWellFoundedOn(R, Nat)
  BY NatLessThanWellFounded
<1> HIDE DEF R
<1>2. PICK x \in S : \A y \in S : ~(<<y, x>> \in R)
  BY <1>1, WFMin
<1>3. \A y \in S : y < x => <<y, x>> \in R
  BY DEF R, OpToRel
<1>4. \A y \in S : y \in Nat
  OBVIOUS
<1>5. \A y \in S : x <= y
  <2> TAKE y \in S
  <2>1. x \in Nat /\ y \in Nat
    BY <1>4
  <2>2. ~(y < x)
    BY <1>2, <1>3
  <2> QED
    BY <2>1, <2>2
<1> QED
  BY <1>5

\* Every nonempty finite set of naturals has a greatest element, the one with the fewest
\* elements above it.
LEMMA GreatestExists ==
    ASSUME NEW S \in SUBSET Nat, IsFiniteSet(S), S # {}
    PROVE  \E u \in S : \A x \in S : x <= u
<1> DEFINE Above(u) == {x \in S : x > u}
           Counts == {Cardinality(Above(u)) : u \in S}
<1>1. \A u \in S : IsFiniteSet(Above(u)) /\ Cardinality(Above(u)) \in Nat
  <2> TAKE u \in S
  <2>1. Above(u) \in SUBSET S
    OBVIOUS
  <2> HIDE DEF Above
  <2> QED
    BY <2>1, FS_Subset, FS_CardinalityType
<1>2. Counts \in SUBSET Nat /\ Counts # {}
  BY <1>1
<1>3. PICK m \in Counts : \A k \in Counts : m <= k
  BY <1>2, LeastNatural
<1>4. PICK u \in S : m = Cardinality(Above(u))
  OBVIOUS
<1>5. \A y \in S : y \in Nat
  OBVIOUS
<1>6. ASSUME NEW x \in S, x > u PROVE FALSE
  <2>1. x \in Nat /\ u \in Nat
    BY <1>5
  <2>2. \A y \in S : y > x => y > u
    BY <2>1, <1>5, <1>6
  <2>3. Above(x) \in SUBSET Above(u)
    BY <2>2
  <2>4. x \in Above(u) /\ x \notin Above(x)
    BY <1>6, <2>1
  <2>5. Cardinality(Above(x)) >= Cardinality(Above(u))
    BY <1>3, <1>4
  <2> HIDE DEF Above
  <2>6. Cardinality(Above(x)) <= Cardinality(Above(u))
        /\ (Cardinality(Above(u)) = Cardinality(Above(x)) => Above(u) = Above(x))
    BY <2>3, <1>1, FS_Subset
  <2> QED
    BY <2>4, <2>5, <2>6, <1>1
<1> QED
  BY <1>5, <1>6

\* Sets of numbers up to a bound, such as rows and documents, are finite sets of naturals.
LEMMA FiniteParts ==
    ASSUME NEW N \in Nat, NEW S \in SUBSET (1..N)
    PROVE  S \in SUBSET Nat /\ IsFiniteSet(S)
<1>0. 1 \in Int /\ N \in Int
  OBVIOUS
<1>1. IsFiniteSet(1..N)
  BY <1>0, FS_Interval, Zenon
<1>2. \A n \in 1..N : n \in Nat
  OBVIOUS
<1>3. \A n \in S : n \in 1..N
  OBVIOUS
<1> QED
  BY <1>1, <1>2, <1>3, FS_Subset
=============================================================================
