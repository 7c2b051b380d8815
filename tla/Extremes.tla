------------------------------- MODULE Extremes --------------------------------
(* Greatest and least numbers: what Max() and Min() of the community modules     *)
(* return.                                                                       *)
EXTENDS Integers, FiniteSetsExt, FiniteSetTheorems, TLAPS

(* A finite set of numbers that is not empty has a greatest one, and Max()       *)
(* chooses it: of the sets of elements above one of its elements, the smallest   *)
(* is empty.                                                                     *)
LEMMA MaxOfFinite ==
    ASSUME NEW S \in SUBSET Int, IsFiniteSet(S), S # {}
    PROVE  Max(S) \in S /\ \A x \in S : x <= Max(S)
  <1> DEFINE Above(x) == {y \in S : y > x}
             family == {Above(x) : x \in S}
  <1>1. \A x \in S : Above(x) \in FiniteSubsetsOf(S)
    <2>1. \A x \in S : Above(x) \in SUBSET S /\ IsFiniteSet(Above(x))
      BY FS_Subset
    <2>2. QED
      BY <2>1 DEF FiniteSubsetsOf
  <1>2. PICK least \in family : \A other \in family :
               <<other, least>> \notin StrictSubsetOrdering(S)
    <2>1. IsWellFoundedOn(StrictSubsetOrdering(S), FiniteSubsetsOf(S))
      BY FS_StrictSubsetOrderingWellFounded
    <2>2. family \subseteq FiniteSubsetsOf(S) /\ family # {}
      BY <1>1
    <2> HIDE DEF family
    <2>3. QED
      BY <2>1, <2>2, WFMin
  <1>3. PICK m \in S : least = Above(m)
    OBVIOUS
  <1>4. \A y \in S : y <= m
    <2>1. SUFFICES ASSUME NEW y \in S, y > m PROVE FALSE
      OBVIOUS
    <2>2. Above(y) \in SUBSET S /\ Above(m) \in SUBSET S
      OBVIOUS
    <2>3. y \in Int /\ m \in Int /\ \A z \in S : z \in Int
      OBVIOUS
    <2>4. y \in Above(m) /\ y \notin Above(y)
      BY <2>1, <2>3
    <2>5. \A z \in S : z > y => z > m
      BY <2>1, <2>3
    <2>6. Above(y) \subseteq Above(m)
      BY <2>5
    <2>7. <<Above(y), Above(m)>> \in StrictSubsetOrdering(S)
      BY <2>2, <2>4, <2>6 DEF StrictSubsetOrdering
    <2>8. QED
      BY <1>2, <1>3, <2>7
  <1>5. \E x \in S : \A y \in S : x >= y
    BY <1>4
  <1>6. QED
    BY <1>5 DEF Max

(* In particular a set of natural numbers with a bound.                          *)
LEMMA MaxOfBounded ==
    ASSUME NEW S \in SUBSET Nat, S # {}, NEW b \in Nat, \A x \in S : x <= b
    PROVE  Max(S) \in S /\ \A x \in S : x <= Max(S)
  <1>1. S \subseteq 0..b /\ IsFiniteSet(0..b)
    BY FS_Interval
  <1>2. IsFiniteSet(S)
    BY <1>1, FS_Subset
  <1>3. QED
    BY <1>2, MaxOfFinite

(* A set of natural numbers has a least one, and Min() chooses it: seen from one *)
(* of its elements, the one that is furthest below.                              *)
LEMMA MinOfNat ==
    ASSUME NEW S \in SUBSET Nat, S # {}
    PROVE  Min(S) \in S /\ \A x \in S : Min(S) <= x
  <1>1. PICK b \in S : TRUE
    OBVIOUS
  <1> DEFINE Depths == {b - x : x \in {y \in S : y <= b}}
  <1>2. Depths \in SUBSET Nat /\ \A d \in Depths : d <= b
    OBVIOUS
  <1>3. b - b \in Depths
    <2>1. b \in {y \in S : y <= b}
      OBVIOUS
    <2>2. QED
      BY <2>1
  <1>4. Max(Depths) \in Depths /\ \A d \in Depths : d <= Max(Depths)
    <2> HIDE DEF Depths
    <2>1. QED
      BY <1>2, <1>3, MaxOfBounded
  <1>5. PICK m \in S : m <= b /\ Max(Depths) = b - m
    BY <1>4
  <1>6. \A x \in S : m <= x
    <2>1. SUFFICES ASSUME NEW x \in S, x < m PROVE FALSE
      OBVIOUS
    <2>2. b \in Nat /\ m \in Nat /\ x \in Nat
      BY <2>1
    <2>3. x <= b
      BY <1>5, <2>1, <2>2
    <2>4. x \in {y \in S : y <= b}
      BY <2>3
    <2>5. b - x \in Depths
      BY <2>4
    <2>6. b - x <= b - m
      BY <1>4, <1>5, <2>5
    <2>7. QED
      BY <2>1, <2>2, <2>6
  <1>7. QED
    BY <1>6 DEF Min

================================================================================
