---------------------------- MODULE LeastNatural ----------------------------
(***************************************************************************)
(* Facts about the naturals that the proofs about minima and maxima need.  *)
(***************************************************************************)
EXTENDS Integers, TLAPS, FiniteSetTheorems, WellFoundedInduction

(* A set of naturals has a least one: of the intervals below its members,   *)
(* one holds no other.                                                      *)
LEMMA LeastMember ==
    ASSUME NEW S \in SUBSET Nat, S # {}
    PROVE  \E x \in S : \A y \in S : x <= y
  <1> DEFINE F == {0..(x - 1) : x \in S}
  <1>1. \A x \in Nat : IsFiniteSet(0..(x - 1)) /\ 0..(x - 1) \subseteq Nat
    BY FS_Interval
  <1>2. F \subseteq FiniteSubsetsOf(Nat) /\ F # {}
    BY <1>1 DEF FiniteSubsetsOf
  <1>3. IsWellFoundedOn(StrictSubsetOrdering(Nat), FiniteSubsetsOf(Nat))
    BY FS_StrictSubsetOrderingWellFounded
  <1>4. PICK m \in F : \A n \in F : ~(<<n, m>> \in StrictSubsetOrdering(Nat))
    <2> HIDE DEF F
    <2> QED BY <1>2, <1>3, WFMin
  <1>5. PICK x \in S : m = 0..(x - 1)
    OBVIOUS
  <1>6. ASSUME NEW y \in S, y < x PROVE FALSE
    <2>1. 0..(y - 1) \in F /\ 0..(y - 1) \subseteq 0..(x - 1)
          /\ y \in 0..(x - 1) /\ y \notin 0..(y - 1)
      BY <1>6
    <2>2. <<0..(y - 1), m>> \in StrictSubsetOrdering(Nat)
      BY <1>1, <1>5, <2>1 DEF StrictSubsetOrdering
    <2> QED BY <1>4, <2>1, <2>2
  <1> QED BY <1>6

(* A bounded set of naturals has a greatest one.                            *)
LEMMA GreatestMember ==
    ASSUME NEW S \in SUBSET Nat, S # {}, NEW b \in Nat, \A x \in S : x <= b
    PROVE  \E x \in S : \A y \in S : y <= x
  <1> DEFINE T == {b - x : x \in S}
  <1>1. T \in SUBSET Nat /\ T # {}
    <2>1. \A x \in S : x \in Nat /\ x <= b /\ b - x \in Nat
      OBVIOUS
    <2> QED BY <2>1
  <1>2. PICK t \in T : \A u \in T : t <= u
    <2> HIDE DEF T
    <2> QED BY <1>1, LeastMember
  <1>3. PICK x \in S : t = b - x
    OBVIOUS
  <1>4. ASSUME NEW y \in S PROVE y <= x
    <2>1. t <= b - y /\ x \in Nat /\ y \in Nat
      BY <1>2
    <2> QED BY <1>3, <2>1
  <1> QED BY <1>4
=============================================================================
