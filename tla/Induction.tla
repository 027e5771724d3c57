------------------------------ MODULE Induction ------------------------------
(***************************************************************************)
(* Induction over the natural numbers, stated for sets: the base of the    *)
(* proofs about recursive functions and about folds.                       *)
(***************************************************************************)
EXTENDS Integers, FiniteSets, FiniteSetTheorems, WellFoundedInduction, TLAPS

(* A non-empty set of naturals has a least element: of the sets 0 .. n - 1 *)
(* for its elements n, one is minimal for strict inclusion.                *)
LEMMA LeastElement ==
  ASSUME NEW S \in SUBSET Nat, S # {}
  PROVE  \E n \in S : \A m \in S : n <= m
<1> DEFINE Below(n) == 0 .. n - 1
           T == {Below(n) : n \in S}
<1>1. \A n \in S : IsFiniteSet(Below(n))
  BY FS_Interval
<1>2. T \subseteq FiniteSubsetsOf(Nat) /\ T # {}
  <2>1. \A n \in S : Below(n) \in SUBSET Nat
    OBVIOUS
  <2>2. \A n \in S : Below(n) \in FiniteSubsetsOf(Nat)
    <3> HIDE DEF Below
    <3> QED
      BY <1>1, <2>1 DEF FiniteSubsetsOf
  <2> QED
    BY <2>2
<1>3. PICK x \in T : \A y \in T : <<y, x>> \notin StrictSubsetOrdering(Nat)
  <2> HIDE DEF T
  <2> QED
    BY <1>2, FS_StrictSubsetOrderingWellFounded, WFMin
<1>4. PICK n \in S : x = Below(n)
  OBVIOUS
<1>5. \A m \in S : n <= m
  <2> SUFFICES ASSUME NEW m \in S, m < n PROVE FALSE
    OBVIOUS
  <2>1. m \in Below(n) /\ m \notin Below(m) /\ Below(m) \subseteq Below(n)
    OBVIOUS
  <2>2. <<Below(m), Below(n)>> \in StrictSubsetOrdering(Nat)
    BY <2>1 DEF StrictSubsetOrdering
  <2> QED
    BY <2>2, <1>3, <1>4
<1> QED
  BY <1>5

(* A set that holds 0 and with every natural number its successor holds    *)
(* them all.                                                               *)
LEMMA SetInduction ==
  ASSUME NEW S, 0 \in S, \A n \in Nat : n \in S => n + 1 \in S
  PROVE  Nat \subseteq S
<1> SUFFICES ASSUME Nat \ S # {} PROVE FALSE
  OBVIOUS
<1>1. PICK n \in Nat \ S : \A m \in Nat \ S : n <= m
  <2>1. Nat \ S \in SUBSET Nat
    OBVIOUS
  <2> QED
    BY <2>1, LeastElement
<1>2. n # 0 /\ n - 1 \in Nat
  BY <1>1
<1>3. n - 1 \in S
  BY <1>1, <1>2
<1> QED
  BY <1>1, <1>2, <1>3
=============================================================================
