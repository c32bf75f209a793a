----------------------------- MODULE NumberSets -----------------------------
(***************************************************************************)
(* Sets of natural numbers: least and greatest elements, and induction     *)
(* said of a set.                                                          *)
(***************************************************************************)
EXTENDS FiniteSetsExt, WellFoundedInduction, TLAPS

\* A set of natural numbers has a least one.
LEMMA LeastNatural ==
  ASSUME NEW S, S \subseteq Nat, S # {}
  PROVE  \E least \in S : \A n \in S : least <= n
<1> DEFINE less == OpToRel(<, Nat)
<1>1. IsWellFoundedOn(less, Nat)
  BY NatLessThanWellFounded
<1>2. \A m, n \in Nat : <<m, n>> \in less <=> m < n
  BY DEF OpToRel
<1> HIDE DEF less
<1>3. PICK least \in S : \A n \in S : ~(<<n, least>> \in less)
  BY <1>1, WFMin
<1>4. ASSUME NEW n \in S PROVE least <= n
  <2>1. least \in Nat /\ n \in Nat /\ ~(<<n, least>> \in less)
    BY <1>3
  <2>2. ~(n < least)
    BY <1>2, <2>1
  <2> QED
    BY <2>1, <2>2
<1> QED
  BY <1>4

\* Induction, said of a set.
LEMMA Inductive ==
  ASSUME NEW S, 0 \in S, \A n \in Nat : n \in S => n + 1 \in S
  PROVE  \A n \in Nat : n \in S
<1> SUFFICES ASSUME Nat \ S # {} PROVE FALSE
  OBVIOUS
<1>1. PICK least \in Nat \ S : \A n \in Nat \ S : least <= n
  BY LeastNatural
<1>2. least # 0 /\ least - 1 \in Nat /\ least - 1 \in S
  BY <1>1
<1> QED
  BY <1>1, <1>2

\* Min() of the community modules.
LEMMA MinProperty ==
  ASSUME NEW S, S \subseteq Nat, S # {}
  PROVE  Min(S) \in S /\ \A n \in S : Min(S) <= n
<1>1. \E least \in S : \A n \in S : least <= n
  BY LeastNatural
<1> QED
  BY <1>1 DEF Min

\* Max(), of a set with a bound.
LEMMA MaxProperty ==
  ASSUME NEW S, NEW bound \in Nat, S \subseteq 0..bound, S # {}
  PROVE  Max(S) \in S /\ \A n \in S : Max(S) >= n
<1> DEFINE D == {d \in Nat : bound - d \in S}
<1>1. D # {}
  <2>1. PICK n \in S : TRUE
    OBVIOUS
  <2>2. bound - n \in Nat /\ bound - (bound - n) = n
    BY <2>1
  <2> QED
    BY <2>1, <2>2
<1>2. PICK d \in D : \A e \in D : d <= e
  BY <1>1, LeastNatural
<1>3. ASSUME NEW n \in S PROVE bound - d >= n
  <2>1. bound - n \in Nat /\ bound - (bound - n) = n
    OBVIOUS
  <2>2. bound - n \in D
    BY <2>1
  <2>3. d <= bound - n /\ d \in Nat /\ n \in Nat
    BY <1>2, <2>2
  <2> QED
    BY <2>3
<1>4. \E m \in S : \A n \in S : m >= n
  BY <1>2, <1>3
<1> QED
  BY <1>4 DEF Max

=============================================================================
