----------------------------- MODULE Extremes -----------------------------
(***************************************************************************)
(* The least and the greatest number of a set. What holds of every number  *)
(* can be proved with the least number for which it doesn't hold: that is  *)
(* how the proofs go through lists of items, paths and positions.          *)
(***************************************************************************)
EXTENDS Integers, NaturalsInduction, WellFoundedInduction, TLAPS

\* A set of numbers that isn't empty has a least one.
LEMMA LeastNat ==
  ASSUME NEW T \in SUBSET Nat, T # {}
  PROVE  \E n \in T : \A m \in T : n <= m
<1> DEFINE R == OpToRel(<, Nat)
<1>1. IsWellFoundedOn(R, Nat)
  BY NatLessThanWellFounded
<1>2. \A m, n \in Nat : m < n => <<m, n>> \in R
  BY DEF OpToRel
<1> HIDE DEF R
<1>3. PICK n \in T : \A m \in T : ~(<<m, n>> \in R)
  BY <1>1, WFMin
<1>4. \A m \in T : ~(m < n)
  BY <1>2, <1>3
<1>5. n \in Nat /\ \A m \in T : m \in Nat
  OBVIOUS
<1>6. \A m \in T : n <= m
  BY <1>4, <1>5
<1> QED BY <1>6

\* And one that is bounded has a greatest.
LEMMA GreatestNat ==
  ASSUME NEW N \in Nat, NEW T \in SUBSET (0..N), T # {}
  PROVE  \E n \in T : \A m \in T : m <= n
<1> DEFINE U == {n \in Nat : N - n \in T}
<1>1. U # {}
  <2>1. PICK t \in T : TRUE
    OBVIOUS
  <2>2. N - t \in Nat /\ N - (N - t) = t
    OBVIOUS
  <2> QED BY <2>2
<1>2. PICK u \in U : \A w \in U : u <= w
  <2>1. U \in SUBSET Nat
    OBVIOUS
  <2> HIDE DEF U
  <2> QED BY <1>1, <2>1, LeastNat
<1>3. ASSUME NEW m \in T PROVE m <= N - u
  <2>1. N - m \in Nat /\ N - (N - m) = m
    OBVIOUS
  <2>2. N - m \in U
    BY <2>1
  <2>3. u <= N - m /\ u \in Nat /\ m \in Nat
    BY <1>2, <2>2
  <2> QED BY <2>3
<1> QED BY <1>2, <1>3
=============================================================================
