----------------------------- MODULE NaturalBounds -----------------------------
(***************************************************************************)
(* Sets of numbers have least and greatest elements: what the proofs about *)
(* "the last" entry of a sequence need.                                    *)
(***************************************************************************)
EXTENDS Integers, WellFoundedInduction, TLAPS

(* A set of natural numbers that is not empty has a least element.          *)
LEMMA NaturalLeast ==
  ASSUME NEW S \in SUBSET Nat, S # {} PROVE \E m \in S : \A n \in S : m <= n
<1>1. \E m \in S : \A n \in S : ~(<<n, m>> \in OpToRel(<, Nat))
  BY NatLessThanWellFounded, WFMin
<1>2. PICK m \in S : \A n \in S : ~(<<n, m>> \in OpToRel(<, Nat))
  BY <1>1
<1>3. \A n \in S : ~(n < m)
  <2>1. \A n \in S : <<n, m>> \in Nat \X Nat
    OBVIOUS
  <2>2. QED BY <1>2, <2>1 DEF OpToRel
<1>4. QED BY <1>3

(* If it is bounded it has a greatest one.                                  *)
LEMMA BoundedGreatest ==
  ASSUME NEW bound \in Nat, NEW S \in SUBSET (1..bound), S # {}
  PROVE  \E m \in S : \A n \in S : n <= m
<1> DEFINE Distances == {bound - i : i \in S}
<1>1. Distances \in SUBSET Nat /\ Distances # {}
  <2>1. \A i \in S : bound - i \in Nat
    OBVIOUS
  <2>2. \E i \in S : bound - i \in Distances
    OBVIOUS
  <2> QED BY <2>1, <2>2
<1>2. PICK d \in Distances : \A e \in Distances : d <= e
  BY <1>1, NaturalLeast
<1>3. PICK m \in S : d = bound - m
  OBVIOUS
<1>4. \A n \in S : bound - n \in Distances
  OBVIOUS
<1> HIDE DEF Distances
<1>5. \A n \in S : n <= m
  BY <1>2, <1>3, <1>4
<1> QED BY <1>5
=============================================================================
