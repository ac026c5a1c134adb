------------------------------- MODULE LeastNumber -------------------------------
(* Every nonempty set of natural numbers has a least element. *)
EXTENDS Naturals, WellFoundedInduction, TLAPS

LEMMA LeastElement ==
    ASSUME NEW T, T \subseteq Nat, T # {}
    PROVE  \E x \in T : \A y \in T : x <= y
<1>1. PICK x \in T : \A y \in T : ~ (<<y, x>> \in OpToRel(<, Nat))
  BY WFMin, NatLessThanWellFounded, Zenon
<1>2. ASSUME NEW y \in T PROVE x <= y
  <2>1. ~ (y < x)
    BY <1>1 DEF OpToRel
  <2> QED BY <2>1
<1> QED BY <1>2
=================================================================================
