---------------------------- MODULE LeastElement ----------------------------
(***************************************************************************)
(* Sets of natural numbers: a set that is not empty has a least element,   *)
(* and a set that holds 0 and the successor of each of its elements holds  *)
(* every number.                                                           *)
(*                                                                         *)
(* The induction rules of the library take a predicate as a parameter;     *)
(* these take a set, so that a proof can apply them to a set it defines.   *)
(***************************************************************************)
EXTENDS Integers, WellFoundedInduction, TLAPS

LEMMA HasLeast ==
    ASSUME NEW S \in SUBSET Nat, S # {}
    PROVE  \E m \in S : \A n \in S : m <= n
<1> DEFINE R == {p \in Nat \X Nat : p[1] < p[2]}
<1>1. IsWellFoundedOn(R, Nat)
  BY NatLessThanWellFounded, Zenon DEF OpToRel
<1>2. PICK m \in S : \A n \in S : ~(<<n, m>> \in R)
  <2> HIDE DEF R
  <2> QED BY <1>1, WFMin, Zenon
<1>3. \A n \in S : n < m => <<n, m>> \in R
  OBVIOUS
<1> HIDE DEF R
<1>4. \A n \in S : ~(n < m)
  BY <1>2, <1>3, Zenon
<1>5. \A n \in S : n \in Nat
  OBVIOUS
<1>6. \A n \in S : m <= n
  BY <1>4, <1>5
<1>7. QED BY <1>6

LEMMA SetInduction ==
    ASSUME NEW S \in SUBSET Nat, 0 \in S, \A n \in S : n + 1 \in S
    PROVE  S = Nat
<1>1. SUFFICES ASSUME Nat \ S # {} PROVE FALSE
  OBVIOUS
<1>2. PICK m \in Nat \ S : \A n \in Nat \ S : m <= n
  BY <1>1, HasLeast
<1>3. m - 1 \in Nat /\ m - 1 \notin Nat \ S
  BY <1>2
<1>4. QED BY <1>2, <1>3
=============================================================================
