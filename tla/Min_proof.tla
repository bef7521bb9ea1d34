------------------------------ MODULE Min_proof ------------------------------
(***************************************************************************)
(* The fact about Min the other proofs rest on.                             *)
(***************************************************************************)
EXTENDS FiniteSetsExt, TLAPS, WellFoundedInduction

(* Min picks a member: the first open slot, the first of several least      *)
(* recent ways, the oldest request at a port and the first write of a       *)
(* request list exist whenever there is one at all.                         *)
LEMMA MinMember ==
  ASSUME NEW S, S \subseteq Nat, S # {}
  PROVE  Min(S) \in S /\ \A x \in S : Min(S) <= x
<1> DEFINE R == OpToRel(<, Nat)
<1>1. IsWellFoundedOn(R, Nat)
  BY NatLessThanWellFounded
<1>2. \E x \in S : \A y \in S : ~ (<<y, x>> \in R)
  <2> HIDE DEF R
  <2> QED BY <1>1, WFMin
<1>3. \A x, y \in Nat : <<x, y>> \in R <=> x < y
  BY DEF OpToRel
<1>4. PICK x \in S : \A y \in S : ~ (<<y, x>> \in R)
  BY <1>2
<1>5. \A y \in S : x <= y
  <2> HIDE DEF R
  <2>1. TAKE y \in S
  <2>2. x \in Nat /\ y \in Nat /\ ~(y < x)
    BY <1>3, <1>4
  <2> QED BY <2>2
<1> QED BY <1>5 DEF Min
==============================================================================
