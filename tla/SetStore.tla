-------------------------------- MODULE SetStore --------------------------------
(***************************************************************************)
(* What a set-associative cache promises its controller: a block is in it   *)
(* or not, blocks come and go one at a time, and only into a set that has   *)
(* room.  Ways, tags, recency and the replacement policy are out of sight.  *)
(***************************************************************************)
EXTENDS Naturals, FiniteSets

CONSTANTS Addr, Assoc,
          SetOf     \* the set of each address

VARIABLE resident

SameSet(a) == {b \in resident : SetOf[b] = SetOf[a]}

Init == resident = {}

Insert(a) ==
    /\ a \notin resident
    /\ Cardinality(SameSet(a)) < Assoc
    /\ resident' = resident \union {a}

Remove(a) ==
    /\ a \in resident
    /\ resident' = resident \ {a}

Next == \E a \in Addr : Insert(a) \/ Remove(a)

Spec == Init /\ [][Next]_resident
================================================================================
