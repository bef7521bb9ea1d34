--------------------------- MODULE CacheMemory_proof ---------------------------
(***************************************************************************)
(* Proofs about CacheMemory and ARC for every cache geometry, address set   *)
(* and length of run.                                                       *)
(***************************************************************************)
EXTENDS CacheMemory, Min_proof, SequenceTheorems

--------------------------------------------------------------------------------
(* Facts about the operators.                                               *)

(* Erasing the first match shortens a list by one.                          *)
LEMMA RemoveFromGhostLength ==
  ASSUME NEW list \in Seq(Nat), NEW tag, Contains(list, tag)
  PROVE  /\ removeFromGhost(list, tag) \in Seq(Nat)
         /\ Len(removeFromGhost(list, tag)) = Len(list) - 1
<1> DEFINE I == {i \in 1 .. Len(list) : list[i] = tag}
           k == Min(I)
<1>1. I # {} /\ I \subseteq Nat
  BY DEF Contains
<1>2. k \in 1 .. Len(list)
  BY <1>1, MinMember
<1>3. removeFromGhost(list, tag) = RemoveAt(list, k)
  BY <1>1 DEF removeFromGhost, RemoveFirst, SelectInSeq, Contains
<1> HIDE DEF k
<1> DEFINE front == SubSeq(list, 1, k - 1)
           back  == SubSeq(list, k + 1, Len(list))
<1>4. front \in Seq(Nat) /\ Len(front) = k - 1
  <2>1. \A i \in 1 .. k - 1 : list[i] \in Nat
    BY <1>2
  <2> QED BY <1>2, <2>1, SubSeqProperties
<1>5. back \in Seq(Nat) /\ Len(back) = Len(list) - k
  <2>1. \A i \in k + 1 .. Len(list) : list[i] \in Nat
    BY <1>2
  <2> QED BY <1>2, <2>1, SubSeqProperties
<1>6. removeFromGhost(list, tag) = front \o back
  BY <1>3 DEF RemoveAt
<1> HIDE DEF front, back
<1>7. front \o back \in Seq(Nat) /\ Len(front \o back) = Len(front) + Len(back)
  BY <1>4, <1>5, ConcatProperties
<1>8. Len(list) \in Nat
  OBVIOUS
<1> QED BY <1>2, <1>4, <1>5, <1>6, <1>7, <1>8

(* Appending and, beyond the cap, dropping the oldest keeps a list in it.   *)
LEMMA AddToGhostLength ==
  ASSUME NEW list \in Seq(Nat), NEW tag \in Nat, NEW cap \in Nat,
         Len(list) <= cap
  PROVE  /\ addToGhost(list, tag, cap) \in Seq(Nat)
         /\ Len(addToGhost(list, tag, cap)) <= cap \/ cap = 0
         /\ Len(addToGhost(list, tag, cap)) <= Len(list) + 1
<1> DEFINE longer == Append(list, tag)
<1>1. longer \in Seq(Nat) /\ longer # << >> /\ Len(longer) = Len(list) + 1
  <2>1. longer \in Seq(Nat) /\ Len(longer) = Len(list) + 1
    OBVIOUS
  <2>2. longer # << >>
    BY AppendProperties
  <2> QED BY <2>1, <2>2
<1>2. Tail(longer) \in Seq(Nat) /\ Len(Tail(longer)) = Len(longer) - 1
  BY <1>1, HeadTailProperties
<1>3. addToGhost(list, tag, cap) = IF Len(longer) > cap THEN Tail(longer) ELSE longer
  BY DEF addToGhost
<1>4. Len(list) \in Nat
  OBVIOUS
<1> HIDE DEF longer
<1>5. CASE Len(longer) > cap
  BY <1>1, <1>2, <1>3, <1>4, <1>5
<1>6. CASE ~(Len(longer) > cap)
  BY <1>1, <1>3, <1>4, <1>6
<1> QED BY <1>5, <1>6

(* The target stays between zero and the larger of what it was and the sum  *)
(* of the ghost lists, as long as the division does not trap.               *)
LEMMA AdjustPRange ==
  ASSUME NEW p \in Nat, NEW b1 \in Nat, NEW b2 \in Nat, NEW hitInB1 \in BOOLEAN,
         hitInB1 => ~DividesByZero(b1, b2),
         ~hitInB1 => ~DividesByZero(b2, b1)
  PROVE  /\ adjustP(p, b1, b2, hitInB1) \in Nat
         /\ adjustP(p, b1, b2, hitInB1) <= p \/ adjustP(p, b1, b2, hitInB1) <= b1 + b2
<1>1. ASSUME NEW m \in Nat, NEW o \in Nat, ~DividesByZero(m, o)
      PROVE  delta(m, o) \in Nat
  <2>1. CASE m >= o
    BY <2>1 DEF delta
  <2>2. CASE m < o
    <3>1. m > 0 /\ o + m - 1 \in Nat
      BY <1>1, <2>2 DEF DividesByZero
    <3>2. (o + m - 1) \div m \in Nat
      BY <3>1
    <3> QED BY <2>2, <3>2 DEF delta
  <2> QED BY <2>1, <2>2
<1>2. CASE hitInB1
  <2>1. delta(b1, b2) \in Nat
    BY <1>1, <1>2
  <2> QED BY <1>2, <2>1 DEF adjustP
<1>3. CASE ~hitInB1
  <2>1. delta(b2, b1) \in Nat
    BY <1>1, <1>3
  <2> QED BY <1>3, <2>1 DEF adjustP
<1> QED BY <1>2, <1>3

(* addressToCacheSet stays within the array although the number of sets     *)
(* need not be a power of two.                                              *)
LEMMA SetInRange ==
  ASSUME NEW a \in Addr
  PROVE  addressToCacheSet(a) \in Sets
<1>1. a \in Nat /\ 2 ^ SetBits \in 2 .. NumSets /\ NumSets \in Nat
  BY CacheAssumption, GeometryAssumption
<1> QED BY <1>1 DEF addressToCacheSet, Sets

--------------------------------------------------------------------------------
(***************************************************************************)
(* The inductive invariant: the properties together.  None is inductive by  *)
(* itself.  NoPointerFault needs PolicyTracksResidents (a full set has only *)
(* valid ways) and TagIndexConsistent (a set with room for an absent block  *)
(* has an open slot); those need each other for deallocate, which finds the *)
(* way through the index; TargetBounded needs GhostBounded.                 *)
(***************************************************************************)
IInv ==
    /\ TypeOK
    /\ TagIndexConsistent
    /\ PolicyTracksResidents
    /\ NoPointerFault
    /\ RecencyAgrees
    /\ GhostBounded
    /\ TargetBounded

(* Its part about the ghost lists and the targets, which deallocate() and   *)
(* setMRU() leave alone.                                                    *)
PolicyInv ==
    /\ sized \in 0 .. NumSets
    /\ ghostB1 \in [Sets -> Seq(Nat)]
    /\ ghostB2 \in [Sets -> Seq(Nat)]
    /\ targetP \in [Sets -> Int]
    /\ NoPointerFault
    /\ GhostBounded
    /\ TargetBounded

(* PolicyInv is a part of the invariant and depends on its variables only.  *)
LEMMA PolicyInvUnchanged ==
  ASSUME IInv, UNCHANGED <<ghostVars, targetP, fault>>
  PROVE  PolicyInv'
<1>1. sized' = sized /\ ghostB1' = ghostB1 /\ ghostB2' = ghostB2
  BY DEF ghostVars
<1> QED BY <1>1 DEF IInv, TypeOK, ArcTypeOK, PolicyInv, NoPointerFault,
               GhostBounded, TargetBounded

(* The initial state satisfies the invariant.                               *)
LEMMA InitIInv == Init => IInv
<1> SUFFICES ASSUME Init PROVE IInv
  OBVIOUS
<1> USE GeometryAssumption, CacheAssumption
<1>1. TypeOK
  BY EmptySeq DEF Init, ArcInit, TypeOK, ArcTypeOK, instantiateEntry, InitialTag,
     ReplData, Links, Faults, Permissions
<1>2. TagIndexConsistent /\ PolicyTracksResidents /\ RecencyAgrees
  BY DEF Init, ArcInit, TagIndexConsistent, PolicyTracksResidents,
     RecencyAgrees, instantiateEntry
<1>3. NoPointerFault
  BY DEF Init, ArcInit, NoPointerFault
<1>4. GhostBounded
  BY EmptySeq DEF Init, ArcInit, GhostBounded
<1>5. TargetBounded
  BY DEF Init, ArcInit, TargetBounded
<1> QED BY <1>1, <1>2, <1>3, <1>4, <1>5 DEF IInv

(* In a consistent state the index finds exactly the blocks in the array,   *)
(* and an open slot is an empty one.                                        *)
LEMMA LookupFacts ==
  ASSUME TypeOK, TagIndexConsistent, NEW a \in Addr
  PROVE  /\ findTagInSet(a) = m_tag_index[a]
         /\ m_tag_index[a] # NULL =>
               /\ m_tag_index[a] \in Ways
               /\ m_cache[addressToCacheSet(a)][m_tag_index[a]] = a
         /\ m_tag_index[a] = NULL =>
               \A s \in Sets, w \in Ways : m_cache[s][w] # a
         /\ \A s \in Sets : OpenSlots(s) = {w \in Ways : m_cache[s][w] = NULL}
<1> USE CacheAssumption, GeometryAssumption
<1>1. a # NULL /\ addressToCacheSet(a) \in Sets
  BY SetInRange DEF NULL
<1>2. m_tag_index[a] # NULL =>
         /\ m_tag_index[a] \in Ways
         /\ m_cache[addressToCacheSet(a)][m_tag_index[a]] = a
  BY DEF TypeOK, TagIndexConsistent
<1>3. \A s \in Sets, w \in Ways : m_cache[s][w] # NULL => permission[s][w] # "NotPresent"
  BY DEF TagIndexConsistent
<1>4. findTagInSet(a) = m_tag_index[a]
  BY <1>1, <1>2, <1>3 DEF findTagInSet
<1>5. m_tag_index[a] = NULL => \A s \in Sets, w \in Ways : m_cache[s][w] # a
  <2> SUFFICES ASSUME NEW s \in Sets, NEW w \in Ways, m_cache[s][w] = a
               PROVE  m_tag_index[a] # NULL
    OBVIOUS
  <2>1. m_tag_index[m_cache[s][w]] = w
    BY <1>1 DEF TagIndexConsistent
  <2> QED BY <2>1 DEF NULL, Ways
<1>6. \A s \in Sets : OpenSlots(s) = {w \in Ways : m_cache[s][w] = NULL}
  BY <1>3 DEF OpenSlots
<1> QED BY <1>2, <1>4, <1>5, <1>6

--------------------------------------------------------------------------------
(* Effects of the policy's methods.                                         *)

(* The vectors only grow, cover the set asked for, and never outgrow the    *)
(* number of sets.                                                          *)
LEMMA ResizedRange ==
  ASSUME sized \in 0 .. NumSets, NEW s \in Sets
  PROVE  Resized(s) \in 1 .. NumSets /\ sized <= Resized(s) /\ s < Resized(s)
BY GeometryAssumption DEF Resized, Sets

(* reset, called with the back-pointer set, keeps the ghost lists and the   *)
(* target in their bounds, marks the entry valid and touched now, and can   *)
(* only fail by the division.                                               *)
LEMMA ResetEffect ==
  ASSUME TypeOK, GhostBounded, TargetBounded,
         NEW s \in Sets, NEW w \in Ways,
         linkedEntry'[s][w] = "live", reset(s, w)
  PROVE  /\ sized' \in 0 .. NumSets
         /\ ghostB1' \in [Sets -> Seq(Nat)]
         /\ ghostB2' \in [Sets -> Seq(Nat)]
         /\ targetP' \in [Sets -> Int]
         /\ GhostBounded'
         /\ TargetBounded'
         /\ fault' \in {"none", "divByZero"}
         /\ replData'[s][w] \in ReplData
         /\ replData'[s][w].valid /\ replData'[s][w].lastTouchTick = curTick
         /\ replData' = [replData EXCEPT ![s][w] = replData'[s][w]]
<1> USE GeometryAssumption
<1> DEFINE tag   == replData[s][w].tag
           hitB1 == Contains(ghostB1[s], tag)
           hitB2 == ~hitB1 /\ Contains(ghostB2[s], tag)
           b1    == IF hitB1 THEN removeFromGhost(ghostB1[s], tag) ELSE ghostB1[s]
           b2    == IF hitB2 THEN removeFromGhost(ghostB2[s], tag) ELSE ghostB2[s]
           traps == \/ hitB1 /\ DividesByZero(Len(b1), Len(b2))
                    \/ hitB2 /\ DividesByZero(Len(b2), Len(b1))
           hit   == hitB1 \/ hitB2
           newP  == adjustP(targetP[s], Len(b1), Len(b2), hitB1)
           d     == [lastTouchTick |-> curTick,
                     listId |-> IF traps THEN replData[s][w].listId
                                ELSE IF hit THEN 2 ELSE 1,
                     valid |-> TRUE,
                     tag |-> tag]
<1>1. /\ sized' = Resized(s)
      /\ ghostB1' = [ghostB1 EXCEPT ![s] = b1]
      /\ ghostB2' = [ghostB2 EXCEPT ![s] = b2]
      /\ targetP' = IF hit /\ ~traps THEN [targetP EXCEPT ![s] = newP] ELSE targetP
      /\ replData' = [replData EXCEPT ![s][w] = d]
      /\ fault' = IF traps THEN "divByZero" ELSE "none"
  BY DEF reset
<1>2. /\ ghostB1 \in [Sets -> Seq(Nat)] /\ ghostB2 \in [Sets -> Seq(Nat)]
      /\ targetP \in [Sets -> Int] /\ sized \in 0 .. NumSets
      /\ replData[s][w] \in ReplData /\ curTick \in Nat
      /\ \A t \in Sets : Len(ghostB1[t]) \in Nat /\ Len(ghostB2[t]) \in Nat
  BY DEF TypeOK, ArcTypeOK
<1>3. /\ sized' \in 0 .. NumSets /\ sized <= sized' /\ s < sized'
  <2> HIDE DEF tag, hitB1, hitB2, b1, b2, traps, hit, newP, d
  <2>1. Resized(s) \in 1 .. NumSets /\ sized <= Resized(s) /\ s < Resized(s)
    BY <1>2, ResizedRange
  <2>2. sized' = Resized(s)
    BY <1>1
  <2> QED BY <2>1, <2>2
<1>4. /\ b1 \in Seq(Nat) /\ Len(b1) <= Len(ghostB1[s]) /\ Len(b1) \in Nat
      /\ b2 \in Seq(Nat) /\ Len(b2) <= Len(ghostB2[s]) /\ Len(b2) \in Nat
  <2> HIDE DEF tag, traps, hit, newP, d
  <2>1. ghostB1[s] \in Seq(Nat) /\ ghostB2[s] \in Seq(Nat)
    BY <1>2
  <2>2. b1 \in Seq(Nat) /\ Len(b1) <= Len(ghostB1[s]) /\ Len(b1) \in Nat
    BY <2>1, RemoveFromGhostLength
  <2>3. b2 \in Seq(Nat) /\ Len(b2) <= Len(ghostB2[s]) /\ Len(b2) \in Nat
    BY <2>1, RemoveFromGhostLength
  <2> QED BY <2>2, <2>3
<1>5. d \in ReplData /\ d.valid /\ d.lastTouchTick = curTick
  BY <1>2 DEF ReplData
<1>6. /\ Len(ghostB1[s]) <= sized /\ Len(ghostB2[s]) <= sized
      /\ targetP[s] \in 0 .. 2 * sized
  BY DEF GhostBounded, TargetBounded
<1>7. hit /\ ~traps => newP \in 0 .. 2 * sized
  <2> SUFFICES ASSUME hit, ~traps PROVE newP \in 0 .. 2 * sized
    OBVIOUS
  <2>1. /\ hitB1 => ~DividesByZero(Len(b1), Len(b2))
        /\ ~hitB1 => ~DividesByZero(Len(b2), Len(b1))
        /\ hitB1 \in BOOLEAN
    BY DEF Contains
  <2> HIDE DEF tag, hitB1, hitB2, b1, b2, traps, hit, d
  <2>2. targetP[s] \in Nat
    BY <1>2, <1>6
  <2>3. /\ newP \in Nat
        /\ newP <= targetP[s] \/ newP <= Len(b1) + Len(b2)
    BY <1>4, <2>1, <2>2, AdjustPRange, ZenonT(30)
  <2> HIDE DEF newP
  <2> QED BY <1>2, <1>4, <1>6, <2>3
<1> HIDE DEF tag, hitB1, hitB2, b1, b2, traps, hit, newP, d
<1>8. GhostBounded'
  <2> SUFFICES ASSUME NEW t \in Sets
               PROVE  /\ Len(ghostB1'[t]) <= sized' /\ Len(ghostB2'[t]) <= sized'
                      /\ t >= sized' => /\ ghostB1'[t] = << >> /\ ghostB2'[t] = << >>
                                       /\ targetP'[t] = 0
    BY DEF GhostBounded
  <2>1. CASE t = s
    <3>1. ghostB1'[t] = b1 /\ ghostB2'[t] = b2 /\ ~(t >= sized')
      BY <1>1, <1>2, <1>3, <2>1 DEF Sets
    <3> QED BY <1>2, <1>3, <1>4, <1>6, <3>1
  <2>2. CASE t # s
    <3>1. ghostB1'[t] = ghostB1[t] /\ ghostB2'[t] = ghostB2[t] /\ targetP'[t] = targetP[t]
      BY <1>1, <1>2, <2>2
    <3>2. t \in Int /\ (t >= sized' => t >= sized)
      BY <1>2, <1>3 DEF Sets
    <3> QED BY <1>2, <1>3, <3>1, <3>2 DEF GhostBounded
  <2> QED BY <2>1, <2>2
<1>9. TargetBounded'
  <2> SUFFICES ASSUME NEW t \in Sets PROVE targetP'[t] \in 0 .. 2 * sized'
    BY DEF TargetBounded
  <2>1. targetP'[t] \in 0 .. 2 * sized
    BY <1>1, <1>2, <1>7 DEF TargetBounded
  <2> QED BY <1>2, <1>3, <2>1
<1>10. targetP' \in [Sets -> Int]
  <2>1. hit /\ ~traps => newP \in Int
    BY <1>2, <1>7
  <2> QED BY <1>1, <1>2, <2>1
<1>11. ghostB1' \in [Sets -> Seq(Nat)] /\ ghostB2' \in [Sets -> Seq(Nat)]
  BY <1>1, <1>2, <1>4
<1>12. /\ replData'[s][w] = d
       /\ replData' = [replData EXCEPT ![s][w] = replData'[s][w]]
  <2>1. replData \in [Sets -> [Ways -> ReplData]]
    BY DEF TypeOK, ArcTypeOK
  <2>2. replData' = [replData EXCEPT ![s][w] = d]
    BY <1>1
  <2>3. replData'[s][w] = d
    BY <2>1, <2>2
  <2> QED BY <2>2, <2>3, Zenon
<1>13. /\ replData'[s][w] \in ReplData
       /\ replData'[s][w].valid /\ replData'[s][w].lastTouchTick = curTick
  BY <1>5, <1>12, Zenon
<1>14. fault' \in {"none", "divByZero"}
  BY <1>1
<1> QED BY <1>3, <1>8, <1>9, <1>10, <1>11, <1>12, <1>13, <1>14, Zenon

(* A set with a valid way has a victim, and it is one of its valid ways.    *)
LEMMA VictimIsValid ==
  ASSUME NEW s \in Sets, ValidWays(s) # {}
  PROVE  Victim(s) \in ValidWays(s)
<1> DEFINE list == IF evictFromT1(s) THEN T1(s) ELSE T2(s)
           lru  == LeastRecent(s, list)
<1>1. ValidWays(s) \subseteq Nat
  BY GeometryAssumption DEF ValidWays, Ways
<1>2. lru \subseteq ValidWays(s)
  BY DEF LeastRecent, T1, T2
<1>3. Victim(s) = IF lru # {} THEN Min(lru) ELSE Min(ValidWays(s))
  BY DEF Victim
<1> HIDE DEF lru
<1>4. CASE lru # {}
  BY <1>1, <1>2, <1>3, <1>4, MinMember
<1>5. CASE lru = {}
  BY <1>1, <1>3, <1>5, MinMember
<1> QED BY <1>4, <1>5

(* getVictim changes only the ghost lists, and keeps them in their bounds.  *)
LEMMA GetVictimEffect ==
  ASSUME TypeOK, GhostBounded, TargetBounded, NEW s \in Sets,
         Victim(s) \in Ways, getVictim(s), UNCHANGED targetP
  PROVE  /\ sized' \in 0 .. NumSets
         /\ ghostB1' \in [Sets -> Seq(Nat)]
         /\ ghostB2' \in [Sets -> Seq(Nat)]
         /\ GhostBounded'
         /\ TargetBounded'
<1> USE GeometryAssumption
<1> DEFINE v    == Victim(s)
           tag  == replData[s][v].tag
           g1   == addToGhost(ghostB1[s], tag, Resized(s))
           g2   == addToGhost(ghostB2[s], tag, Resized(s))
           inT1 == v # NoVictim /\ replData[s][v].listId = 1
           inT2 == v # NoVictim /\ replData[s][v].listId # 1
<1>1. /\ sized' = Resized(s)
      /\ ghostB1' = IF inT1 THEN [ghostB1 EXCEPT ![s] = g1] ELSE ghostB1
      /\ ghostB2' = IF inT2 THEN [ghostB2 EXCEPT ![s] = g2] ELSE ghostB2
  BY DEF getVictim
<1>2. /\ ghostB1 \in [Sets -> Seq(Nat)] /\ ghostB2 \in [Sets -> Seq(Nat)]
      /\ targetP \in [Sets -> Int] /\ sized \in 0 .. NumSets
      /\ replData[s][v] \in ReplData
      /\ \A t \in Sets : Len(ghostB1[t]) \in Nat /\ Len(ghostB2[t]) \in Nat
  BY DEF TypeOK, ArcTypeOK
<1>3. tag \in Nat
  BY <1>2 DEF ReplData
<1> HIDE DEF tag, inT1, inT2, v, g1, g2
<1>4. /\ sized' \in 0 .. NumSets /\ sized <= sized' /\ s < sized'
      /\ Resized(s) \in Nat /\ Resized(s) # 0
  <2>1. Resized(s) \in 1 .. NumSets /\ sized <= Resized(s) /\ s < Resized(s)
    BY <1>2, ResizedRange
  <2>2. sized' = Resized(s)
    BY <1>1
  <2> QED BY <2>1, <2>2
<1>5. Len(ghostB1[s]) <= Resized(s) /\ Len(ghostB2[s]) <= Resized(s)
  BY <1>1, <1>2, <1>4 DEF GhostBounded
<1>6. /\ g1 \in Seq(Nat) /\ Len(g1) <= Resized(s)
      /\ g2 \in Seq(Nat) /\ Len(g2) <= Resized(s)
  BY <1>2, <1>3, <1>4, <1>5, AddToGhostLength DEF g1, g2
<1>7. GhostBounded'
  <2> SUFFICES ASSUME NEW t \in Sets
               PROVE  /\ Len(ghostB1'[t]) <= sized' /\ Len(ghostB2'[t]) <= sized'
                      /\ t >= sized' => /\ ghostB1'[t] = << >> /\ ghostB2'[t] = << >>
                                       /\ targetP'[t] = 0
    BY DEF GhostBounded
  <2>1. CASE t = s
    <3>1. /\ ghostB1'[t] \in {g1, ghostB1[s]}
          /\ ghostB2'[t] \in {g2, ghostB2[s]}
          /\ ~(t >= sized')
      BY <1>1, <1>2, <1>4, <2>1 DEF Sets
    <3> QED BY <1>1, <1>5, <1>6, <3>1
  <2>2. CASE t # s
    <3>1. ghostB1'[t] = ghostB1[t] /\ ghostB2'[t] = ghostB2[t]
      BY <1>1, <1>2, <2>2
    <3>2. t \in Int /\ (t >= sized' => t >= sized)
      BY <1>2, <1>4 DEF Sets
    <3> QED BY <1>2, <1>4, <3>1, <3>2 DEF GhostBounded
  <2> QED BY <2>1, <2>2
<1>8. TargetBounded'
  <2> SUFFICES ASSUME NEW t \in Sets PROVE targetP[t] \in 0 .. 2 * sized'
    BY DEF TargetBounded
  <2>1. targetP[t] \in 0 .. 2 * sized
    BY DEF TargetBounded
  <2> QED BY <1>2, <1>4, <2>1
<1>9. ghostB1' \in [Sets -> Seq(Nat)] /\ ghostB2' \in [Sets -> Seq(Nat)]
  BY <1>1, <1>2, <1>6
<1> QED BY <1>4, <1>7, <1>8, <1>9

--------------------------------------------------------------------------------
(* One lemma per action.                                                    *)

(* allocate() fills the first open slot and files it with the policy.       *)
LEMMA AllocateEffect ==
  ASSUME IInv, NEW a \in Addr, NEW perm \in Permissions \ {"NotPresent"},
         ~isTagPresent(a), cacheAvail(a), allocate(a, perm), UNCHANGED curTick
  PROVE  /\ IInv'
         /\ \E w \in Ways : m_tag_index' = [m_tag_index EXCEPT ![a] = w]
<1> USE GeometryAssumption, CacheAssumption
<1> DEFINE s == addressToCacheSet(a)
           w == Min(OpenSlots(s))
<1>1. s \in Sets /\ a # NULL
  BY SetInRange DEF NULL
<1>2. /\ TypeOK /\ TagIndexConsistent /\ PolicyTracksResidents
      /\ RecencyAgrees /\ GhostBounded /\ TargetBounded
  BY DEF IInv
<1> HIDE DEF s
<1>3. /\ m_tag_index[a] = NULL
      /\ \A t \in Sets, v \in Ways : m_cache[t][v] # a
      /\ OpenSlots(s) = {v \in Ways : m_cache[s][v] = NULL}
  BY <1>1, <1>2, LookupFacts DEF isTagPresent
<1>4. OpenSlots(s) # {}
  BY <1>1, <1>3 DEF cacheAvail, s
<1>5. w \in Ways /\ m_cache[s][w] = NULL
  <2>1. OpenSlots(s) \subseteq Nat
    BY <1>3 DEF Ways
  <2> QED BY <1>3, <1>4, <2>1, MinMember
<1>6. curTick' = curTick
  OBVIOUS
<1> HIDE DEF w
<1>7. /\ m_cache' = [m_cache EXCEPT ![s][w] = a]
      /\ permission' = [permission EXCEPT ![s][w] = perm]
      /\ m_tag_index' = [m_tag_index EXCEPT ![a] = w]
      /\ lastAccess' = [lastAccess EXCEPT ![s][w] = curTick]
      /\ linkedEntry' = [linkedEntry EXCEPT ![s][w] = "live"]
      /\ reset(s, w)
  BY DEF allocate, setPosition, s, w
<1>8. linkedEntry'[s][w] = "live"
  BY <1>1, <1>2, <1>5, <1>7 DEF TypeOK, ArcTypeOK
<1>9. /\ sized' \in 0 .. NumSets
      /\ ghostB1' \in [Sets -> Seq(Nat)]
      /\ ghostB2' \in [Sets -> Seq(Nat)]
      /\ targetP' \in [Sets -> Int]
      /\ GhostBounded' /\ TargetBounded'
      /\ fault' \in {"none", "divByZero"}
      /\ replData'[s][w] \in ReplData
      /\ replData'[s][w].valid /\ replData'[s][w].lastTouchTick = curTick
      /\ replData' = [replData EXCEPT ![s][w] = replData'[s][w]]
  BY <1>1, <1>2, <1>5, <1>7, <1>8, ResetEffect
<1> DEFINE d == replData'[s][w]
<1>10. /\ d \in ReplData /\ d.valid /\ d.lastTouchTick = curTick
       /\ replData' = [replData EXCEPT ![s][w] = d]
  BY <1>9
<1> HIDE DEF d
<1>11. TypeOK'
  BY <1>1, <1>2, <1>5, <1>6, <1>7, <1>9, <1>10
     DEF TypeOK, ArcTypeOK, Links, Faults, Permissions
<1>12. TagIndexConsistent'
  <2>1. ASSUME NEW t \in Sets, NEW v \in Ways, m_cache'[t][v] # NULL
        PROVE  /\ addressToCacheSet(m_cache'[t][v]) = t
               /\ m_tag_index'[m_cache'[t][v]] = v
               /\ permission'[t][v] # "NotPresent"
    <3>1. CASE t = s /\ v = w
      BY <1>1, <1>2, <1>5, <1>7, <3>1 DEF TypeOK, s
    <3>2. CASE ~(t = s /\ v = w)
      <4>1. m_cache'[t][v] = m_cache[t][v] /\ permission'[t][v] = permission[t][v]
        BY <1>1, <1>2, <1>5, <1>7, <3>2 DEF TypeOK
      <4>2. m_cache[t][v] \in Addr /\ m_cache[t][v] # a
        BY <1>2, <1>3, <2>1, <4>1 DEF TypeOK
      <4>3. m_tag_index'[m_cache[t][v]] = m_tag_index[m_cache[t][v]]
        BY <1>2, <1>7, <4>2 DEF TypeOK
      <4> QED BY <1>2, <2>1, <4>1, <4>3 DEF TagIndexConsistent
    <3> QED BY <3>1, <3>2
  <2>2. ASSUME NEW b \in Addr, m_tag_index'[b] # NULL
        PROVE  m_cache'[addressToCacheSet(b)][m_tag_index'[b]] = b
    <3>1. CASE b = a
      BY <1>1, <1>2, <1>5, <1>7, <3>1 DEF TypeOK, s
    <3>2. CASE b # a
      <4>1. m_tag_index'[b] = m_tag_index[b]
        BY <1>2, <1>7, <3>2 DEF TypeOK
      <4>2. /\ addressToCacheSet(b) \in Sets /\ m_tag_index[b] \in Ways
            /\ m_cache[addressToCacheSet(b)][m_tag_index[b]] = b /\ b # NULL
        BY <1>2, <2>2, <4>1, SetInRange DEF TypeOK, TagIndexConsistent, NULL
      <4> QED BY <1>1, <1>2, <1>5, <1>7, <4>1, <4>2 DEF TypeOK
    <3> QED BY <3>1, <3>2
  <2> QED BY <2>1, <2>2 DEF TagIndexConsistent
<1>13. PolicyTracksResidents'
  BY <1>1, <1>2, <1>5, <1>7, <1>10
     DEF PolicyTracksResidents, TypeOK, ArcTypeOK
<1>14. RecencyAgrees'
  BY <1>1, <1>2, <1>5, <1>7, <1>10 DEF RecencyAgrees, TypeOK, ArcTypeOK
<1>15. NoPointerFault'
  BY <1>9 DEF NoPointerFault
<1> QED BY <1>5, <1>7, <1>9, <1>11, <1>12, <1>13, <1>14, <1>15 DEF IInv

(* allocate() as the client calls it: there is an open slot, so it does not *)
(* panic.                                                                   *)
LEMMA AllocateStep ==
  ASSUME IInv, NEW a \in Addr, Allocate(a)
  PROVE  IInv'
<1>1. TypeOK /\ TagIndexConsistent
  BY DEF IInv
<1>2. OpenSlots(addressToCacheSet(a)) # {}
  BY <1>1, SetInRange, LookupFacts DEF Allocate, cacheAvail, isTagPresent
<1>3. allocate(a, "Invalid") /\ UNCHANGED curTick /\ ~isTagPresent(a) /\ cacheAvail(a)
  BY <1>2 DEF Allocate
<1> QED BY <1>3, AllocateEffect DEF Permissions

(* deallocate() empties the way the index names and takes it from the       *)
(* policy; every other way and index entry is as before.                    *)
LEMMA DeallocateEffect ==
  ASSUME IInv, NEW a \in Addr, isTagPresent(a), deallocate(a),
         UNCHANGED curTick, PolicyInv'
  PROVE  IInv' /\ m_tag_index' = [m_tag_index EXCEPT ![a] = NULL]
<1> USE GeometryAssumption, CacheAssumption
<1> DEFINE s == addressToCacheSet(a)
           w == m_tag_index[a]
           d == Invalidated(replData[s][w])
<1>1. s \in Sets /\ a # NULL
  BY SetInRange DEF NULL
<1>2. /\ TypeOK /\ TagIndexConsistent /\ PolicyTracksResidents /\ NoPointerFault
      /\ RecencyAgrees /\ GhostBounded /\ TargetBounded
  BY DEF IInv
<1>3. findTagInSet(a) = w /\ w \in Ways /\ m_cache[s][w] = a
  BY <1>2, LookupFacts DEF isTagPresent
<1>4. /\ replData' = [replData EXCEPT ![s][w] = d]
      /\ linkedEntry' = [linkedEntry EXCEPT ![s][w] = "dangling"]
      /\ m_cache' = [m_cache EXCEPT ![s][w] = NULL]
      /\ permission' = [permission EXCEPT ![s][w] = "NotPresent"]
      /\ lastAccess' = [lastAccess EXCEPT ![s][w] = 0]
      /\ m_tag_index' = [m_tag_index EXCEPT ![a] = NULL]
      /\ UNCHANGED curTick
  BY <1>3 DEF deallocate, invalidate
<1>5. replData[s][w] \in ReplData
  BY <1>1, <1>2, <1>3 DEF TypeOK, ArcTypeOK
<1>6. d \in ReplData /\ d.valid = FALSE
  BY <1>5 DEF Invalidated, ReplData
<1> HIDE DEF s, w, d
<1>7. TypeOK'
  BY <1>1, <1>2, <1>3, <1>4, <1>6
     DEF TypeOK, ArcTypeOK, Links, Permissions, PolicyInv, NoPointerFault, Faults
<1>8. TagIndexConsistent'
  <2>1. ASSUME NEW t \in Sets, NEW v \in Ways, m_cache'[t][v] # NULL
        PROVE  /\ addressToCacheSet(m_cache'[t][v]) = t
               /\ m_tag_index'[m_cache'[t][v]] = v
               /\ permission'[t][v] # "NotPresent"
    <3>1. ~(t = s /\ v = w)
      BY <1>1, <1>2, <1>3, <1>4, <2>1 DEF TypeOK
    <3>2. m_cache'[t][v] = m_cache[t][v] /\ permission'[t][v] = permission[t][v]
      BY <1>1, <1>2, <1>3, <1>4, <3>1 DEF TypeOK
    <3>3. /\ addressToCacheSet(m_cache[t][v]) = t
          /\ m_tag_index[m_cache[t][v]] = v
          /\ permission[t][v] # "NotPresent"
          /\ m_cache[t][v] \in Addr
      BY <1>2, <2>1, <3>2 DEF TagIndexConsistent, TypeOK
    <3>4. m_cache[t][v] # a
      BY <3>1, <3>3 DEF s, w
    <3>5. m_tag_index'[m_cache[t][v]] = v
      BY <1>2, <1>4, <3>3, <3>4 DEF TypeOK
    <3> QED BY <3>2, <3>3, <3>5
  <2>2. ASSUME NEW b \in Addr, m_tag_index'[b] # NULL
        PROVE  m_cache'[addressToCacheSet(b)][m_tag_index'[b]] = b
    <3>1. b # a /\ m_tag_index'[b] = m_tag_index[b]
      BY <1>2, <1>4, <2>2 DEF TypeOK
    <3>2. /\ addressToCacheSet(b) \in Sets /\ m_tag_index[b] \in Ways
          /\ m_cache[addressToCacheSet(b)][m_tag_index[b]] = b
      BY <1>2, <2>2, <3>1, SetInRange DEF TypeOK, TagIndexConsistent
    <3>3. ~(addressToCacheSet(b) = s /\ m_tag_index[b] = w)
      BY <1>3, <3>1, <3>2
    <3> QED BY <1>1, <1>2, <1>3, <1>4, <3>1, <3>2, <3>3 DEF TypeOK
  <2> QED BY <2>1, <2>2 DEF TagIndexConsistent
<1>9. PolicyTracksResidents'
  <2> SUFFICES ASSUME NEW t \in Sets, NEW v \in Ways
               PROVE  /\ replData'[t][v].valid <=> m_cache'[t][v] # NULL
                      /\ linkedEntry'[t][v] = "live" <=> m_cache'[t][v] # NULL
    BY DEF PolicyTracksResidents
  <2>1. CASE t = s /\ v = w
    <3>1. /\ replData'[t][v] = d /\ m_cache'[t][v] = NULL
          /\ linkedEntry'[t][v] = "dangling"
      BY <1>2, <1>4, <2>1 DEF TypeOK, ArcTypeOK
    <3> QED BY <1>6, <3>1
  <2>2. CASE ~(t = s /\ v = w)
    <3>1. /\ replData'[t][v] = replData[t][v] /\ m_cache'[t][v] = m_cache[t][v]
          /\ linkedEntry'[t][v] = linkedEntry[t][v]
      BY <1>1, <1>2, <1>3, <1>4, <2>2 DEF TypeOK, ArcTypeOK
    <3>2. /\ replData[t][v].valid <=> m_cache[t][v] # NULL
          /\ linkedEntry[t][v] = "live" <=> m_cache[t][v] # NULL
      BY <1>2 DEF PolicyTracksResidents
    <3> QED BY <3>1, <3>2, Zenon
  <2> QED BY <2>1, <2>2, Zenon
<1>10. RecencyAgrees'
  BY <1>1, <1>2, <1>3, <1>4 DEF RecencyAgrees, TypeOK, ArcTypeOK
<1>11. NoPointerFault' /\ GhostBounded' /\ TargetBounded'
  BY DEF PolicyInv
<1> QED BY <1>4, <1>7, <1>8, <1>9, <1>10, <1>11 DEF IInv

(* deallocate() as the client calls it.                                     *)
LEMMA DeallocateStep ==
  ASSUME IInv, NEW a \in Addr, Deallocate(a)
  PROVE  IInv'
<1>1. PolicyInv'
  BY PolicyInvUnchanged DEF Deallocate
<1> QED BY <1>1, DeallocateEffect DEF Deallocate

(* cacheProbe() is called on a full set, all of whose ways are then valid,  *)
(* so it has a victim; it disturbs nothing but the ghost lists.             *)
LEMMA CacheProbeEffect ==
  ASSUME IInv, NEW a \in Addr, ~cacheAvail(a), cacheProbe(a), UNCHANGED targetP
  PROVE  /\ PolicyInv' /\ fault' = "none"
         /\ ProbedAddress(a) \in Addr /\ isTagPresent(ProbedAddress(a))
<1> USE GeometryAssumption, CacheAssumption
<1> DEFINE s == addressToCacheSet(a)
<1>1. s \in Sets
  BY SetInRange
<1>2. /\ TypeOK /\ TagIndexConsistent /\ PolicyTracksResidents
      /\ RecencyAgrees /\ GhostBounded /\ TargetBounded
  BY DEF IInv
<1>3. OpenSlots(s) = {} /\ OpenSlots(s) = {w \in Ways : m_cache[s][w] = NULL}
  BY <1>1, <1>2, LookupFacts DEF cacheAvail
<1>4. /\ getVictim(s)
      /\ fault' = IF Victim(s) = NoVictim THEN "nullVictim" ELSE "none"
      /\ UNCHANGED targetP
  BY DEF cacheProbe
<1> HIDE DEF s
<1>5. ValidWays(s) = Ways /\ 0 \in Ways
  BY <1>1, <1>2, <1>3 DEF ValidWays, PolicyTracksResidents, Ways
<1>6. Victim(s) \in Ways /\ Victim(s) # NoVictim
  <2>1. Victim(s) \in Ways
    BY <1>1, <1>5, VictimIsValid
  <2> QED BY <2>1 DEF NoVictim, Ways
<1>7. fault' = "none"
  BY <1>4, <1>6
<1>8. /\ sized' \in 0 .. NumSets
      /\ ghostB1' \in [Sets -> Seq(Nat)]
      /\ ghostB2' \in [Sets -> Seq(Nat)]
      /\ GhostBounded' /\ TargetBounded'
  BY <1>1, <1>2, <1>4, <1>6, GetVictimEffect
<1>9. PolicyInv'
  BY <1>2, <1>4, <1>7, <1>8 DEF PolicyInv, TypeOK, ArcTypeOK, NoPointerFault
<1> DEFINE v == m_cache[s][Victim(s)]
<1>10. v \in Addr /\ m_tag_index[v] = Victim(s)
  BY <1>1, <1>2, <1>3, <1>6 DEF TypeOK, TagIndexConsistent
<1>11. ProbedAddress(a) = v
  BY DEF ProbedAddress, s
<1> HIDE DEF v
<1>12. isTagPresent(v)
  BY <1>2, <1>6, <1>10, LookupFacts DEF isTagPresent, Ways, NULL
<1> QED BY <1>7, <1>9, <1>10, <1>11, <1>12

(* cacheProbe() as the client calls it.                                     *)
LEMMA CacheProbeStep ==
  ASSUME IInv, NEW a \in Addr, CacheProbe(a)
  PROVE  IInv'
<1>1. PolicyInv'
  BY CacheProbeEffect DEF CacheProbe
<1>2. UNCHANGED <<curTick, replData, linkedEntry, m_cache, permission, lastAccess,
                  m_tag_index>>
  BY DEF CacheProbe, cacheVars
<1>3. TypeOK'
  BY <1>1, <1>2 DEF IInv, PolicyInv, TypeOK, ArcTypeOK, NoPointerFault, Faults
<1>4. TagIndexConsistent'
  BY <1>2 DEF IInv, TagIndexConsistent
<1>5. PolicyTracksResidents'
  BY <1>2 DEF IInv, PolicyTracksResidents
<1>6. RecencyAgrees'
  BY <1>2 DEF IInv, RecencyAgrees
<1> QED BY <1>1, <1>3, <1>4, <1>5, <1>6 DEF IInv, PolicyInv

(* setMRU() stamps the entry and the policy's data with the same tick.      *)
LEMMA SetMRUEffect ==
  ASSUME IInv, NEW a \in Addr, isTagPresent(a), setMRU(a),
         UNCHANGED <<curTick, linkedEntry, ghostVars, targetP, fault, m_cache,
                     m_tag_index>>,
         permission' \in [Sets -> [Ways -> Permissions]],
         \A t \in Sets, v \in Ways :
            permission[t][v] # "NotPresent" => permission'[t][v] # "NotPresent"
  PROVE  IInv'
<1> USE GeometryAssumption, CacheAssumption
<1> DEFINE s == addressToCacheSet(a)
           w == m_tag_index[a]
           d == Touched(replData[s][w])
<1>1. s \in Sets
  BY SetInRange
<1>2. /\ TypeOK /\ TagIndexConsistent /\ PolicyTracksResidents /\ NoPointerFault
      /\ RecencyAgrees /\ GhostBounded /\ TargetBounded
  BY DEF IInv
<1>3. findTagInSet(a) = w /\ w \in Ways
  BY <1>2, LookupFacts DEF isTagPresent
<1>4. /\ replData' = [replData EXCEPT ![s][w] = d]
      /\ lastAccess' = [lastAccess EXCEPT ![s][w] = curTick]
      /\ UNCHANGED <<curTick, linkedEntry, sized, ghostB1, ghostB2, targetP,
                     fault, m_cache, m_tag_index>>
  BY <1>3 DEF setMRU, touch, ghostVars
<1>5. replData[s][w] \in ReplData /\ curTick \in Nat
  BY <1>1, <1>2, <1>3 DEF TypeOK, ArcTypeOK
<1>6. /\ d \in ReplData /\ d.valid = replData[s][w].valid
      /\ d.lastTouchTick = curTick
  BY <1>5 DEF Touched, ReplData
<1> HIDE DEF s, w, d
<1>7. TypeOK'
  BY <1>1, <1>2, <1>3, <1>4, <1>5, <1>6 DEF TypeOK, ArcTypeOK
<1>8. TagIndexConsistent'
  BY <1>2, <1>4 DEF TagIndexConsistent
<1>9. PolicyTracksResidents'
  <2>1. ASSUME NEW t \in Sets, NEW v \in Ways
        PROVE  replData'[t][v].valid = replData[t][v].valid
    <3>1. CASE t = s /\ v = w
      <4>1. replData'[t][v] = d
        BY <1>2, <1>4, <3>1 DEF TypeOK, ArcTypeOK
      <4> QED BY <1>6, <3>1, <4>1
    <3>2. CASE ~(t = s /\ v = w)
      <4>1. replData'[t][v] = replData[t][v]
        BY <1>1, <1>2, <1>3, <1>4, <3>2 DEF TypeOK, ArcTypeOK
      <4> QED BY <4>1
    <3> QED BY <3>1, <3>2
  <2>2. m_cache' = m_cache /\ linkedEntry' = linkedEntry
    BY <1>4
  <2> SUFFICES ASSUME NEW t \in Sets, NEW v \in Ways
               PROVE  /\ replData'[t][v].valid <=> m_cache'[t][v] # NULL
                      /\ linkedEntry'[t][v] = "live" <=> m_cache'[t][v] # NULL
    BY DEF PolicyTracksResidents
  <2>3. /\ replData[t][v].valid <=> m_cache[t][v] # NULL
        /\ linkedEntry[t][v] = "live" <=> m_cache[t][v] # NULL
    BY <1>2 DEF PolicyTracksResidents
  <2> QED BY <2>1, <2>2, <2>3, Zenon
<1>10. RecencyAgrees'
  BY <1>1, <1>2, <1>3, <1>4, <1>6 DEF RecencyAgrees, TypeOK, ArcTypeOK
<1>11. NoPointerFault' /\ GhostBounded' /\ TargetBounded'
  BY <1>2, <1>4 DEF NoPointerFault, GhostBounded, TargetBounded
<1> QED BY <1>7, <1>8, <1>9, <1>10, <1>11 DEF IInv

(* setMRU() as the client calls it.                                         *)
LEMMA SetMRUStep ==
  ASSUME IInv, NEW a \in Addr, SetMRU(a)
  PROVE  IInv'
<1>1. permission' = permission /\ permission \in [Sets -> [Ways -> Permissions]]
  BY DEF SetMRU, IInv, TypeOK
<1> QED BY <1>1, SetMRUEffect DEF SetMRU

(* A change of permission never gives NotPresent, so an occupied way stays  *)
(* visible to the index and closed to allocate().                           *)
LEMMA ChangePermissionStep ==
  ASSUME IInv, NEW a \in Addr, NEW perm \in ClientPerms, ChangePermission(a, perm)
  PROVE  IInv'
<1> USE GeometryAssumption, CacheAssumption
<1> DEFINE s == addressToCacheSet(a)
           w == m_tag_index[a]
<1>1. s \in Sets
  BY SetInRange
<1>2. /\ TypeOK /\ TagIndexConsistent /\ PolicyTracksResidents /\ NoPointerFault
      /\ RecencyAgrees /\ GhostBounded /\ TargetBounded
  BY DEF IInv
<1>3. findTagInSet(a) = w /\ w \in Ways
  BY <1>2, LookupFacts DEF ChangePermission, isTagPresent
<1>4. /\ permission' = [permission EXCEPT ![s][w] = perm]
      /\ UNCHANGED <<curTick, replData, linkedEntry, sized, ghostB1, ghostB2,
                     targetP, fault, m_cache, lastAccess, m_tag_index>>
  BY <1>3 DEF ChangePermission, ghostVars
<1> HIDE DEF s, w
<1>5. TypeOK'
  BY <1>1, <1>2, <1>3, <1>4 DEF TypeOK, ArcTypeOK, Permissions
<1>6. TagIndexConsistent'
  <2>1. \A t \in Sets, v \in Ways :
          permission[t][v] # "NotPresent" => permission'[t][v] # "NotPresent"
    BY <1>1, <1>2, <1>3, <1>4 DEF TypeOK
  <2> QED BY <1>2, <1>4, <2>1 DEF TagIndexConsistent
<1>7. PolicyTracksResidents' /\ RecencyAgrees'
  BY <1>2, <1>4 DEF PolicyTracksResidents, RecencyAgrees
<1>8. NoPointerFault' /\ GhostBounded' /\ TargetBounded'
  BY <1>2, <1>4 DEF NoPointerFault, GhostBounded, TargetBounded
<1> QED BY <1>5, <1>6, <1>7, <1>8 DEF IInv

(* Steps that leave the cache and the policy alone.                         *)
LEMMA QuietStep ==
  ASSUME IInv, AdvanceTick \/ UNCHANGED vars
  PROVE  IInv'
<1>1. /\ TypeOK /\ TagIndexConsistent /\ PolicyTracksResidents /\ NoPointerFault
      /\ RecencyAgrees /\ GhostBounded /\ TargetBounded
  BY DEF IInv
<1>2. /\ curTick' \in Nat
      /\ UNCHANGED <<replData, linkedEntry, sized, ghostB1, ghostB2, targetP,
                     fault, m_cache, permission, lastAccess, m_tag_index>>
  BY <1>1 DEF AdvanceTick, vars, ghostVars, cacheVars, TypeOK, ArcTypeOK
<1>3. TypeOK'
  BY <1>1, <1>2 DEF TypeOK, ArcTypeOK
<1>4. TagIndexConsistent' /\ PolicyTracksResidents' /\ RecencyAgrees'
  <2>1. TagIndexConsistent'
    BY <1>1, <1>2 DEF TagIndexConsistent
  <2>2. PolicyTracksResidents'
    BY <1>1, <1>2 DEF PolicyTracksResidents
  <2>3. RecencyAgrees'
    BY <1>1, <1>2 DEF RecencyAgrees
  <2> QED BY <2>1, <2>2, <2>3
<1>5. NoPointerFault' /\ GhostBounded' /\ TargetBounded'
  BY <1>1, <1>2 DEF NoPointerFault, GhostBounded, TargetBounded
<1> QED BY <1>3, <1>4, <1>5 DEF IInv

(* The invariant is inductive.                                              *)
LEMMA NextIInv == IInv /\ [Next]_vars => IInv'
<1> SUFFICES ASSUME IInv, [Next]_vars PROVE IInv'
  OBVIOUS
<1>1. ASSUME NEW a \in Addr, Allocate(a) PROVE IInv'
  BY <1>1, AllocateStep
<1>2. ASSUME NEW a \in Addr, Deallocate(a) PROVE IInv'
  BY <1>2, DeallocateStep
<1>3. ASSUME NEW a \in Addr, CacheProbe(a) PROVE IInv'
  BY <1>3, CacheProbeStep
<1>4. ASSUME NEW a \in Addr, SetMRU(a) \/ TryCacheAccess(a) PROVE IInv'
  BY <1>4, SetMRUStep DEF TryCacheAccess
<1>5. ASSUME NEW a \in Addr, NEW perm \in ClientPerms, ChangePermission(a, perm)
      PROVE  IInv'
  BY <1>5, ChangePermissionStep
<1>6. CASE AdvanceTick \/ Halted \/ UNCHANGED vars
  BY <1>6, QuietStep DEF Halted
<1> QED BY <1>1, <1>2, <1>3, <1>4, <1>5, <1>6 DEF Next

--------------------------------------------------------------------------------
(* The theorems.                                                            *)

(* Every state the cache and its policy reach satisfies the invariant.      *)
LEMMA Invariance == Spec => []IInv
BY InitIInv, NextIInv, PTL DEF Spec

(* The state keeps its types, over any length of run.                       *)
THEOREM TypeCorrect == Spec => []TypeOK
<1>1. IInv => TypeOK
  BY DEF IInv
<1> QED BY <1>1, Invariance, PTL

(* The tag index and the array agree forever: lookup() never returns the    *)
(* entry of another block, and no block is cached twice.                    *)
THEOREM IndexStaysConsistent == Spec => []TagIndexConsistent
<1>1. IInv => TagIndexConsistent
  BY DEF IInv
<1> QED BY <1>1, Invariance, PTL

(* The policy's valid bits and back-pointers follow the array.              *)
THEOREM PolicyFollowsCache == Spec => []PolicyTracksResidents
<1>1. IInv => PolicyTracksResidents
  BY DEF IInv
<1> QED BY <1>1, Invariance, PTL

(* cacheProbe() always has a victim to dereference, reset() a live entry to *)
(* read the set from, and allocate() an open slot, whatever the geometry.   *)
THEOREM PointersAreSafe == Spec => []NoPointerFault
<1>1. IInv => NoPointerFault
  BY DEF IInv
<1> QED BY <1>1, Invariance, PTL

(* The checkpointed order and the policy's order never part.                *)
THEOREM RecencyStaysEqual == Spec => []RecencyAgrees
<1>1. IInv => RecencyAgrees
  BY DEF IInv
<1> QED BY <1>1, Invariance, PTL

(* Ghost lists stay within what addToGhost() bounds them by, however often  *)
(* a set is probed.                                                         *)
THEOREM GhostsStayBounded == Spec => []GhostBounded
<1>1. IInv => GhostBounded
  BY DEF IInv
<1> QED BY <1>1, Invariance, PTL

(* adjustP() keeps every target between zero and two list lengths, whatever *)
(* the steps that B1 hits add.                                              *)
THEOREM TargetsStayBounded == Spec => []TargetBounded
<1>1. IInv => TargetBounded
  BY DEF IInv
<1> QED BY <1>1, Invariance, PTL
================================================================================
