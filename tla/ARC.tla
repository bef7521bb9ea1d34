---------------------------------- MODULE ARC ----------------------------------
(***************************************************************************)
(* The ARC replacement policy (arc_rp.cc, arc_rp.hh) and the back-pointer   *)
(* from replacement data to cache entry (replaceable_entry.hh) it relies    *)
(* on.  The policy has no steps of its own: every method runs inside a call *)
(* of the cache, so this module defines the methods as action fragments     *)
(* that the module of the caller conjoins with its own state changes.       *)
(***************************************************************************)
EXTENDS Integers, Sequences, FiniteSets, SequencesExt

CONSTANTS NumSets,    \* m_cache_num_sets of the cache the policy serves
          Assoc       \* m_cache_assoc

ASSUME GeometryAssumption ==
    /\ NumSets \in Nat /\ NumSets > 1
    /\ Assoc \in Nat /\ Assoc > 0

Sets == 0 .. NumSets - 1
Ways == 0 .. Assoc - 1

(* ARCReplData().tag.  No statement of the program assigns the field again. *)
InitialTag == 0

(***************************************************************************)
(* sized is the common length of the vectors ghostB1, ghostB2 and targetP,  *)
(* which the code only ever resizes together; the elements at and beyond    *)
(* sized do not exist yet and hold here the value resize() will give them.  *)
(* linkedEntry says what ReplacementData::entry points to: nothing defined  *)
(* (the member has no initialiser), the entry now in that slot, or one that *)
(* was deleted.  fault records why the simulator process stopped, if it did.*)
(***************************************************************************)
VARIABLES curTick, replData, linkedEntry, sized, ghostB1, ghostB2, targetP,
          fault

ghostVars == <<sized, ghostB1, ghostB2>>

ReplData == [lastTouchTick : Nat, listId : {1, 2}, valid : BOOLEAN, tag : Nat]

Links  == {"uninitialised", "live", "dangling"}
Faults == {"none", "divByZero", "wildEntry", "nullVictim", "noOpenSlot"}

ArcTypeOK ==
    /\ curTick \in Nat
    /\ replData \in [Sets -> [Ways -> ReplData]]
    /\ linkedEntry \in [Sets -> [Ways -> Links]]
    /\ sized \in 0 .. NumSets
    /\ ghostB1 \in [Sets -> Seq(Nat)]
    /\ ghostB2 \in [Sets -> Seq(Nat)]
    /\ targetP \in [Sets -> Int]
    /\ fault \in Faults

instantiateEntry ==
    [lastTouchTick |-> 0, listId |-> 1, valid |-> FALSE, tag |-> InitialTag]

ArcInit ==
    /\ curTick = 0
    /\ replData = [s \in Sets |-> [w \in Ways |-> instantiateEntry]]
    /\ linkedEntry = [s \in Sets |-> [w \in Ways |-> "uninitialised"]]
    /\ sized = 0
    /\ ghostB1 = [s \in Sets |-> << >>]
    /\ ghostB2 = [s \in Sets |-> << >>]
    /\ targetP = [s \in Sets |-> 0]
    /\ fault = "none"

--------------------------------------------------------------------------------
(* What the per-entry methods make of one entry's data.                     *)

(* Variants of Touched: the stamp is forgotten; every touch moves the block *)
(* one list up.                                                             *)
TouchedUnstamped(d) == [d EXCEPT !.listId = 2]
TouchedClimbing(d) == [d EXCEPT !.lastTouchTick = curTick, !.listId = @ + 1]

Touched(d) ==
    [d EXCEPT !.lastTouchTick = curTick,
              !.listId = IF d.listId = 1 THEN 2 ELSE d.listId]

Invalidated(d) == [d EXCEPT !.valid = FALSE]

touch(s, w) == replData' = [replData EXCEPT ![s][w] = Touched(@)]

(* Variant of invalidate: the valid bit survives.                           *)
invalidateNothing(s, w) == UNCHANGED replData

invalidate(s, w) == replData' = [replData EXCEPT ![s][w] = Invalidated(@)]

(* Variant of setPosition: the class before it kept a back-pointer.         *)
setPositionUnlinked(s, w, hasData) == UNCHANGED linkedEntry

(* ReplaceableEntry::setPosition: the back-pointer is set only when the      *)
(* entry already has its replacement data.                                  *)
setPosition(s, w, hasData) ==
    linkedEntry' = IF hasData THEN [linkedEntry EXCEPT ![s][w] = "live"]
                   ELSE linkedEntry

--------------------------------------------------------------------------------
(* Ghost lists and the target size of T1.                                   *)

(* Variant of Resized: one element too many.                                *)
ResizedBeyond(s) == IF s >= sized THEN s + 2 ELSE sized

Resized(s) == IF s >= sized THEN s + 1 ELSE sized

(* Variant of addToGhost: the length is compared before the push.           *)
addToGhostLate(list, tag, cap) ==
    IF Len(list) > cap THEN Append(Tail(list), tag) ELSE Append(list, tag)

addToGhost(list, tag, cap) ==
    LET longer == Append(list, tag)
    IN  IF Len(longer) > cap THEN Tail(longer) ELSE longer

removeFromGhost(list, tag) == RemoveFirst(list, tag)

(* The step of the target: mine is the length of the list that was hit,     *)
(* after the hit tag has left it, and other that of the opposite list.      *)
delta(mine, other) ==
    IF mine >= other THEN 1 ELSE (other + mine - 1) \div mine

(* delta's quotient has a zero divisor: the hardware traps.                 *)
DividesByZero(mine, other) == mine < other /\ mine = 0

(* Variant of adjustP: no floor at zero.                                    *)
adjustPUnclamped(p, b1Size, b2Size, hitInB1) ==
    IF hitInB1 THEN p + delta(b1Size, b2Size) ELSE p - delta(b2Size, b1Size)

adjustP(p, b1Size, b2Size, hitInB1) ==
    IF hitInB1
    THEN LET up == p + delta(b1Size, b2Size)
         IN  IF up < b1Size + b2Size THEN up ELSE b1Size + b2Size
    ELSE LET down == p - delta(b2Size, b1Size)
         IN  IF down > 0 THEN down ELSE 0

(***************************************************************************)
(* reset reads the set number through data->entry; the caller has just set  *)
(* linkedEntry', and any value but "live" is an undefined pointer.          *)
(***************************************************************************)
reset(s, w) ==
    LET tag   == replData[s][w].tag
        hitB1 == Contains(ghostB1[s], tag)
        hitB2 == ~hitB1 /\ Contains(ghostB2[s], tag)
        b1    == IF hitB1 THEN removeFromGhost(ghostB1[s], tag) ELSE ghostB1[s]
        b2    == IF hitB2 THEN removeFromGhost(ghostB2[s], tag) ELSE ghostB2[s]
        traps == \/ hitB1 /\ DividesByZero(Len(b1), Len(b2))
                 \/ hitB2 /\ DividesByZero(Len(b2), Len(b1))
        hit   == hitB1 \/ hitB2
    IN  /\ sized' = Resized(s)
        /\ ghostB1' = [ghostB1 EXCEPT ![s] = b1]
        /\ ghostB2' = [ghostB2 EXCEPT ![s] = b2]
        /\ targetP' = IF hit /\ ~traps
                      THEN [targetP EXCEPT
                              ![s] = adjustP(@, Len(b1), Len(b2), hitB1)]
                      ELSE targetP
        /\ replData' = [replData EXCEPT ![s][w] =
                          [lastTouchTick |-> curTick,
                           listId |-> IF traps THEN @.listId
                                      ELSE IF hit THEN 2 ELSE 1,
                           valid |-> TRUE,
                           tag |-> tag]]
        /\ fault' = IF linkedEntry'[s][w] # "live" THEN "wildEntry"
                    ELSE IF traps THEN "divByZero" ELSE "none"

--------------------------------------------------------------------------------
(* Choosing a victim among the ways of one set.                             *)

NoVictim == -1

ValidWays(s) == {w \in Ways : replData[s][w].valid}

T1(s) == {w \in ValidWays(s) : replData[s][w].listId = 1}
T2(s) == {w \in ValidWays(s) : replData[s][w].listId # 1}

evictFromT1(s) == Cardinality(T1(s)) > targetP[s] \/ T2(s) = {}

(* The scan keeps the first way, in way order, with the least time stamp    *)
(* among those of the list stamped before the present tick.                 *)
LeastRecent(s, list) ==
    LET older == {w \in list : replData[s][w].lastTouchTick < curTick}
    IN  {w \in older : \A v \in older :
            replData[s][w].lastTouchTick <= replData[s][v].lastTouchTick}

Victim(s) ==
    LET lru == LeastRecent(s, IF evictFromT1(s) THEN T1(s) ELSE T2(s))
    IN  IF lru # {} THEN Min(lru)
        ELSE IF ValidWays(s) # {} THEN Min(ValidWays(s)) ELSE NoVictim

(* The time stamp the scan compares with: that of the best way so far.      *)
Oldest(s, best) ==
    IF best = NoVictim THEN curTick ELSE replData[s][best].lastTouchTick

(* Variant of Better: a tie moves the choice to the later way.              *)
BetterOrEqual(s, best, w) ==
    replData[s][w].lastTouchTick <= Oldest(s, best)

Better(s, best, w) == replData[s][w].lastTouchTick < Oldest(s, best)

(* The loops of getVictim: best[n] and first[n] are what each has found     *)
(* after the first n ways.                                                  *)
ScannedVictim(s) ==
    LET list == IF evictFromT1(s) THEN T1(s) ELSE T2(s)
        best[n \in 0 .. Assoc] ==
            IF n = 0 THEN NoVictim
            ELSE LET b == best[n - 1]
                 IN  IF n - 1 \in list /\ Better(s, b, n - 1) THEN n - 1 ELSE b
        first[n \in 0 .. Assoc] ==
            IF n = 0 THEN best[Assoc]
            ELSE IF first[n - 1] = NoVictim /\ n - 1 \in ValidWays(s) THEN n - 1
            ELSE first[n - 1]
    IN  first[Assoc]

getVictim(s) ==
    LET v    == Victim(s)
        inT1 == v # NoVictim /\ replData[s][v].listId = 1
        inT2 == v # NoVictim /\ replData[s][v].listId # 1
    IN  /\ sized' = Resized(s)
        /\ ghostB1' = IF inT1 THEN [ghostB1 EXCEPT ![s] =
                                addToGhost(@, replData[s][v].tag, Resized(s))]
                      ELSE ghostB1
        /\ ghostB2' = IF inT2 THEN [ghostB2 EXCEPT ![s] =
                                addToGhost(@, replData[s][v].tag, Resized(s))]
                      ELSE ghostB2

(* The two loops of getVictim() choose what Victim says: the first of the   *)
(* least recent ways of the chosen list, none of them touched in this tick, *)
(* or the first valid way.                                                  *)
ScanFindsVictim == \A s \in Sets : ScannedVictim(s) = Victim(s)
================================================================================
