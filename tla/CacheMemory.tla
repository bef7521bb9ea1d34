------------------------------ MODULE CacheMemory ------------------------------
(***************************************************************************)
(* Ruby's tag and data array (CacheMemory.cc) together with the replacement *)
(* policy it drives (module ARC).  The lower-case operators are the methods,*)
(* as fragments a controller's transition can combine; the actions at the   *)
(* end make any sequence of calls that respects the methods' assertions.    *)
(***************************************************************************)
EXTENDS ARC

CONSTANTS Addr,          \* line addresses, numbered by line
          SetBits,       \* m_cache_num_set_bits
          ClientPerms,   \* permissions the protocol gives to a cached block
          MaxTick        \* bound on simulated time

(* init() asserts more than one set and takes floorLog2 of their number; a  *)
(* cached entry may not be given the permission NotPresent (see the warning *)
(* in allocate()).                                                          *)
ASSUME CacheAssumption ==
    /\ Addr \subseteq Nat
    /\ SetBits \in Nat \ {0}
    /\ 2 ^ SetBits \in 2 .. NumSets
    /\ NumSets < 2 ^ (SetBits + 1)
    /\ "NotPresent" \notin ClientPerms
    /\ MaxTick \in Nat

NULL == -1   \* an empty way of m_cache; also "not found" in the tag index

(* m_cache[s][w] is the address of the entry in that way.  permission and   *)
(* lastAccess are its m_Permission and m_last_touch_tick.                   *)
VARIABLES m_cache, permission, lastAccess, m_tag_index

cacheVars == <<m_cache, permission, lastAccess, m_tag_index>>

vars == <<curTick, replData, linkedEntry, sized, ghostB1, ghostB2, targetP,
          fault, m_cache, permission, lastAccess, m_tag_index>>

Permissions == ClientPerms \union {"Invalid", "NotPresent"}

TypeOK ==
    /\ ArcTypeOK
    /\ m_cache \in [Sets -> [Ways -> Addr \union {NULL}]]
    /\ permission \in [Sets -> [Ways -> Permissions]]
    /\ lastAccess \in [Sets -> [Ways -> Nat]]
    /\ m_tag_index \in [Addr -> Ways \union {NULL}]

Init ==
    /\ ArcInit
    /\ m_cache = [s \in Sets |-> [w \in Ways |-> NULL]]
    /\ permission = [s \in Sets |-> [w \in Ways |-> "NotPresent"]]
    /\ lastAccess = [s \in Sets |-> [w \in Ways |-> 0]]
    /\ m_tag_index = [a \in Addr |-> NULL]

--------------------------------------------------------------------------------
(* Queries.                                                                 *)

addressToCacheSet(a) == a % (2 ^ SetBits)

findTagInSet(a) ==
    LET w == m_tag_index[a]
    IN  IF w # NULL /\ permission[addressToCacheSet(a)][w] # "NotPresent"
        THEN w ELSE NULL

isTagPresent(a) == findTagInSet(a) # NULL

OpenSlots(s) ==
    {w \in Ways : m_cache[s][w] = NULL \/ permission[s][w] = "NotPresent"}

cacheAvail(a) ==
    LET s == addressToCacheSet(a)
    IN  OpenSlots(s) # {} \/ \E w \in Ways : m_cache[s][w] = a

--------------------------------------------------------------------------------
(* Methods.                                                                 *)

(* perm is what the block's permission is once the caller's transition ends:*)
(* allocate() itself writes Invalid.                                        *)
allocate(a, perm) ==
    LET s == addressToCacheSet(a)
        w == Min(OpenSlots(s))
    IN  /\ m_cache' = [m_cache EXCEPT ![s][w] = a]
        /\ permission' = [permission EXCEPT ![s][w] = perm]
        /\ m_tag_index' = [m_tag_index EXCEPT ![a] = w]
        /\ lastAccess' = [lastAccess EXCEPT ![s][w] = curTick]
        /\ setPosition(s, w, TRUE)
        /\ reset(s, w)

(* Variant of deallocate: the address is not erased from the tag index.     *)
deallocateKeepingTag(a) ==
    LET s == addressToCacheSet(a)
        w == findTagInSet(a)
    IN  /\ invalidate(s, w)
        /\ linkedEntry' = [linkedEntry EXCEPT ![s][w] = "dangling"]
        /\ m_cache' = [m_cache EXCEPT ![s][w] = NULL]
        /\ permission' = [permission EXCEPT ![s][w] = "NotPresent"]
        /\ lastAccess' = [lastAccess EXCEPT ![s][w] = 0]
        /\ UNCHANGED m_tag_index

deallocate(a) ==
    LET s == addressToCacheSet(a)
        w == findTagInSet(a)
    IN  /\ invalidate(s, w)
        /\ linkedEntry' = [linkedEntry EXCEPT ![s][w] = "dangling"]
        /\ m_cache' = [m_cache EXCEPT ![s][w] = NULL]
        /\ permission' = [permission EXCEPT ![s][w] = "NotPresent"]
        /\ lastAccess' = [lastAccess EXCEPT ![s][w] = 0]
        /\ m_tag_index' = [m_tag_index EXCEPT ![a] = NULL]

(* The address cacheProbe returns; the null victim has none.                *)
ProbedAddress(a) ==
    LET s == addressToCacheSet(a) IN m_cache[s][Victim(s)]

cacheProbe(a) ==
    LET s == addressToCacheSet(a)
    IN  /\ getVictim(s)
        /\ fault' = IF Victim(s) = NoVictim THEN "nullVictim" ELSE "none"

setMRU(a) ==
    LET s == addressToCacheSet(a)
        w == findTagInSet(a)
    IN  /\ touch(s, w)
        /\ lastAccess' = [lastAccess EXCEPT ![s][w] = curTick]

--------------------------------------------------------------------------------
(* A client that makes any calls the assertions allow.  The guards are the  *)
(* asserts at the head of each method.                                      *)

Running == fault = "none"

Allocate(a) ==
    /\ Running
    /\ ~isTagPresent(a)
    /\ cacheAvail(a)
    /\ IF OpenSlots(addressToCacheSet(a)) = {}
       THEN /\ fault' = "noOpenSlot"     \* panic at the end of allocate()
            /\ UNCHANGED <<replData, linkedEntry, targetP>>
            /\ UNCHANGED <<ghostVars, cacheVars>>
       ELSE allocate(a, "Invalid")
    /\ UNCHANGED curTick

Deallocate(a) ==
    /\ Running
    /\ isTagPresent(a)
    /\ deallocate(a)
    /\ UNCHANGED <<curTick, ghostVars, targetP, fault>>

CacheProbe(a) ==
    /\ Running
    /\ ~cacheAvail(a)
    /\ cacheProbe(a)
    /\ UNCHANGED <<curTick, replData, linkedEntry, targetP, cacheVars>>

(* setMRU on a block that is absent does nothing.                           *)
SetMRU(a) ==
    /\ Running
    /\ isTagPresent(a)
    /\ setMRU(a)
    /\ UNCHANGED <<curTick, linkedEntry, ghostVars, targetP, fault, m_cache,
                   permission, m_tag_index>>

(* tryCacheAccess and testCacheAccess refresh recency on a tag match, before*)
(* and whatever the permission test then answers.                           *)
TryCacheAccess(a) == SetMRU(a)

ChangePermission(a, perm) ==
    /\ Running
    /\ isTagPresent(a)
    /\ permission' = [permission EXCEPT
                        ![addressToCacheSet(a)][findTagInSet(a)] = perm]
    /\ UNCHANGED <<curTick, replData, linkedEntry, ghostVars, targetP, fault,
                   m_cache, lastAccess, m_tag_index>>

AdvanceTick ==
    /\ Running
    /\ curTick < MaxTick
    /\ curTick' = curTick + 1
    /\ UNCHANGED <<replData, linkedEntry, ghostVars, targetP, fault, cacheVars>>

(* The process is gone.                                                     *)
Halted == ~Running /\ UNCHANGED vars

Next ==
    \/ \E a \in Addr : \/ Allocate(a)
                       \/ Deallocate(a)
                       \/ CacheProbe(a)
                       \/ SetMRU(a)
                       \/ TryCacheAccess(a)
                       \/ \E perm \in ClientPerms : ChangePermission(a, perm)
    \/ AdvanceTick
    \/ Halted

Spec == Init /\ [][Next]_vars

--------------------------------------------------------------------------------
(* Properties.                                                              *)

(* m_tag_index and the array agree: every occupied way holds a block of its *)
(* own set that the index maps back to that way, and the index maps no      *)
(* address to a way that does not hold it.  So a block is cached once, and  *)
(* lookup() never returns another block's entry or reads an empty way.      *)
TagIndexConsistent ==
    /\ \A s \in Sets, w \in Ways : m_cache[s][w] # NULL =>
          /\ addressToCacheSet(m_cache[s][w]) = s
          /\ m_tag_index[m_cache[s][w]] = w
          /\ permission[s][w] # "NotPresent"
    /\ \A a \in Addr : m_tag_index[a] # NULL =>
          m_cache[addressToCacheSet(a)][m_tag_index[a]] = a

(* The policy's valid bits are exactly the occupied ways, and each of those *)
(* has replacement data pointing back at the entry that is there now.  It   *)
(* is why getVictim() on a full set always finds a victim.                  *)
PolicyTracksResidents ==
    \A s \in Sets, w \in Ways :
        /\ replData[s][w].valid <=> m_cache[s][w] # NULL
        /\ linkedEntry[s][w] = "live" <=> m_cache[s][w] # NULL

(* No call sequence makes cacheProbe() dereference a null victim, reset()   *)
(* read an unset or dangling entry pointer, or allocate() run out of slots. *)
NoPointerFault == fault \in {"none", "divByZero"}

(* The policy's order and the order recordCacheContents() saves agree: the  *)
(* entry's last access and the policy's last touch are the same tick.       *)
RecencyAgrees ==
    \A s \in Sets, w \in Ways : m_cache[s][w] # NULL =>
        lastAccess[s][w] = replData[s][w].lastTouchTick

(* addToGhost() keeps each ghost list within the number of sets the policy  *)
(* has seen, whatever the number of probes, and never writes beyond the     *)
(* per-set vectors.                                                         *)
GhostBounded ==
    \A s \in Sets :
        /\ Len(ghostB1[s]) <= sized /\ Len(ghostB2[s]) <= sized
        /\ s >= sized => /\ ghostB1[s] = << >> /\ ghostB2[s] = << >>
                         /\ targetP[s] = 0

(* The blocks a controller can see, and the store they amount to.           *)
CachedBlocks == {a \in Addr : isTagPresent(a)}

Store == INSTANCE SetStore WITH
            resident <- CachedBlocks,
            SetOf    <- [a \in Addr |-> addressToCacheSet(a)]

(* The cache implements a set-associative store: seen through lookup(), a   *)
(* call adds one absent block to a set with fewer than Assoc blocks, takes  *)
(* one out, or changes nothing.  No block appears or vanishes on the side.  *)
ImplementsStore == Store!Spec

(* targetP stays a list length: never negative, never beyond what two ghost *)
(* lists can hold, although B1 hits add steps larger than one.              *)
TargetBounded == \A s \in Sets : targetP[s] \in 0 .. 2 * sized
================================================================================
