------------------------------ MODULE Store_proof ------------------------------
(***************************************************************************)
(* CacheMemory implements SetStore, for every geometry: the refinement      *)
(* mapping takes the blocks lookup() finds.                                 *)
(***************************************************************************)
EXTENDS CacheMemory_proof, FiniteSetTheorems

(* What lookup() finds is what the tag index holds, before and after a step.*)
LEMMA CachedAreIndexed ==
  ASSUME TypeOK, TagIndexConsistent
  PROVE  CachedBlocks = {b \in Addr : m_tag_index[b] # NULL}
BY LookupFacts DEF CachedBlocks, isTagPresent

LEMMA CachedAreIndexedNext ==
  ASSUME TypeOK', TagIndexConsistent'
  PROVE  CachedBlocks' = {b \in Addr : m_tag_index'[b] # NULL}
<1> SUFFICES ASSUME NEW b \in Addr
             PROVE  isTagPresent(b)' <=> m_tag_index'[b] # NULL
  BY DEF CachedBlocks
<1>1. addressToCacheSet(b) \in Sets /\ b # NULL
  BY SetInRange, CacheAssumption DEF NULL
<1>2. m_tag_index'[b] # NULL =>
         permission'[addressToCacheSet(b)][m_tag_index'[b]] # "NotPresent"
  BY <1>1 DEF TypeOK, TagIndexConsistent
<1> QED BY <1>2 DEF isTagPresent, findTagInSet, addressToCacheSet

(* A set with an open slot caches fewer blocks than it has ways: each block *)
(* has a way of its own, and none has the open one.                         *)
LEMMA RoomInSet ==
  ASSUME TypeOK, TagIndexConsistent, NEW s \in Sets,
         NEW open \in Ways, m_cache[s][open] = NULL
  PROVE  Cardinality({b \in CachedBlocks : addressToCacheSet(b) = s}) < Assoc
<1> USE GeometryAssumption, CacheAssumption
<1> DEFINE S == {b \in CachedBlocks : addressToCacheSet(b) = s}
           T == Ways \ {open}
           f == [b \in S |-> m_tag_index[b]]
<1>1. \A b \in S : /\ b \in Addr /\ b # NULL
                   /\ m_tag_index[b] \in Ways /\ m_cache[s][m_tag_index[b]] = b
  <2> SUFFICES ASSUME NEW b \in S
               PROVE  /\ b \in Addr /\ b # NULL
                      /\ m_tag_index[b] \in Ways
                      /\ m_cache[s][m_tag_index[b]] = b
    OBVIOUS
  <2>1. b \in Addr /\ m_tag_index[b] # NULL /\ addressToCacheSet(b) = s
    BY CachedAreIndexed
  <2> QED BY <2>1, LookupFacts DEF NULL
<1>2. f \in [S -> T]
  BY <1>1
<1>3. \A b, c \in S : f[b] = f[c] => b = c
  BY <1>1
<1>4. f \in Injection(S, T)
  BY <1>2, <1>3 DEF Injection, IsInjective
<1>5. IsFiniteSet(Ways) /\ Cardinality(Ways) = Assoc
  BY FS_Interval DEF Ways
<1>6. IsFiniteSet(T) /\ Cardinality(T) = Assoc - 1
  BY <1>5, FS_RemoveElement
<1> HIDE DEF S, T, f
<1>7. IsFiniteSet(S) /\ Cardinality(S) <= Cardinality(T)
  BY <1>4, <1>6, FS_Injection
<1>8. Cardinality(S) \in Nat
  BY <1>7, FS_CardinalityType
<1> QED BY <1>6, <1>7, <1>8 DEF S

(* allocate() is an insertion.                                              *)
LEMMA AllocateInserts ==
  ASSUME IInv, IInv', NEW a \in Addr, Allocate(a)
  PROVE  Store!Insert(a)
<1> USE GeometryAssumption, CacheAssumption
<1> DEFINE s == addressToCacheSet(a)
<1>1. /\ TypeOK /\ TagIndexConsistent /\ TypeOK' /\ TagIndexConsistent'
  BY DEF IInv
<1>2. s \in Sets
  BY SetInRange
<1>3. /\ m_tag_index[a] = NULL
      /\ \A t \in Sets, v \in Ways : m_cache[t][v] # a
      /\ OpenSlots(s) = {v \in Ways : m_cache[s][v] = NULL}
  BY <1>1, <1>2, LookupFacts DEF Allocate, isTagPresent
<1>4. OpenSlots(s) # {}
  BY <1>2, <1>3 DEF Allocate, cacheAvail
<1>5. PICK open \in Ways : m_cache[s][open] = NULL
  BY <1>3, <1>4
<1>6. Min(OpenSlots(s)) \in Ways
  <2>1. OpenSlots(s) \subseteq Nat
    BY <1>3 DEF Ways
  <2> QED BY <1>3, <1>4, <2>1, MinMember
<1>7. m_tag_index' = [m_tag_index EXCEPT ![a] = Min(OpenSlots(s))]
  BY <1>4 DEF Allocate, allocate
<1>8. CachedBlocks' = CachedBlocks \union {a} /\ a \notin CachedBlocks
  <2>1. Min(OpenSlots(s)) # NULL
    BY <1>6 DEF Ways, NULL
  <2>2. m_tag_index \in [Addr -> Ways \union {NULL}]
    BY <1>1 DEF TypeOK
  <2>3. /\ m_tag_index'[a] # NULL
        /\ \A b \in Addr \ {a} : m_tag_index'[b] = m_tag_index[b]
    BY <1>7, <2>1, <2>2
  <2>4. CachedBlocks = {b \in Addr : m_tag_index[b] # NULL}
    BY <1>1, CachedAreIndexed
  <2>5. CachedBlocks' = {b \in Addr : m_tag_index'[b] # NULL}
    BY <1>1, CachedAreIndexedNext
  <2>6. \A b : b \in CachedBlocks' <=> b \in CachedBlocks \union {a}
    <3>1. \A b : b \in CachedBlocks' <=> b \in Addr /\ m_tag_index'[b] # NULL
      BY <2>5
    <3>2. \A b : b \in CachedBlocks <=> b \in Addr /\ m_tag_index[b] # NULL
      BY <2>4
    <3> QED BY <2>3, <3>1, <3>2
  <2>7. a \notin CachedBlocks
    BY <1>3, <2>4
  <2> HIDE DEF s
  <2> QED BY <2>6, <2>7
<1>9. Cardinality({b \in CachedBlocks : addressToCacheSet(b) = s}) < Assoc
  BY <1>1, <1>2, <1>5, RoomInSet
<1>10. Store!SameSet(a) = {b \in CachedBlocks : addressToCacheSet(b) = s}
  BY DEF Store!SameSet, CachedBlocks
<1> DEFINE same == {b \in CachedBlocks : addressToCacheSet(b) = s}
<1> HIDE DEF same, s
<1>11. Store!Cardinality(same) = Cardinality(same)
  BY DEF Store!Cardinality, Cardinality
<1>12. Store!SameSet(a) = same /\ Cardinality(same) < Assoc
  BY <1>9, <1>10 DEF same
<1>13. Store!Cardinality(Store!SameSet(a)) < Assoc
  BY <1>11, <1>12
<1> QED BY <1>8, <1>13 DEF Store!Insert

(* deallocate() is a removal.                                               *)
LEMMA DeallocateRemoves ==
  ASSUME IInv, IInv', NEW a \in Addr, Deallocate(a)
  PROVE  Store!Remove(a)
<1>1. /\ TypeOK /\ TagIndexConsistent /\ TypeOK' /\ TagIndexConsistent'
  BY DEF IInv
<1>2. a \in CachedBlocks
  BY DEF Deallocate, CachedBlocks
<1>3. m_tag_index' = [m_tag_index EXCEPT ![a] = NULL]
  BY DEF Deallocate, deallocate
<1>4. CachedBlocks' = CachedBlocks \ {a}
  <2>1. m_tag_index \in [Addr -> Ways \union {NULL}]
    BY <1>1 DEF TypeOK
  <2>2. /\ m_tag_index'[a] = NULL
        /\ \A b \in Addr \ {a} : m_tag_index'[b] = m_tag_index[b]
    BY <1>3, <2>1
  <2>3. CachedBlocks = {b \in Addr : m_tag_index[b] # NULL}
    BY <1>1, CachedAreIndexed
  <2>4. CachedBlocks' = {b \in Addr : m_tag_index'[b] # NULL}
    BY <1>1, CachedAreIndexedNext
  <2> QED BY <2>2, <2>3, <2>4
<1> QED BY <1>2, <1>4 DEF Store!Remove

(* Every step of the cache is a step of the store or leaves it unchanged.   *)
LEMMA StepSimulated == IInv /\ IInv' /\ [Next]_vars => [Store!Next]_CachedBlocks
<1> SUFFICES ASSUME IInv, IInv', [Next]_vars
             PROVE  Store!Next \/ CachedBlocks' = CachedBlocks
  OBVIOUS
<1>1. ASSUME NEW a \in Addr, Allocate(a) PROVE Store!Next
  BY <1>1, AllocateInserts DEF Store!Next
<1>2. ASSUME NEW a \in Addr, Deallocate(a) PROVE Store!Next
  BY <1>2, DeallocateRemoves DEF Store!Next
<1>3. ASSUME m_tag_index' = m_tag_index PROVE CachedBlocks' = CachedBlocks
  <2>1. /\ TypeOK /\ TagIndexConsistent /\ TypeOK' /\ TagIndexConsistent'
    BY DEF IInv
  <2>2. CachedBlocks = {b \in Addr : m_tag_index[b] # NULL}
    BY <2>1, CachedAreIndexed
  <2>3. CachedBlocks' = {b \in Addr : m_tag_index'[b] # NULL}
    BY <2>1, CachedAreIndexedNext
  <2> QED BY <1>3, <2>2, <2>3
<1>4. ASSUME NEW a \in Addr,
             \/ CacheProbe(a) \/ SetMRU(a) \/ TryCacheAccess(a)
             \/ \E perm \in ClientPerms : ChangePermission(a, perm)
      PROVE  m_tag_index' = m_tag_index
  BY <1>4 DEF CacheProbe, SetMRU, TryCacheAccess, ChangePermission, cacheVars
<1>5. ASSUME AdvanceTick \/ Halted \/ UNCHANGED vars
      PROVE  m_tag_index' = m_tag_index
  BY <1>5 DEF AdvanceTick, Halted, cacheVars, vars
<1> QED BY <1>1, <1>2, <1>3, <1>4, <1>5 DEF Next

(* The cache implements the store: what a controller sees through lookup()  *)
(* is a set-associative store without ways, tags or policy.                 *)
THEOREM CacheImplementsStore == Spec => ImplementsStore
<1>1. Init => Store!Init
  BY DEF Init, Store!Init, CachedBlocks, isTagPresent, findTagInSet
<1>2. IInv /\ IInv' /\ [Next]_vars => [Store!Next]_CachedBlocks
  BY StepSimulated
<1>3. Spec => []IInv
  BY Invariance
<1> QED BY <1>1, <1>2, <1>3, PTL DEF Spec, ImplementsStore, Store!Spec
================================================================================
