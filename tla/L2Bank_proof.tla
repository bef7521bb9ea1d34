----------------------------- MODULE L2Bank_proof -----------------------------
(***************************************************************************)
(* Proofs about L2Bank for every geometry, number of TBEs, set of blocks    *)
(* and number of requests.                                                  *)
(***************************************************************************)
EXTENDS L2Bank, CacheMemory_proof, FiniteSetTheorems

(* The states of a block that has a TBE, and the blocks that have one.      *)
Buffered == {"Fetching", "Evicting"}
InTBE    == {a \in Addr : l2state[a] \in Buffered}

(***************************************************************************)
(* The inductive invariant.  The cache's own invariant is part of it: an    *)
(* allocation or replacement changes controller and cache in one step, and  *)
(* what a probe returns is resident only because index, array and policy    *)
(* agree.  The count of TBEs is bounded only while it is finite.            *)
(***************************************************************************)
BInv ==
    /\ IInv
    /\ BankTypeOK
    /\ StateMatchesCache
    /\ ParkedOnTransaction
    /\ NoRequestDuplicated
    /\ TBEsBounded
    /\ IsFiniteSet(InTBE)

(* An empty bank satisfies it.                                              *)
LEMMA BankInitInv == BankInit => BInv
<1> SUFFICES ASSUME BankInit PROVE BInv
  OBVIOUS
<1>1. IInv /\ TypeOK
  BY InitIInv DEF BankInit, IInv
<1>2. BankTypeOK
  BY <1>1, EmptySeq DEF BankInit, BankTypeOK, L2States, Resident
<1>3. StateMatchesCache
  BY DEF BankInit, Init, StateMatchesCache, isTagPresent, findTagInSet, Resident
<1>4. ParkedOnTransaction /\ NoRequestDuplicated
  BY DEF BankInit, ParkedOnTransaction, NoRequestDuplicated
<1>5. InTBE = {}
  BY DEF BankInit, InTBE, Buffered
<1>6. TBEsBounded /\ IsFiniteSet(InTBE)
  BY <1>5, FS_EmptySet, BankAssumption DEF TBEsBounded, InTBE, Buffered
<1> QED BY <1>1, <1>2, <1>3, <1>4, <1>6 DEF BInv

(* lookup() finds what the tag index holds, before and after a step.        *)
LEMMA PresentIsIndexed ==
  ASSUME IInv, NEW a \in Addr
  PROVE  isTagPresent(a) <=> m_tag_index[a] # NULL
BY LookupFacts DEF IInv, isTagPresent

LEMMA PresentIsIndexedNext ==
  ASSUME IInv', NEW a \in Addr
  PROVE  isTagPresent(a)' <=> m_tag_index'[a] # NULL
<1>1. addressToCacheSet(a) \in Sets /\ a # NULL
  BY SetInRange, CacheAssumption DEF NULL
<1>2. m_tag_index'[a] # NULL =>
         permission'[addressToCacheSet(a)][m_tag_index'[a]] # "NotPresent"
  BY <1>1 DEF IInv, TypeOK, TagIndexConsistent
<1> QED BY <1>2 DEF isTagPresent, findTagInSet, addressToCacheSet

(* A block that gets a TBE when one is free, or has one already, or gets    *)
(* none, leaves the table within its size.                                  *)
LEMMA TableStaysBounded ==
  ASSUME l2state \in [Addr -> L2States], IsFiniteSet(InTBE), TBEsBounded,
         NEW a \in Addr, NEW st \in L2States, setState(a, st),
         st \in Buffered => TBEFree \/ l2state[a] \in Buffered
  PROVE  TBEsBounded' /\ IsFiniteSet(InTBE')
<1>1. /\ Cardinality(InTBE) <= NumTBEs
      /\ TBEFree <=> Cardinality(InTBE) < NumTBEs
      /\ TBEsBounded' <=> Cardinality(InTBE') <= NumTBEs
  BY DEF TBEsBounded, TBEFree, InTBE, Buffered
<1>2. /\ l2state'[a] = st
      /\ \A b \in Addr \ {a} : l2state'[b] = l2state[b]
  BY DEF setState
<1>3. Cardinality(InTBE) \in Nat /\ NumTBEs \in Nat
  BY FS_CardinalityType, BankAssumption
<1>4. CASE st \in Buffered /\ l2state[a] \notin Buffered
  <2>1. InTBE' = InTBE \cup {a} /\ a \notin InTBE
    BY <1>2, <1>4 DEF InTBE
  <2>2. IsFiniteSet(InTBE') /\ Cardinality(InTBE') = Cardinality(InTBE) + 1
    BY <2>1, FS_AddElement
  <2> QED BY <1>1, <1>3, <1>4, <2>2
<1>5. CASE ~(st \in Buffered /\ l2state[a] \notin Buffered)
  <2>1. InTBE' \subseteq InTBE
    BY <1>2, <1>5 DEF InTBE
  <2>2. IsFiniteSet(InTBE') /\ Cardinality(InTBE') <= Cardinality(InTBE)
    BY <2>1, FS_Subset
  <2>3. Cardinality(InTBE') \in Nat
    BY <2>2, FS_CardinalityType
  <2> QED BY <1>1, <1>3, <2>2, <2>3
<1> QED BY <1>4, <1>5

(* What a transition on block a does with the message it has peeked at: it  *)
(* pops it, leaves it, parks it on the block, or wakes what is parked there.*)
QueueStep(a) ==
    \/ \E r \in ready : pop(r)
    \/ UNCHANGED <<ready, stalledOn>>
    \/ \E r \in ready : stall_and_wait(r, a)
    \/ wakeUpBuffers(a)

(* Each of these keeps every request in one place.                          *)
LEMMA QueuesStayDisjoint ==
  ASSUME BankTypeOK, NoRequestDuplicated, NEW a \in Addr, QueueStep(a),
         UNCHANGED reqs
  PROVE  /\ ready' \subseteq 1 .. Len(reqs')
         /\ stalledOn' \in [Addr -> SUBSET (1 .. Len(reqs'))]
         /\ NoRequestDuplicated'
<1>1. /\ ready \subseteq 1 .. Len(reqs)
      /\ stalledOn \in [Addr -> SUBSET (1 .. Len(reqs))]
  BY DEF BankTypeOK
<1>2. CASE (\E r \in ready : pop(r)) \/ UNCHANGED <<ready, stalledOn>>
  BY <1>1, <1>2 DEF pop, NoRequestDuplicated
<1>3. ASSUME NEW r \in ready, stall_and_wait(r, a)
      PROVE  /\ ready' \subseteq 1 .. Len(reqs')
             /\ stalledOn' \in [Addr -> SUBSET (1 .. Len(reqs'))]
             /\ NoRequestDuplicated'
  <2>1. /\ ready' = ready \ {r}
        /\ stalledOn' = [stalledOn EXCEPT ![a] = @ \union {r}]
    BY <1>3 DEF stall_and_wait
  <2>2. \A b \in Addr : r \notin stalledOn[b]
    BY DEF NoRequestDuplicated
  <2>3. \A b \in Addr : stalledOn'[b] \subseteq stalledOn[b] \union {r}
    BY <1>1, <2>1
  <2>4. \A b \in Addr : b # a => stalledOn'[b] = stalledOn[b]
    BY <1>1, <2>1
  <2>5. NoRequestDuplicated'
    BY <2>1, <2>2, <2>3, <2>4 DEF NoRequestDuplicated
  <2> QED BY <1>1, <2>1, <2>5
<1>4. CASE wakeUpBuffers(a)
  <2>1. /\ ready' = ready \union stalledOn[a]
        /\ stalledOn' = [stalledOn EXCEPT ![a] = {}]
    BY <1>4 DEF wakeUpBuffers
  <2>2. \A b \in Addr : stalledOn'[b] = IF b = a THEN {} ELSE stalledOn[b]
    BY <1>1, <2>1
  <2>3. NoRequestDuplicated'
    BY <2>1, <2>2 DEF NoRequestDuplicated
  <2> QED BY <1>1, <2>1, <2>3
<1> QED BY <1>2, <1>3, <1>4 DEF QueueStep

(***************************************************************************)
(* A transition of block a to state st.  What it must respect, apart from   *)
(* the cache's invariant: the tag index holds the block exactly in the      *)
(* resident states, a TBE is taken only if one is free, and the messages    *)
(* parked on the block are woken when its transaction ends.                 *)
(***************************************************************************)
LEMMA TransitionKeepsInv ==
  ASSUME BInv, IInv', UNCHANGED reqs,
         NEW a \in Addr, NEW st \in L2States, setState(a, st),
         \A b \in Addr \ {a} : m_tag_index'[b] = m_tag_index[b],
         m_tag_index'[a] # NULL <=> st \in Resident,
         st \in Buffered => TBEFree \/ l2state[a] \in Buffered,
         QueueStep(a),
         \/ st \in Transient
         \/ stalledOn' = stalledOn /\ l2state[a] \notin Transient
         \/ wakeUpBuffers(a)
  PROVE  BInv'
<1>1. /\ BankTypeOK /\ StateMatchesCache /\ ParkedOnTransaction
      /\ NoRequestDuplicated /\ TBEsBounded /\ IsFiniteSet(InTBE)
  BY DEF BInv
<1>2. /\ l2state \in [Addr -> L2States]
      /\ stalledOn \in [Addr -> SUBSET (1 .. Len(reqs))]
  BY <1>1 DEF BankTypeOK
<1>3. /\ l2state' \in [Addr -> L2States] /\ l2state'[a] = st
      /\ \A b \in Addr \ {a} : l2state'[b] = l2state[b]
  BY <1>2 DEF setState
<1>4. /\ ready' \subseteq 1 .. Len(reqs')
      /\ stalledOn' \in [Addr -> SUBSET (1 .. Len(reqs'))]
      /\ NoRequestDuplicated'
  BY <1>1, QueuesStayDisjoint
<1>5. BankTypeOK'
  <2>1. TypeOK'
    BY DEF IInv
  <2>2. reqs' \in Seq([addr : Addr, kind : Kinds])
    BY <1>1 DEF BankTypeOK
  <2> QED BY <1>3, <1>4, <2>1, <2>2 DEF BankTypeOK
<1>6. StateMatchesCache'
  <2> SUFFICES ASSUME NEW b \in Addr
               PROVE  isTagPresent(b)' <=> l2state'[b] \in Resident
    BY DEF StateMatchesCache
  <2>1. isTagPresent(b)' <=> m_tag_index'[b] # NULL
    BY PresentIsIndexedNext
  <2>2. IInv
    BY DEF BInv
  <2>3. isTagPresent(b) <=> m_tag_index[b] # NULL
    BY <2>2, PresentIsIndexed
  <2>4. isTagPresent(b) <=> l2state[b] \in Resident
    BY <1>1 DEF StateMatchesCache
  <2>5. CASE b = a
    BY <1>3, <2>1, <2>5
  <2>6. CASE b # a
    <3>1. m_tag_index'[b] = m_tag_index[b] /\ l2state'[b] = l2state[b]
      BY <1>3, <2>6
    <3> QED BY <2>1, <2>3, <2>4, <3>1
  <2> QED BY <2>5, <2>6
<1>7. ParkedOnTransaction'
  <2> SUFFICES ASSUME NEW b \in Addr, stalledOn'[b] # {}
               PROVE  l2state'[b] \in Transient
    BY DEF ParkedOnTransaction
  <2>1. CASE b # a
    <3>1. stalledOn'[b] = stalledOn[b]
      BY <1>2, <2>1 DEF QueueStep, pop, stall_and_wait, wakeUpBuffers
    <3> QED BY <1>1, <1>3, <2>1, <3>1 DEF ParkedOnTransaction
  <2>2. CASE b = a /\ st \in Transient
    BY <1>3, <2>2
  <2>3. CASE b = a /\ stalledOn' = stalledOn /\ l2state[a] \notin Transient
    BY <1>1, <2>3 DEF ParkedOnTransaction
  <2>4. CASE b = a /\ wakeUpBuffers(a)
    BY <1>2, <2>4 DEF wakeUpBuffers
  <2> QED BY <2>1, <2>2, <2>3, <2>4
<1>8. TBEsBounded' /\ IsFiniteSet(InTBE')
  BY <1>1, <1>2, TableStaysBounded
<1> QED BY <1>4, <1>5, <1>6, <1>7, <1>8 DEF BInv

(* A step that changes neither the controller's state nor the index.        *)
LEMMA StandingStillKeepsInv ==
  ASSUME BInv, IInv', UNCHANGED <<reqs, l2state, m_tag_index>>,
         NEW a \in Addr, QueueStep(a),
         stalledOn' = stalledOn \/ l2state[a] \in Transient
  PROVE  BInv'
<1>1. l2state \in [Addr -> L2States] /\ IInv /\ StateMatchesCache
  BY DEF BInv, BankTypeOK
<1>2. l2state[a] \in L2States /\ setState(a, l2state[a])
  BY <1>1 DEF setState
<1>3. m_tag_index'[a] # NULL <=> l2state[a] \in Resident
  BY <1>1, PresentIsIndexed DEF StateMatchesCache
<1> QED BY <1>2, <1>3, TransitionKeepsInv

(* The request the port peeks at is one of the arrived.                     *)
LEMMA PeekedRequest ==
  ASSUME BankTypeOK, ready # {}
  PROVE  /\ Head1 \in ready
         /\ reqs[Head1].addr \in Addr
<1>1. ready \subseteq 1 .. Len(reqs) /\ reqs \in Seq([addr : Addr, kind : Kinds])
  BY DEF BankTypeOK
<1>2. ready \subseteq Nat
  BY <1>1
<1>3. Head1 \in ready
  BY <1>2, MinMember DEF Head1
<1>4. reqs[Head1] \in [addr : Addr, kind : Kinds]
  <2> DEFINE M == [addr : Addr, kind : Kinds]
  <2>1. reqs \in Seq(M) /\ Head1 \in 1 .. Len(reqs)
    BY <1>1, <1>3
  <2> HIDE DEF M
  <2>2. reqs[Head1] \in M
    BY <2>1
  <2> QED BY <2>2 DEF M
<1> QED BY <1>3, <1>4

(* What leaves the cache untouched leaves its invariant.                    *)
LEMMA UntouchedKeepsIInv ==
  ASSUME IInv, CacheUntouched, UNCHANGED curTick
  PROVE  IInv' /\ m_tag_index' = m_tag_index
<1>1. UNCHANGED vars /\ m_tag_index' = m_tag_index
  BY DEF CacheUntouched, vars, ghostVars, cacheVars
<1> QED BY <1>1, QuietStep

(* The permissions a controller writes on a resident block.                 *)
LEMMA AccessPermissionEffect ==
  ASSUME IInv, NEW a \in Addr, isTagPresent(a), NEW st, setAccessPermission(a, st)
  PROVE  /\ permission' \in [Sets -> [Ways -> Permissions]]
         /\ \A t \in Sets, v \in Ways :
               permission[t][v] # "NotPresent" => permission'[t][v] # "NotPresent"
<1> DEFINE s == addressToCacheSet(a)
           w == findTagInSet(a)
           p == IF st = "Stable" THEN "Granted" ELSE "Busy"
<1>1. permission \in [Sets -> [Ways -> Permissions]] /\ s \in Sets /\ w \in Ways
  BY LookupFacts, SetInRange DEF IInv, TypeOK, isTagPresent
<1>2. permission' = [permission EXCEPT ![s][w] = p]
  BY DEF setAccessPermission
<1>3. p \in Permissions /\ p # "NotPresent"
  BY BankAssumption, CacheAssumption DEF Permissions
<1> HIDE DEF s, w, p
<1> QED BY <1>1, <1>2, <1>3

(* A request that finds its block.                                          *)
LEMMA RequestResidentStep ==
  ASSUME BInv, RequestResident
  PROVE  BInv'
<1> DEFINE r == Head1
           a == reqs[r].addr
<1>1. IInv /\ BankTypeOK
  BY DEF BInv
<1>2. r \in ready /\ a \in Addr /\ isTagPresent(a) /\ UNCHANGED <<curTick, reqs>>
  BY <1>1, PeekedRequest DEF RequestResident
<1>3. ASSUME l2state[a] = "Stable", setMRU(a), pop(r),
             NEW st \in {"Stable", "Blocked"}, setState(a, st),
             setAccessPermission(a, st),
             UNCHANGED <<linkedEntry, ghostVars, targetP, fault, m_cache, m_tag_index>>
      PROVE  BInv'
  <2>1. IInv'
    BY <1>1, <1>2, <1>3, AccessPermissionEffect, SetMRUEffect
  <2>2. m_tag_index'[a] # NULL
    BY <1>1, <1>2, <1>3, PresentIsIndexed
  <2>3. QueueStep(a) /\ stalledOn' = stalledOn
    BY <1>2, <1>3 DEF QueueStep, pop
  <2>4. l2state[a] \notin Transient /\ st \in L2States /\ st \in Resident
        /\ st \notin Buffered
    BY <1>3 DEF Transient, L2States, Resident, Buffered
  <2> QED BY <1>2, <1>3, <2>1, <2>2, <2>3, <2>4, TransitionKeepsInv
<1>4. ASSUME CacheUntouched, UNCHANGED l2state,
             pop(r) \/ (stall_and_wait(r, a) /\ l2state[a] \in {"Fetching", "Blocked"})
      PROVE  BInv'
  <2>1. IInv' /\ m_tag_index' = m_tag_index
    BY <1>1, <1>2, <1>4, UntouchedKeepsIInv
  <2>2. QueueStep(a) /\ (stalledOn' = stalledOn \/ l2state[a] \in Transient)
    BY <1>2, <1>4 DEF QueueStep, pop, Transient
  <2> QED BY <1>2, <1>4, <2>1, <2>2, StandingStillKeepsInv
<1>5. \/ /\ l2state[a] = "Stable" /\ setMRU(a) /\ pop(r)
         /\ \E st \in {"Stable", "Blocked"} :
               setState(a, st) /\ setAccessPermission(a, st)
         /\ UNCHANGED <<linkedEntry, ghostVars, targetP, fault, m_cache,
                        m_tag_index>>
      \/ /\ CacheUntouched /\ UNCHANGED l2state
         /\ pop(r) \/ (stall_and_wait(r, a) /\ l2state[a] \in {"Fetching", "Blocked"})
  BY Zenon DEF RequestResident
<1> QED BY <1>3, <1>4, <1>5, Zenon

(* A request that allocates or finds its block gone.                        *)
LEMMA RequestWithRoomStep ==
  ASSUME BInv, RequestWithRoom
  PROVE  BInv'
<1> DEFINE r == Head1
           a == reqs[r].addr
<1>1. IInv /\ BankTypeOK
  BY DEF BInv
<1>2. /\ r \in ready /\ a \in Addr /\ ~isTagPresent(a) /\ cacheAvail(a)
      /\ UNCHANGED <<curTick, reqs>>
  BY <1>1, PeekedRequest DEF RequestWithRoom
<1>3. ASSUME l2state[a] = "NP", TBEFree, allocate(a, "Busy"),
             setState(a, "Fetching"), pop(r)
      PROVE  BInv'
  <2>1. "Busy" \in Permissions \ {"NotPresent"}
    BY BankAssumption, CacheAssumption DEF Permissions
  <2>2. IInv' /\ \E w \in Ways : m_tag_index' = [m_tag_index EXCEPT ![a] = w]
    BY <1>1, <1>2, <1>3, <2>1, AllocateEffect
  <2>3. PICK w \in Ways : m_tag_index' = [m_tag_index EXCEPT ![a] = w]
    BY <2>2
  <2>4. m_tag_index \in [Addr -> Ways \union {NULL}] /\ w # NULL
    BY <1>1, GeometryAssumption DEF IInv, TypeOK, Ways, NULL
  <2>5. /\ m_tag_index'[a] # NULL
        /\ \A b \in Addr \ {a} : m_tag_index'[b] = m_tag_index[b]
    BY <1>2, <2>3, <2>4
  <2>6. QueueStep(a)
    BY <1>2, <1>3 DEF QueueStep
  <2>7. "Fetching" \in L2States /\ "Fetching" \in Resident /\ "Fetching" \in Transient
    BY DEF Transient, L2States, Resident
  <2> QED BY <1>2, <1>3, <2>2, <2>5, <2>6, <2>7, TransitionKeepsInv
<1>4. ASSUME CacheUntouched, UNCHANGED l2state,
             pop(r) \/ (stall_and_wait(r, a) /\ l2state[a] = "Evicting")
      PROVE  BInv'
  <2>1. IInv' /\ m_tag_index' = m_tag_index
    BY <1>1, <1>2, <1>4, UntouchedKeepsIInv
  <2>2. QueueStep(a) /\ (stalledOn' = stalledOn \/ l2state[a] \in Transient)
    BY <1>2, <1>4 DEF QueueStep, pop, Transient
  <2> QED BY <1>2, <1>4, <2>1, <2>2, StandingStillKeepsInv
<1>5. \/ /\ l2state[a] = "NP" /\ TBEFree /\ allocate(a, "Busy")
         /\ setState(a, "Fetching") /\ pop(r)
      \/ /\ CacheUntouched /\ UNCHANGED l2state
         /\ pop(r) \/ (stall_and_wait(r, a) /\ l2state[a] = "Evicting")
  BY Zenon DEF RequestWithRoom
<1> QED BY <1>3, <1>4, <1>5, Zenon

(* A request that meets a full set: the victim's block leaves the cache, or *)
(* the probe alone has its effect.                                          *)
LEMMA RequestNoRoomStep ==
  ASSUME BInv, RequestNoRoom
  PROVE  BInv'
<1> DEFINE r == Head1
           a == reqs[r].addr
           v == ProbedAddress(a)
<1>1. IInv /\ BankTypeOK
  BY DEF BInv
<1>2. /\ r \in ready /\ a \in Addr /\ ~cacheAvail(a) /\ cacheProbe(a) /\ Running
      /\ UNCHANGED <<curTick, targetP, reqs>>
  BY <1>1, PeekedRequest DEF RequestNoRoom
<1>3. PolicyInv' /\ v \in Addr /\ isTagPresent(v)
  BY <1>1, <1>2, CacheProbeEffect
<1>4. ASSUME l2state[v] = "Stable", TBEFree, deallocate(v),
             setState(v, "Evicting"), UNCHANGED <<ready, stalledOn>>
      PROVE  BInv'
  <2> HIDE DEF v
  <2>1. IInv' /\ m_tag_index' = [m_tag_index EXCEPT ![v] = NULL]
    BY <1>1, <1>2, <1>3, <1>4, DeallocateEffect
  <2>2. m_tag_index \in [Addr -> Ways \union {NULL}]
    BY <1>1 DEF IInv, TypeOK
  <2>3. /\ m_tag_index'[v] = NULL
        /\ \A b \in Addr \ {v} : m_tag_index'[b] = m_tag_index[b]
    BY <1>3, <2>1, <2>2
  <2>4. QueueStep(v)
    BY <1>4 DEF QueueStep
  <2>5. "Evicting" \in L2States /\ "Evicting" \notin Resident /\ "Evicting" \in Transient
    BY DEF Transient, L2States, Resident
  <2> QED BY <1>2, <1>3, <1>4, <2>1, <2>3, <2>4, <2>5, TransitionKeepsInv
<1>5. ASSUME UNCHANGED <<replData, linkedEntry, cacheVars, l2state>>,
             \/ UNCHANGED <<ready, stalledOn>>
             \/ stall_and_wait(r, v) /\ l2state[v] \in {"Fetching", "Blocked"}
      PROVE  BInv'
  <2>1. CacheProbe(a)
    BY <1>2, <1>5 DEF CacheProbe
  <2>2. IInv' /\ m_tag_index' = m_tag_index
    BY <1>1, <1>2, <1>5, <2>1, CacheProbeStep DEF cacheVars
  <2>3. QueueStep(v) /\ (stalledOn' = stalledOn \/ l2state[v] \in Transient)
    BY <1>2, <1>5 DEF QueueStep, Transient
  <2> QED BY <1>2, <1>3, <1>5, <2>2, <2>3, StandingStillKeepsInv
<1>6. \/ /\ l2state[v] = "Stable" /\ TBEFree /\ deallocate(v)
         /\ setState(v, "Evicting") /\ UNCHANGED <<ready, stalledOn>>
      \/ /\ UNCHANGED <<replData, linkedEntry, cacheVars, l2state>>
         /\ \/ UNCHANGED <<ready, stalledOn>>
            \/ stall_and_wait(r, v) /\ l2state[v] \in {"Fetching", "Blocked"}
  BY DEF RequestNoRoom
<1> QED BY <1>4, <1>5, <1>6, Zenon

(* The end of a transaction on a resident block, or of its fetching half.   *)
LEMMA PermissionStepKeepsInv ==
  ASSUME BInv, NEW a \in Addr, NEW st \in {"Stable", "Blocked"}, Running,
         l2state[a] \in Resident, setState(a, st), setAccessPermission(a, st),
         wakeUpBuffers(a) \/ (st = "Blocked" /\ UNCHANGED <<ready, stalledOn>>),
         UNCHANGED <<curTick, replData, linkedEntry, ghostVars, targetP, fault,
                     m_cache, lastAccess, m_tag_index, reqs>>
  PROVE  BInv'
<1>1. IInv /\ isTagPresent(a)
  BY DEF BInv, StateMatchesCache
<1>2. PICK perm \in ClientPerms : ChangePermission(a, perm)
  <2>1. IF st = "Stable" THEN "Granted" \in ClientPerms ELSE "Busy" \in ClientPerms
    BY BankAssumption
  <2> QED BY <1>1, <2>1 DEF ChangePermission, setAccessPermission
<1>3. IInv'
  BY <1>1, <1>2, ChangePermissionStep
<1>4. m_tag_index'[a] # NULL
  BY <1>1, PresentIsIndexed
<1>5. QueueStep(a)
  BY DEF QueueStep
<1>6. /\ st \in L2States /\ st \in Resident /\ st \notin Buffered
      /\ st = "Blocked" => st \in Transient
  BY DEF Transient, L2States, Resident, Buffered
<1> QED BY <1>3, <1>4, <1>5, <1>6, TransitionKeepsInv

(* The responses: data from memory, the unblock, the write-back's ack, and  *)
(* the directory's recall.                                                  *)
LEMMA ResponseStep ==
  ASSUME BInv, NEW a \in Addr, MemData(a) \/ Unblock(a) \/ MemAck(a) \/ MemInv(a)
  PROVE  BInv'
<1>1. IInv /\ BankTypeOK /\ StateMatchesCache
  BY DEF BInv
<1>2. CASE MemData(a)
  <2>1. /\ Running /\ l2state[a] \in Resident
        /\ UNCHANGED <<curTick, replData, linkedEntry, ghostVars, targetP, fault,
                       m_cache, lastAccess, m_tag_index, reqs>>
    BY <1>2 DEF MemData, Resident
  <2>2. \E st \in {"Stable", "Blocked"} :
           /\ setState(a, st) /\ setAccessPermission(a, st)
           /\ wakeUpBuffers(a) \/ (st = "Blocked" /\ UNCHANGED <<ready, stalledOn>>)
    BY <1>2 DEF MemData
  <2> QED BY <2>1, <2>2, PermissionStepKeepsInv
<1>3. CASE Unblock(a)
  <2>1. /\ Running /\ l2state[a] \in Resident
        /\ setState(a, "Stable") /\ setAccessPermission(a, "Stable")
        /\ wakeUpBuffers(a)
        /\ UNCHANGED <<curTick, replData, linkedEntry, ghostVars, targetP, fault,
                       m_cache, lastAccess, m_tag_index, reqs>>
    BY <1>3 DEF Unblock, Resident
  <2> QED BY <2>1, PermissionStepKeepsInv
<1>4. CASE MemAck(a)
  <2>1. /\ l2state[a] = "Evicting" /\ setState(a, "NP") /\ wakeUpBuffers(a)
        /\ CacheUntouched /\ UNCHANGED <<curTick, reqs>>
    BY <1>4 DEF MemAck
  <2>2. IInv' /\ m_tag_index' = m_tag_index
    BY <1>1, <2>1, UntouchedKeepsIInv
  <2>3. m_tag_index'[a] = NULL
    BY <1>1, <2>1, <2>2, PresentIsIndexed DEF StateMatchesCache, Resident
  <2>4. QueueStep(a)
    BY <2>1 DEF QueueStep
  <2>5. "NP" \in L2States /\ "NP" \notin Resident /\ "NP" \notin Buffered
    BY DEF L2States, Resident, Transient, Buffered
  <2> QED BY <2>1, <2>2, <2>3, <2>4, <2>5, TransitionKeepsInv
<1>5. CASE MemInv(a)
  <2>1. /\ Running /\ l2state[a] = "Stable" /\ TBEFree /\ deallocate(a)
        /\ setState(a, "Evicting")
        /\ UNCHANGED <<curTick, ghostVars, targetP, fault, reqs, ready, stalledOn>>
    BY <1>5 DEF MemInv
  <2>2. isTagPresent(a)
    BY <1>1, <2>1 DEF StateMatchesCache, Resident
  <2>3. PolicyInv'
    BY <1>1, <2>1, PolicyInvUnchanged
  <2>4. IInv' /\ m_tag_index' = [m_tag_index EXCEPT ![a] = NULL]
    BY <1>1, <2>1, <2>2, <2>3, DeallocateEffect
  <2>5. m_tag_index \in [Addr -> Ways \union {NULL}]
    BY <1>1 DEF IInv, TypeOK
  <2>6. /\ m_tag_index'[a] = NULL
        /\ \A b \in Addr \ {a} : m_tag_index'[b] = m_tag_index[b]
    BY <2>4, <2>5
  <2>7. QueueStep(a)
    BY <2>1 DEF QueueStep
  <2>8. "Evicting" \in L2States /\ "Evicting" \notin Resident /\ "Evicting" \in Transient
    BY DEF Transient, L2States, Resident
  <2> QED BY <2>1, <2>4, <2>6, <2>7, <2>8, TransitionKeepsInv
<1> QED BY <1>2, <1>3, <1>4, <1>5

(* The environment: a request arrives, time passes, nothing happens.        *)
LEMMA EnvironmentStep ==
  ASSUME BInv,
         \/ \E a \in Addr, kind \in Kinds : Arrive(a, kind)
         \/ Time
         \/ UNCHANGED allVars
  PROVE  BInv'
<1>1. /\ IInv /\ BankTypeOK /\ StateMatchesCache /\ ParkedOnTransaction
      /\ NoRequestDuplicated /\ TBEsBounded /\ IsFiniteSet(InTBE)
  BY DEF BInv
<1>2. /\ l2state \in [Addr -> L2States]
      /\ reqs \in Seq([addr : Addr, kind : Kinds])
      /\ ready \subseteq 1 .. Len(reqs)
      /\ stalledOn \in [Addr -> SUBSET (1 .. Len(reqs))]
  BY <1>1 DEF BankTypeOK
<1>3. /\ AdvanceTick \/ UNCHANGED vars
      /\ UNCHANGED <<l2state, stalledOn, m_tag_index>>
  BY DEF Arrive, Time, allVars, CacheUntouched, AdvanceTick, bankVars, vars,
         ghostVars, cacheVars
<1>4. IInv' /\ TypeOK'
  BY <1>1, <1>3, QuietStep DEF IInv
<1>5. /\ reqs' \in Seq([addr : Addr, kind : Kinds])
      /\ Len(reqs') \in Nat /\ Len(reqs) \in Nat /\ Len(reqs) <= Len(reqs')
      /\ \/ ready' = ready
         \/ ready' = ready \union {Len(reqs')} /\ Len(reqs') = Len(reqs) + 1
  <2>1. ASSUME NEW a \in Addr, NEW kind \in Kinds, Arrive(a, kind)
        PROVE  /\ reqs' \in Seq([addr : Addr, kind : Kinds])
               /\ Len(reqs') = Len(reqs) + 1
               /\ ready' = ready \union {Len(reqs')}
    <3> DEFINE M == [addr : Addr, kind : Kinds]
               m == [addr |-> a, kind |-> kind]
    <3>1. m \in M /\ reqs \in Seq(M) /\ reqs' = Append(reqs, m)
      BY <1>2, <2>1 DEF Arrive
    <3> HIDE DEF M, m
    <3>2. reqs' \in Seq(M) /\ Len(reqs') = Len(reqs) + 1
      BY <3>1
    <3> QED BY <2>1, <3>2 DEF Arrive, M
  <2>2. \/ \E a \in Addr, kind \in Kinds : Arrive(a, kind)
        \/ reqs' = reqs /\ ready' = ready
    BY DEF Time, allVars, bankVars
  <2>3. Len(reqs) \in Nat
    BY <1>2
  <2>4. CASE \E a \in Addr, kind \in Kinds : Arrive(a, kind)
    <3>1. /\ reqs' \in Seq([addr : Addr, kind : Kinds])
          /\ Len(reqs') = Len(reqs) + 1
          /\ ready' = ready \union {Len(reqs')}
      BY <2>1, <2>4
    <3>2. Len(reqs') \in Nat /\ Len(reqs) <= Len(reqs')
      BY <2>3, <3>1
    <3> QED BY <2>3, <3>1, <3>2
  <2>5. CASE reqs' = reqs /\ ready' = ready
    BY <1>2, <2>3, <2>5
  <2> QED BY <2>2, <2>4, <2>5
<1>6. BankTypeOK'
  <2>1. 1 .. Len(reqs) \subseteq 1 .. Len(reqs')
    BY <1>5
  <2>2. ready' \subseteq 1 .. Len(reqs')
    <3>1. Len(reqs') = Len(reqs) + 1 => Len(reqs') \in 1 .. Len(reqs')
      BY <1>5
    <3>2. ready \subseteq 1 .. Len(reqs')
      BY <1>2, <2>1
    <3> QED BY <1>5, <3>1, <3>2
  <2>3. stalledOn' \in [Addr -> SUBSET (1 .. Len(reqs'))]
    BY <1>2, <1>3, <2>1
  <2> QED BY <1>2, <1>3, <1>4, <1>5, <2>2, <2>3 DEF BankTypeOK
<1>7. StateMatchesCache'
  BY <1>1, <1>3, <1>4, PresentIsIndexed, PresentIsIndexedNext DEF StateMatchesCache
<1>8. ParkedOnTransaction' /\ TBEsBounded' /\ IsFiniteSet(InTBE')
  BY <1>1, <1>3 DEF ParkedOnTransaction, TBEsBounded, InTBE
<1>9. NoRequestDuplicated'
  <2>1. \A a \in Addr : Len(reqs) + 1 \notin stalledOn[a]
    BY <1>2, <1>5
  <2> QED BY <1>1, <1>3, <1>5, <2>1 DEF NoRequestDuplicated
<1> QED BY <1>4, <1>6, <1>7, <1>8, <1>9 DEF BInv

(* Every step preserves the invariant.                                      *)
LEMMA BankNextInv == BInv /\ [BankNext]_allVars => BInv'
<1> SUFFICES ASSUME BInv, [BankNext]_allVars PROVE BInv'
  OBVIOUS
<1>1. CASE HandleRequest
  BY <1>1, RequestResidentStep, RequestWithRoomStep, RequestNoRoomStep
     DEF HandleRequest
<1>2. ASSUME NEW a \in Addr, MemData(a) \/ Unblock(a) \/ MemAck(a) \/ MemInv(a)
      PROVE  BInv'
  BY <1>2, ResponseStep
<1>3. CASE \/ \E a \in Addr, kind \in Kinds : Arrive(a, kind)
           \/ Time
           \/ UNCHANGED allVars
  BY <1>3, EnvironmentStep
<1> QED BY <1>1, <1>2, <1>3 DEF BankNext, Rest

LEMMA BankInvariance == BankSpec => []BInv
BY BankInitInv, BankNextInv, PTL DEF BankSpec

--------------------------------------------------------------------------------
(* Controller and cache never disagree on what is cached: the victim a      *)
(* probe names always has an entry, and allocate() never meets the block's  *)
(* own transaction.                                                         *)
THEOREM ControllerMatchesCache == BankSpec => []StateMatchesCache
<1>1. BInv => StateMatchesCache
  BY DEF BInv
<1> QED BY <1>1, BankInvariance, PTL

(* stall_and_wait parks a message only on a block whose transaction will    *)
(* end in wakeUpBuffers for it: no number of stalls, replacements and       *)
(* recalls leaves one on a block that is at rest.                           *)
THEOREM NoLostWakeup == BankSpec => []ParkedOnTransaction
<1>1. BInv => ParkedOnTransaction
  BY DEF BInv
<1> QED BY <1>1, BankInvariance, PTL

(* Parking and waking never copy a request.                                 *)
THEOREM RequestsStayUnique == BankSpec => []NoRequestDuplicated
<1>1. BInv => NoRequestDuplicated
  BY DEF BInv
<1> QED BY <1>1, BankInvariance, PTL

(* A table of any size is never asked for more TBEs than it has.            *)
THEOREM TableNeverOverflows == BankSpec => []TBEsBounded
<1>1. BInv => TBEsBounded
  BY DEF BInv
<1> QED BY <1>1, BankInvariance, PTL

(* Driven by the controller, too, cacheProbe() finds a victim, reset() a    *)
(* live entry and allocate() a slot; state and queues keep their types.     *)
THEOREM BankNeverFaults == BankSpec => [](BankTypeOK /\ NoPointerFault)
<1>1. BInv => BankTypeOK /\ NoPointerFault
  BY DEF BInv, IInv
<1> QED BY <1>1, BankInvariance, PTL
================================================================================
