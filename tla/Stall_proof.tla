----------------------------- MODULE Stall_proof -----------------------------
(***************************************************************************)
(* That no message is put aside for ever by an L1 or the L2, for every      *)
(* number of CPUs and every configuration of MESI_Two_Level.                *)
(***************************************************************************)
EXTENDS MESI_proof

Busy == Fetching \cup Blocked \cup Replacing

L2Shape(l) == l \in [st : {l.st}, data : {l.data}, dirty : {l.dirty},
                      sharers : {l.sharers}, acks : {l.acks}, for : {l.for}]

(* What a message put aside waits for.                                      *)
WaitsProperly(m) ==
    \/ m.dst \in L1s /\ l1[m.dst].st \in LLSC
    \/ m.dst = "L2" /\ l2.st \in Busy
    \/ m.dst = "Dir"

StallInv ==
    /\ IsABag(stalled)
    /\ L2Shape(l2)
    /\ \A m \in BagToSet(stalled) : WaitsProperly(m)

(* A step in which the stalled messages stay as they are, those of c are    *)
(* woken, or one that has to wait is put aside.                             *)
Wakes(c) ==
    /\ IsABag(stalled')
    /\ BagToSet(stalled') = {x \in BagToSet(stalled) : x.dst # c}

PutsAside(m) ==
    /\ IsABag(stalled')
    /\ BagToSet(stalled') = BagToSet(stalled) \cup {m}

--------------------------------------------------------------------------------
(* The network's operators.                                                 *)

LEMMA NothingWoken ==
  ASSUME NEW m, NEW out, Send(out) \/ Receive(m, out)
  PROVE  stalled' = stalled
BY DEF Send, Receive

LEMMA WakeEffect ==
  ASSUME NEW m, NEW out, NEW c, IsABag(stalled),
         ReceiveAndWake(c, m, out) \/ Wake(c, out)
  PROVE  Wakes(c)
<1> DEFINE W == StalledAt(c)
           B == [e \in DOMAIN stalled |-> IF e \in DOMAIN W THEN stalled[e] - W[e]
                                                           ELSE stalled[e]]
<1>1. stalled' = [e \in {d \in DOMAIN B : B[d] > 0} |-> B[e]]
  <2>1. stalled' = stalled (-) W
    BY DEF ReceiveAndWake, Wake
  <2> HIDE DEF W
  <2> QED BY <2>1 DEF (-)
<1>2. /\ DOMAIN W = {x \in DOMAIN stalled : x.dst = c}
      /\ \A e \in DOMAIN W : W[e] = stalled[e]
  BY DEF StalledAt, BagToSet
<1>3. \A e \in DOMAIN stalled :
        /\ B[e] > 0 <=> e.dst # c
        /\ e.dst # c => B[e] = stalled[e]
  <2> HIDE DEF W
  <2> QED BY <1>2 DEF IsABag
<1>4. /\ DOMAIN (stalled') = {d \in DOMAIN stalled : d.dst # c}
      /\ stalled' = [e \in DOMAIN (stalled') |-> stalled[e]]
  <2> DOMAIN B = DOMAIN stalled
    OBVIOUS
  <2> HIDE DEF B
  <2> QED BY <1>1, <1>3
<1> QED BY <1>4 DEF Wakes, IsABag, BagToSet

LEMMA StallEffect ==
  ASSUME NEW m, NEW out, IsABag(stalled), StallAndWait(m, out)
  PROVE  PutsAside(m)
BY DEF StallAndWait, PutsAside, (+), SetToBag, IsABag, BagToSet

--------------------------------------------------------------------------------
(* What each controller does with the stalled messages and its line.        *)

(* An L1: while its line is under the LL/SC lock it stays so, unless what   *)
(* waits for it is woken.                                                   *)
L1Keeps(i) ==
    /\ UNCHANGED l2
    /\ \A j \in L1s \ {i} : l1'[j].st = l1[j].st
    /\ \/ UNCHANGED stalled /\ (l1[i].st \in LLSC => l1'[i].st \in LLSC)
       \/ Wakes(i)
       \/ /\ UNCHANGED l1 /\ l1[i].st \in LLSC
          /\ \E m : m.dst = i /\ PutsAside(m)

(* The L2: the same of its transactions.                                    *)
L2Keeps ==
    /\ UNCHANGED l1 /\ L2Shape(l2)'
    /\ \/ UNCHANGED stalled /\ (l2.st \in Busy => l2'.st \in Busy)
       \/ Wakes("L2")
       \/ UNCHANGED l2 /\ l2.st \in Busy /\ \E m : m.dst = "L2" /\ PutsAside(m)

LEMMA L1KeepsInv == ASSUME StallInv, NEW i \in L1s, L1Keeps(i) PROVE StallInv'
<1>1. L2Shape(l2)'
  BY DEF StallInv, L1Keeps, L2Shape
<1>2. CASE UNCHANGED stalled /\ (l1[i].st \in LLSC => l1'[i].st \in LLSC)
  BY <1>1, <1>2 DEF StallInv, L1Keeps, WaitsProperly
<1>3. CASE Wakes(i)
  BY <1>1, <1>3 DEF StallInv, L1Keeps, WaitsProperly, Wakes
<1>4. CASE /\ UNCHANGED l1 /\ l1[i].st \in LLSC
           /\ \E m : m.dst = i /\ PutsAside(m)
  BY <1>1, <1>4 DEF StallInv, L1Keeps, WaitsProperly, PutsAside
<1> QED BY <1>2, <1>3, <1>4 DEF L1Keeps

LEMMA L2KeepsInv == ASSUME StallInv, L2Keeps PROVE StallInv'
<1>1. CASE UNCHANGED stalled /\ (l2.st \in Busy => l2'.st \in Busy)
  BY <1>1 DEF StallInv, L2Keeps, WaitsProperly
<1>2. CASE Wakes("L2")
  BY <1>2, MachineNames DEF StallInv, L2Keeps, WaitsProperly, Wakes
<1>3. CASE UNCHANGED l2 /\ l2.st \in Busy /\ \E m : m.dst = "L2" /\ PutsAside(m)
  BY <1>3 DEF StallInv, L2Keeps, WaitsProperly, PutsAside
<1> QED BY <1>1, <1>2, <1>3 DEF L2Keeps

(* The directory's own messages are the other controllers' concern.         *)
LEMMA DirKeepsInv ==
  ASSUME StallInv, UNCHANGED <<l1, l2>>,
         \/ UNCHANGED stalled
         \/ Wakes("Dir")
         \/ \E m : m.dst = "Dir" /\ PutsAside(m)
  PROVE  StallInv'
<1>1. CASE UNCHANGED stalled
  BY <1>1 DEF StallInv, L2Shape, WaitsProperly
<1>2. CASE Wakes("Dir")
  BY <1>2 DEF StallInv, L2Shape, WaitsProperly, Wakes
<1>3. CASE \E m : m.dst = "Dir" /\ PutsAside(m)
  BY <1>3 DEF StallInv, L2Shape, WaitsProperly, PutsAside
<1> QED BY <1>1, <1>2, <1>3

--------------------------------------------------------------------------------
(* The L1's handlers.                                                       *)

LEMMA MandatoryKeeps ==
  ASSUME AllAgree, NEW i \in L1s, MandatoryQueue(i), UNCHANGED l2
  PROVE  L1Keeps(i)
<1> USE DEF AllAgree, Agree, LineShape, LLSC, L1Keeps, networkVars, l1Vars
<1>1. CASE LoadHit(i) \/ StallMandatory(i)
  BY <1>1 DEF LoadHit, StallMandatory
<1>2. CASE LoadLinkedHit(i)
  BY <1>2 DEF LoadLinkedHit
<1>3. CASE StoreHit(i)
  BY <1>3 DEF StoreHit
<1>4. CASE Miss(i)
  BY <1>4, NothingWoken DEF Miss
<1>5. CASE Upgrade(i)
  BY <1>5, NothingWoken DEF Upgrade
<1>6. CASE JoinPrefetch(i)
  BY <1>6 DEF JoinPrefetch
<1>7. CASE WrongL1(i)
  BY <1>7, NothingWoken DEF WrongL1, EvictLine, Idle
<1> QED BY <1>1, <1>2, <1>3, <1>4, <1>5, <1>6, <1>7 DEF MandatoryQueue

LEMMA EvictAndPrefetchKeep ==
  ASSUME AllAgree, NEW i \in L1s, UNCHANGED l2, L1_Replacement(i) \/ PrefetchQueue(i)
  PROVE  L1Keeps(i)
<1> USE DEF AllAgree, Agree, LineShape, LLSC, L1Keeps, networkVars
<1>1. CASE EvictLine(i)
  BY <1>1, NothingWoken DEF EvictLine, Idle
<1>2. CASE PF_Miss(i)
  BY <1>2, NothingWoken DEF PF_Miss, Idle
<1>3. CASE EnqueuePrefetch(i) \/ PF_Drop(i) \/ PF_Stall(i)
  BY <1>3 DEF EnqueuePrefetch, PF_Drop, PF_Stall
<1> QED BY <1>1, <1>2, <1>3
        DEF L1_Replacement, PrefetchQueue, PF_L1_Replacement

LEMMA TimeoutKeeps ==
  ASSUME AllAgree, IsABag(stalled), NEW i \in L1s, LLSC_Timeout(i), UNCHANGED l2
  PROVE  L1Keeps(i)
<1>1. Wakes(i)
  BY WakeEffect DEF LLSC_Timeout
<1> QED BY <1>1 DEF LLSC_Timeout, L1Keeps, AllAgree

LEMMA L1RequestKeeps ==
  ASSUME AllAgree, IsABag(stalled), NEW i \in L1s, NEW m, m.dst = i, UNCHANGED l2,
         Inv(i, m) \/ Fwd_GETX(i, m) \/ Fwd_GETS(i, m) \/ StallL1Request(i, m)
  PROVE  L1Keeps(i)
<1> USE DEF AllAgree, Agree, LineShape, LLSC, L1Keeps
<1>1. CASE Inv(i, m)
  BY <1>1, NothingWoken DEF Inv, Idle
<1>2. CASE Fwd_GETX(i, m)
  BY <1>2, NothingWoken DEF Fwd_GETX, Idle
<1>3. CASE Fwd_GETS(i, m)
  BY <1>3, NothingWoken DEF Fwd_GETS, Idle
<1>4. CASE StallL1Request(i, m)
  BY <1>4, StallEffect DEF StallL1Request, l1Vars
<1> QED BY <1>1, <1>2, <1>3, <1>4

LEMMA L1ResponseKeeps ==
  ASSUME AllAgree, IsABag(stalled), NEW i \in L1s, NEW m, UNCHANGED l2,
         \/ Data_Exclusive(i, m) \/ Data_Shared(i, m) \/ DataBeforeAcks(i, m)
         \/ DataAfterAcks(i, m) \/ Ack(i, m) \/ Ack_all(i, m) \/ WB_Ack(i, m)
  PROVE  L1Keeps(i)
<1>1. ASSUME NEW st, NEW unblock, CompleteLoad(i, m, st, unblock) PROVE L1Keeps(i)
  BY <1>1, WakeEffect DEF CompleteLoad, L1Keeps, AllAgree
<1>2. ASSUME NEW st, NEW unblock, CompletePrefetch(i, m, st, unblock) PROVE L1Keeps(i)
  BY <1>2, WakeEffect DEF CompletePrefetch, L1Keeps, AllAgree
<1>3. ASSUME NEW data, CompleteStore(i, m, data) PROVE L1Keeps(i)
  BY <1>3, WakeEffect DEF CompleteStore, L1Keeps, AllAgree
<1>4. ASSUME NEW data, NEW dirty, CompleteLoadLinked(i, m, data, dirty) PROVE L1Keeps(i)
  BY <1>4, WakeEffect DEF CompleteLoadLinked, L1Keeps, AllAgree
<1>5. CASE WB_Ack(i, m)
  BY <1>5, WakeEffect DEF WB_Ack, L1Keeps, AllAgree
<1>6. CASE DataBeforeAcks(i, m) \/ Ack(i, m)
  BY <1>6, NothingWoken
     DEF DataBeforeAcks, Ack, L1Keeps, AllAgree, Agree, LineShape, LLSC
<1>7. CASE Data_Exclusive(i, m) \/ Data_Shared(i, m)
  BY <1>7, <1>1, <1>2 DEF Data_Exclusive, Data_Shared
<1>8. CASE DataAfterAcks(i, m) \/ Ack_all(i, m)
  BY <1>8, <1>2, <1>3, <1>4 DEF DataAfterAcks, Ack_all
<1> QED BY <1>5, <1>6, <1>7, <1>8

--------------------------------------------------------------------------------
(* The L2's handlers.                                                       *)

LEMMA L2RequestKeeps ==
  ASSUME StallInv, NEW m, m.dst = "L2", UNCHANGED l1,
         \/ FetchFromMemory(m) \/ JoinFetch(m) \/ ReadShared(m) \/ WriteShared(m)
         \/ RequestOwned(m) \/ ForwardToExclusive(m) \/ L1_PUTX(m)
         \/ L1_PUTX_old(m) \/ StallL2Request(m)
  PROVE  L2Keeps
<1> USE DEF StallInv, L2Shape, L2Keeps, Busy, Fetching, Blocked, Replacing
<1>1. CASE FetchFromMemory(m)
  BY <1>1, NothingWoken DEF FetchFromMemory, Absent
<1>2. CASE JoinFetch(m) \/ ReadShared(m)
  BY <1>2, NothingWoken DEF JoinFetch, ReadShared
<1>3. CASE WriteShared(m)
  BY <1>3, NothingWoken DEF WriteShared
<1>4. CASE RequestOwned(m)
  BY <1>4, NothingWoken DEF RequestOwned
<1>5. CASE ForwardToExclusive(m)
  BY <1>5, NothingWoken DEF ForwardToExclusive
<1>6. CASE L1_PUTX(m) \/ L1_PUTX_old(m)
  BY <1>6, NothingWoken DEF L1_PUTX, L1_PUTX_old
<1>7. CASE StallL2Request(m)
  BY <1>7, StallEffect DEF StallL2Request
<1> QED BY <1>1, <1>2, <1>3, <1>4, <1>5, <1>6, <1>7

LEMMA L2ResponseKeeps ==
  ASSUME StallInv, NEW m, UNCHANGED l1,
         \/ Exclusive_Unblock(m) \/ Unblock(m) \/ WB_Downgrade(m) \/ WB_Replace(m)
         \/ InvAck(m) \/ Mem_Data(m) \/ Mem_Ack(m)
  PROVE  L2Keeps
<1> USE DEF StallInv, L2Shape, L2Keeps, Busy, Fetching, Blocked, Replacing
<1>1. CASE Exclusive_Unblock(m)
  BY <1>1, WakeEffect DEF Exclusive_Unblock
<1>2. CASE Unblock(m)
  BY <1>2, WakeEffect, NothingWoken DEF Unblock
<1>3. CASE WB_Downgrade(m)
  BY <1>3, WakeEffect, NothingWoken DEF WB_Downgrade
<1>4. CASE WB_Replace(m)
  BY <1>4, NothingWoken DEF WB_Replace
<1>5. CASE InvAck(m)
  BY <1>5, NothingWoken DEF InvAck
<1>6. CASE Mem_Data(m)
  BY <1>6, WakeEffect, NothingWoken DEF Mem_Data
<1>7. CASE Mem_Ack(m)
  BY <1>7, WakeEffect DEF Mem_Ack, Absent
<1> QED BY <1>1, <1>2, <1>3, <1>4, <1>5, <1>6, <1>7

LEMMA L2ReplacementKeeps ==
  ASSUME StallInv, UNCHANGED l1,
         L2_Replacement_clean \/ L2_Replacement \/ \E m : MEM_Inv(m)
  PROVE  L2Keeps
<1> USE DEF StallInv, L2Shape, L2Keeps, Busy, Fetching, Blocked, Replacing
<1>1. CASE L2_Replacement_clean
  BY <1>1, NothingWoken DEF L2_Replacement_clean, ReplaceTo
<1>2. Replacement => L2Shape(l2)' /\ l2'.st \in Busy
  <2>1. Replacement => \E st \in {"S_I", "MT_I", "M_I"} : ReplaceTo(st)
    BY DEF Replacement
  <2>2. ASSUME NEW st \in {"S_I", "MT_I", "M_I"}, ReplaceTo(st)
        PROVE  L2Shape(l2)' /\ l2'.st \in Busy
    BY <2>2 DEF ReplaceTo
  <2> QED BY <2>1, <2>2
<1>3. CASE L2_Replacement
  BY <1>2, <1>3, NothingWoken DEF L2_Replacement
<1>4. CASE \E m : MEM_Inv(m)
  BY <1>2, <1>4, NothingWoken DEF MEM_Inv
<1> QED BY <1>1, <1>3, <1>4

--------------------------------------------------------------------------------
LEMMA DirectoryStall ==
  ASSUME StallInv, DirectoryStep \/ DmaStep
  PROVE  StallInv'
<1>1. UNCHANGED <<l1, l2>>
  BY DEF DirectoryStep, DmaStep, l1Vars
<1>2. CASE DmaStep
  BY <1>1, <1>2, NothingWoken, DirKeepsInv DEF DmaStep, DmaIssue, DmaDone
<1>3. CASE Memory
  BY <1>1, <1>3, WakeEffect, DirKeepsInv
     DEF Memory, Memory_Data, Memory_AckWriteback, Memory_AckDma, StallInv
<1>4. ASSUME NEW m, DirReceive(m) PROVE StallInv'
  <2>1. CASE Fetch(m) \/ WritebackData(m) \/ DMA_Access(m)
    BY <1>1, <2>1, NothingWoken, DirKeepsInv DEF Fetch, WritebackData, DMA_Access
  <2>2. CASE StallFetch(m)
    BY <1>1, <1>4, <2>2, StallEffect, DirKeepsInv DEF StallFetch, DirReceive, StallInv
  <2>3. CASE CleanReplacement(m)
    BY <1>1, <2>3, WakeEffect, DirKeepsInv DEF CleanReplacement, StallInv
  <2> QED BY <1>4, <2>1, <2>2, <2>3 DEF DirReceive
<1> QED BY <1>2, <1>3, <1>4 DEF DirectoryStep

LEMMA InitStall == Init => StallInv
BY DEF Init, NetworkInit, L2Init, Absent, StallInv, L2Shape, EmptyBag, SetToBag,
       IsABag, BagToSet

LEMMA NextStall == AllAgree /\ StallInv /\ [Next]_vars => StallInv'
<1> SUFFICES ASSUME AllAgree, StallInv, [Next]_vars PROVE StallInv'
  OBVIOUS
<1> IsABag(stalled)
  BY DEF StallInv
<1>1. ASSUME NEW i \in L1s, CpuStep(i) PROVE StallInv'
  <2>1. CASE L1_Replacement(i) \/ PrefetchQueue(i)
    BY <1>1, <2>1, EvictAndPrefetchKeep, L1KeepsInv DEF CpuStep
  <2>2. CASE MakeRequest(i) /\ UNCHANGED l1Vars
    BY <1>1, <2>2, DirKeepsInv DEF CpuStep, MakeRequest, l1Vars, networkVars
  <2> QED BY <1>1, <2>1, <2>2 DEF CpuStep
<1>2. ASSUME NEW i \in L1s, L1Mandatory(i) \/ L1Timer(i) PROVE StallInv'
  BY <1>2, MandatoryKeeps, TimeoutKeeps, L1KeepsInv DEF L1Mandatory, L1Timer
<1>3. ASSUME NEW i \in L1s, L1Network(i) PROVE StallInv'
  BY <1>3, L1RequestKeeps, L1ResponseKeeps, L1KeepsInv DEF L1Network, L1Receive
<1>4. CASE L2Network \/ L2Evict
  <2>1. UNCHANGED l1
    BY <1>4 DEF L2Network, L2Evict, l1Vars
  <2> QED BY <1>4, <2>1, L2RequestKeeps, L2ResponseKeeps, L2ReplacementKeeps, L2KeepsInv
          DEF L2Network, L2Evict, L2Receive
<1>5. CASE DirectoryStep \/ DmaStep
  BY <1>5, DirectoryStall
<1>6. CASE UNCHANGED vars
  BY <1>6, DirKeepsInv DEF vars, networkVars, l1Vars
<1> QED BY <1>1, <1>2, <1>3, <1>4, <1>5, <1>6 DEF Next

(* Nothing that an L1 or the L2 puts aside is forgotten: for any number of  *)
(* CPUs, with prefetching, LL/SC locks, replacements and DMA in any         *)
(* combination, a message or a CPU's request is put aside only while its    *)
(* line is in a transaction or locked, and every transition out of that     *)
(* calls wakeUpBuffers.                                                     *)
THEOREM NothingForgotten == Spec => []RequestsPutAsideWait
<1>1. AllAgree /\ StallInv => RequestsPutAsideWait
  BY DEF AllAgree, Agree, StallInv, WaitsProperly, RequestsPutAsideWait, Waiting, Busy
<1> QED BY <1>1, InitStall, NextStall, Agreement, PTL DEF Spec
================================================================================
