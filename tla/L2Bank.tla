-------------------------------- MODULE L2Bank --------------------------------
(***************************************************************************)
(* One bank of the MESI_Two_Level L2 (MESI_Two_Level-L2cache.sm) as the     *)
(* client of its CacheMemory and replacement policy: which request hits,    *)
(* allocates, replaces a victim or stalls, and what wakes it again.         *)
(*                                                                          *)
(* The protocol's seventeen states are projected on what the cache can tell *)
(* apart; the choice among the states of one class is left open:            *)
(*   NP        NP                                       no entry, no TBE     *)
(*   Stable    SS, M, MT                                entry                *)
(*   Fetching  ISS, IS, IM                              entry and TBE        *)
(*   Blocked   SS_MB, MT_MB, MT_IIB, MT_IB, MT_SB       entry                *)
(*   Evicting  I_I, S_I, MT_I, MCT_I, M_I               TBE only             *)
(* The L1s and the directory are the environment: any requests, any order   *)
(* of responses.                                                            *)
(***************************************************************************)
EXTENDS CacheMemory

CONSTANTS MaxRequests,   \* bound on the L1 requests of a behaviour
          NumTBEs        \* size of the table of transaction buffer entries

ASSUME BankAssumption ==
    /\ MaxRequests \in Nat
    /\ NumTBEs \in Nat \ {0}
    /\ {"Busy", "Granted"} \subseteq ClientPerms

(***************************************************************************)
(* A request is known by its place in reqs, the order of arrival.  ready    *)
(* are the requests in the port's priority heap, which orders them by their *)
(* original arrival even after a stall; stalledOn[a] those set aside until  *)
(* wakeUpBuffers(a).                                                        *)
(***************************************************************************)
VARIABLES l2state, reqs, ready, stalledOn

bankVars == <<l2state, reqs, ready, stalledOn>>

allVars == <<vars, bankVars>>

Kinds      == {"GET", "PUTX"}   \* GETS, GET_INSTR, GETX, UPGRADE; PUTX
Resident   == {"Stable", "Fetching", "Blocked"}
Transient  == {"Fetching", "Blocked", "Evicting"}
L2States   == {"NP"} \union Resident \union Transient

BankTypeOK ==
    /\ TypeOK
    /\ l2state \in [Addr -> L2States]
    /\ reqs \in Seq([addr : Addr, kind : Kinds])
    /\ ready \subseteq 1 .. Len(reqs)
    /\ stalledOn \in [Addr -> SUBSET (1 .. Len(reqs))]

BankInit ==
    /\ Init
    /\ l2state = [a \in Addr |-> "NP"]
    /\ reqs = << >>
    /\ ready = {}
    /\ stalledOn = [a \in Addr |-> {}]

(* Variant of TBEFree: one transaction more than the table holds.           *)
TBEFreeOffByOne ==
    Cardinality({a \in Addr : l2state[a] \in {"Fetching", "Evicting"}}) <= NumTBEs

TBEFree ==
    Cardinality({a \in Addr : l2state[a] \in {"Fetching", "Evicting"}}) < NumTBEs

--------------------------------------------------------------------------------
(* Pieces of a transition.                                                  *)

(* The request the in_port peeks at.                                        *)
Head1 == Min(ready)

pop(r)      == ready' = ready \ {r} /\ UNCHANGED stalledOn

(* Variant of stall_and_wait: the message is parked but not dequeued.       *)
stall_without_dequeue(r, a) ==
    /\ stalledOn' = [stalledOn EXCEPT ![a] = @ \union {r}]
    /\ UNCHANGED ready

stall_and_wait(r, a) ==
    /\ ready' = ready \ {r}
    /\ stalledOn' = [stalledOn EXCEPT ![a] = @ \union {r}]

wakeUpBuffers(a) ==
    /\ ready' = ready \union stalledOn[a]
    /\ stalledOn' = [stalledOn EXCEPT ![a] = {}]

setState(a, st) == l2state' = [l2state EXCEPT ![a] = st]

(* setAccessPermission at the end of a transition on a resident block.      *)
setAccessPermission(a, st) ==
    permission' = [permission EXCEPT ![addressToCacheSet(a)][findTagInSet(a)] =
                      IF st = "Stable" THEN "Granted" ELSE "Busy"]

CacheUntouched ==
    UNCHANGED <<replData, linkedEntry, ghostVars, targetP, fault, cacheVars>>

--------------------------------------------------------------------------------
(* The L1 request port.                                                     *)

(* L1RequestL2Network_in with the block in the cache.                       *)
RequestResident ==
    LET r == Head1
        a == reqs[r].addr
    IN  /\ Running
        /\ ready # {}
        /\ isTagPresent(a)
        /\ \/ /\ reqs[r].kind = "GET" /\ l2state[a] = "Stable"
              /\ setMRU(a)
              /\ \E st \in {"Stable", "Blocked"} :
                    setState(a, st) /\ setAccessPermission(a, st)
              /\ pop(r)
              /\ UNCHANGED <<linkedEntry, ghostVars, targetP, fault, m_cache,
                             m_tag_index>>
           \/ /\ \/ reqs[r].kind = "GET" /\ l2state[a] = "Fetching"
                 \/ reqs[r].kind = "PUTX"
              /\ pop(r)
              /\ CacheUntouched /\ UNCHANGED l2state
           \/ /\ \/ reqs[r].kind = "GET" /\ l2state[a] \in {"Fetching", "Blocked"}
                 \/ reqs[r].kind = "PUTX" /\ l2state[a] = "Blocked"
              /\ stall_and_wait(r, a)
              /\ CacheUntouched /\ UNCHANGED l2state
        /\ UNCHANGED <<curTick, reqs>>

(* The block is not in the cache and the set has room.                      *)
RequestWithRoom ==
    LET r == Head1
        a == reqs[r].addr
    IN  /\ Running
        /\ ready # {}
        /\ ~isTagPresent(a) /\ cacheAvail(a)
        /\ \/ /\ reqs[r].kind = "GET" /\ l2state[a] = "NP"
              /\ TBEFree
              /\ allocate(a, "Busy")
              /\ setState(a, "Fetching")
              /\ pop(r)
           \/ /\ reqs[r].kind = "PUTX" /\ l2state[a] \in {"NP", "Evicting"}
              /\ pop(r)
              /\ CacheUntouched /\ UNCHANGED l2state
           \/ /\ l2state[a] = "Evicting"
              /\ stall_and_wait(r, a)
              /\ CacheUntouched /\ UNCHANGED l2state
        /\ UNCHANGED <<curTick, reqs>>

(* The set is full: the port probes for a victim and triggers a replacement *)
(* of it.  The probe has its effect on the policy before the transition is  *)
(* found to stall, on a busy victim or for want of a TBE.                   *)
RequestNoRoom ==
    LET r == Head1
        a == reqs[r].addr
        v == ProbedAddress(a)
    IN  /\ Running
        /\ ready # {}
        /\ ~isTagPresent(a) /\ ~cacheAvail(a)
        /\ cacheProbe(a)
        /\ \/ /\ l2state[v] = "Stable" /\ TBEFree
              /\ deallocate(v)
              /\ setState(v, "Evicting")
              /\ UNCHANGED <<ready, stalledOn>>
           \/ /\ l2state[v] = "Stable" /\ ~TBEFree
              /\ UNCHANGED <<replData, linkedEntry, cacheVars, l2state, ready,
                             stalledOn>>
           \/ /\ l2state[v] \in {"Fetching", "Blocked"}
              /\ stall_and_wait(r, v)
              /\ UNCHANGED <<replData, linkedEntry, cacheVars, l2state>>
        /\ UNCHANGED <<curTick, targetP, reqs>>

HandleRequest == RequestResident \/ RequestWithRoom \/ RequestNoRoom

--------------------------------------------------------------------------------
(* The response and unblock ports.                                          *)

(* Mem_Data: IS answers its readers and is done; ISS and IM then wait for   *)
(* the requestor's unblock.                                                 *)
MemData(a) ==
    /\ Running
    /\ l2state[a] = "Fetching"
    /\ \/ /\ setState(a, "Stable") /\ setAccessPermission(a, "Stable")
          /\ wakeUpBuffers(a)
       \/ /\ setState(a, "Blocked") /\ setAccessPermission(a, "Blocked")
          /\ UNCHANGED <<ready, stalledOn>>
    /\ UNCHANGED <<curTick, replData, linkedEntry, ghostVars, targetP, fault,
                   m_cache, lastAccess, m_tag_index, reqs>>

(* Variant of Unblock: kd_wakeUpDependents is forgotten.                    *)
UnblockSilently(a) ==
    /\ Running
    /\ l2state[a] = "Blocked"
    /\ setState(a, "Stable") /\ setAccessPermission(a, "Stable")
    /\ UNCHANGED <<curTick, replData, linkedEntry, ghostVars, targetP, fault,
                   m_cache, lastAccess, m_tag_index, reqs, ready, stalledOn>>

(* Unblock, Exclusive_Unblock, or the last of the pair unblock and data.    *)
Unblock(a) ==
    /\ Running
    /\ l2state[a] = "Blocked"
    /\ setState(a, "Stable") /\ setAccessPermission(a, "Stable")
    /\ wakeUpBuffers(a)
    /\ UNCHANGED <<curTick, replData, linkedEntry, ghostVars, targetP, fault,
                   m_cache, lastAccess, m_tag_index, reqs>>

(* Variant of MemAck: kd_wakeUpDependents is forgotten.                     *)
MemAckSilently(a) ==
    /\ Running
    /\ l2state[a] = "Evicting"
    /\ setState(a, "NP")
    /\ CacheUntouched
    /\ UNCHANGED <<curTick, reqs, ready, stalledOn>>

(* Mem_Ack in M_I: the write-back is over.                                  *)
MemAck(a) ==
    /\ Running
    /\ l2state[a] = "Evicting"
    /\ setState(a, "NP")
    /\ wakeUpBuffers(a)
    /\ CacheUntouched
    /\ UNCHANGED <<curTick, reqs>>

(* Variant of MemInv: rr_deallocateL2CacheBlock is forgotten.               *)
MemInvKeepingBlock(a) ==
    /\ Running
    /\ l2state[a] = "Stable" /\ TBEFree
    /\ setState(a, "Evicting")
    /\ CacheUntouched
    /\ UNCHANGED <<curTick, reqs, ready, stalledOn>>

(* MEM_Inv in a stable state; in the others it is recycled or dropped.      *)
MemInv(a) ==
    /\ Running
    /\ l2state[a] = "Stable" /\ TBEFree
    /\ deallocate(a)
    /\ setState(a, "Evicting")
    /\ UNCHANGED <<curTick, ghostVars, targetP, fault, reqs, ready, stalledOn>>

--------------------------------------------------------------------------------
(* The environment.                                                         *)

Arrive(a, kind) ==
    /\ Running
    /\ Len(reqs) < MaxRequests
    /\ reqs' = Append(reqs, [addr |-> a, kind |-> kind])
    /\ ready' = ready \union {Len(reqs) + 1}
    /\ CacheUntouched
    /\ UNCHANGED <<curTick, l2state, stalledOn>>

Time == AdvanceTick /\ UNCHANGED bankVars

(* Nothing left to do, or no process left to do it.                         *)
Rest ==
    /\ \/ ~Running
       \/ Len(reqs) = MaxRequests /\ ready = {} /\ \A a \in Addr : stalledOn[a] = {}
    /\ UNCHANGED allVars

BankNext ==
    \/ HandleRequest
    \/ \E a \in Addr : MemData(a) \/ Unblock(a) \/ MemAck(a) \/ MemInv(a)
    \/ \E a \in Addr, kind \in Kinds : Arrive(a, kind)
    \/ Time
    \/ Rest

BankSpec == BankInit /\ [][BankNext]_allVars

(* The event queue keeps waking a controller whose port has a ready message,*)
(* and the directory and the L1s answer what they were sent.                *)
Fairness ==
    /\ WF_allVars(HandleRequest)
    /\ \A a \in Addr : /\ WF_allVars(MemData(a))
                       /\ WF_allVars(Unblock(a))
                       /\ WF_allVars(MemAck(a))

FairBankSpec == BankSpec /\ Fairness

--------------------------------------------------------------------------------
(* Properties.                                                              *)

(* The controller and its cache agree on what is cached.  It is what makes  *)
(* the assertion on the probed victim's entry hold, and what keeps an       *)
(* allocation from meeting a transaction of the same block.                 *)
StateMatchesCache ==
    \A a \in Addr : isTagPresent(a) <=> l2state[a] \in Resident

(* No wake-up is lost: a message is only ever parked on a block that is in  *)
(* a transaction, whose end calls wakeUpBuffers for that block.             *)
ParkedOnTransaction ==
    \A a \in Addr : stalledOn[a] # {} => l2state[a] \in Transient

(* A request is in one place: the port's heap or one stall list.            *)
NoRequestDuplicated ==
    /\ \A a \in Addr : stalledOn[a] \cap ready = {}
    /\ \A a, b \in Addr : a # b => stalledOn[a] \cap stalledOn[b] = {}

(* TBETable::allocate is never called on a full table.                      *)
TBEsBounded ==
    Cardinality({a \in Addr : l2state[a] \in {"Fetching", "Evicting"}}) <= NumTBEs

Served(r) == r \in 1 .. Len(reqs) /\ r \notin ready
                /\ \A a \in Addr : r \notin stalledOn[a]

(* Every request the bank receives is eventually taken off its port, or the *)
(* simulator dies in the policy: no request starves behind victims that the *)
(* policy keeps choosing, stalls, or a full TBE table.                      *)
EveryRequestServed ==
    \A r \in 1 .. MaxRequests :
        (Len(reqs) >= r) ~> (Served(r) \/ ~Running)

(* "Ceiling division" (arc_rp.cc:82): adjustP's quotient is defined, that   *)
(* is, its divisor, the length of the ghost list that was hit, is not zero. *)
CeilingDivisionDefined == fault # "divByZero"
================================================================================
