------------------------------ MODULE L1Cache ------------------------------
(***************************************************************************)
(* The L1 controllers of MESI_Two_Level for one line, with the sequencer   *)
(* each of them calls back.                                                *)
(*                                                                         *)
(* The record l1[i] holds the controller's state of the line, the data and *)
(* Dirty bit of its cache entry or, once the entry is gone (M_I,           *)
(* SINK_WB_ACK), of its TBE, and the TBE's pendingAcks and isLoadLinked.   *)
(* NP and I differ only in whether an empty entry is kept and are one      *)
(* state.  The LL/SC lock timer is set exactly in the LLSC states.         *)
(*                                                                         *)
(* A replacement is caused by a request for another line of the set; which *)
(* line that request is for does not matter here.                          *)
(***************************************************************************)
EXTENDS Sequencer

CONSTANTS UseLlscLock,     \* the L1s with use_llsc_lock
          SendEvictions,   \* send_evictions
          EnablePrefetch,  \* the L1s with enable_prefetch
          SharedStreams    \* whether two streams of the prefetcher may ask
                           \* for the line

VARIABLES l1,   \* the line in each L1
          opt   \* the prefetch (optional) queue of each L1

l1Vars == <<l1, opt>>

Transient == {"IS", "IM", "SM", "IS_I", "M_I", "SINK_WB_ACK"}
Prefetching == {"PF_IS", "PF_IS_I", "PF_IM", "PF_SM"}
LLSC == {"LLSC_E", "LLSC_M"}

\* The states in which the controller has no cache entry for the line (or an
\* empty one).
NoEntry == {"I", "M_I", "SINK_WB_ACK"}

Idle == [st |-> "I", side |-> "D", data |-> Fresh, dirty |-> FALSE,
         acks |-> 0, ll |-> FALSE]

L1Init ==
    /\ l1 = [i \in L1s |-> Idle]
    /\ opt = [i \in L1s |->
                [msg        |-> "none",   \* a prefetch of the line, its type
                 parked     |-> FALSE,    \* another line's prefetch is stalled
                                          \* on the line, and its buffer is in
                 registered |-> FALSE]]   \* m_waiting_buffers

\* mandatory_request_type_to_event for the request in the mandatory queue.
Event(i) ==
    LET kind == Head(seq[i].table).kind
    IN  CASE kind = "LD" -> "Load"
          [] kind = "IFETCH" -> "Ifetch"
          [] kind = "Load_Linked" -> IF i \in UseLlscLock THEN "Load_Linked" ELSE "Load"
          [] OTHER -> "Store"

Side(i) == IF Event(i) = "Ifetch" THEN "I" ELSE "D"

\* The mandatory queue's request e is triggered on the line: its entry is in
\* the L1 the access is for, or in neither.
Mandatory(i, e) ==
    /\ seq[i].mq = "ready"
    /\ Event(i) = e
    /\ l1[i].st \in NoEntry \/ l1[i].side = Side(i)

\* The L1's messages: a request of its own (a_issueGETS to c_issueUPGRADE),
\* the line out of the entry or the TBE (d_, d2_, f_sendData... and their
\* _fromTBE forms), the report that ends a transaction.
Issue(i, type) == Msg(type, i, "L2")
LineTo(i, dst) == DataMsg("DATA", i, dst, l1[i].data, l1[i].dirty)
SendUnblock(i, type) == Msg(type, i, "L2")

\* Variant of evictionCallback: the monitor stays armed.
evictionIgnored(s) == s

\* forward_eviction_to_cpu: evictionCallback clears the monitor.
evictionCallback(s) == IF SendEvictions THEN [s EXCEPT !.monitor = None] ELSE s

\* The line's entry is deallocated or becomes Invalid: changePermission, or
\* the entry's end, drops its lock whether the CPU is told or not.
Invalidated(s) == [s EXCEPT !.monitor = None]

\* kd_wakeUpDependents in a response: the mandatory queue is woken.
WakeMandatory(s) == IF s.mq = "parked" THEN [s EXCEPT !.mq = "ready"] ELSE s

\* wakeUpBuffers from the response port (rank 2): the lower ports are
\* reanalyzed; the optional queue (rank 3) is not, and its registration goes.
WakeFromResponse(i) == opt' = [opt EXCEPT ![i].registered = FALSE]

\* wakeUpBuffers from the timer port (rank 4).
WakeFromTimer(i) ==
    opt' = [opt EXCEPT ![i].parked = @ /\ ~opt[i].registered,
                       ![i].registered = FALSE]

-----------------------------------------------------------------------------
(* The mandatory queue.                                                    *)

\* Loads and fetches that hit, Load_Linked under the LL/SC lock included.
LoadHit(i) ==
    /\ \/ /\ l1[i].st \in {"S", "E", "M"} \cup LLSC
          /\ Mandatory(i, "Load") \/ Mandatory(i, "Ifetch")
       \/ /\ l1[i].st \in LLSC
          /\ Mandatory(i, "Load_Linked")
    /\ seq' = [seq EXCEPT ![i] = readCallback(@, l1[i].side = "D", l1[i].data)]
    /\ UNCHANGED <<latest, l1Vars, networkVars>>

\* A Load_Linked on an exclusive line locks it and starts the timer.
LoadLinkedHit(i) ==
    /\ l1[i].st \in {"E", "M"}
    /\ Mandatory(i, "Load_Linked")
    /\ seq' = [seq EXCEPT ![i] = readCallback(@, TRUE, l1[i].data)]
    /\ l1' = [l1 EXCEPT ![i].st = IF @ = "E" THEN "LLSC_E" ELSE "LLSC_M"]
    /\ UNCHANGED <<latest, opt, networkVars>>

\* hh_store_hit on an exclusive line, which becomes dirty.
StoreHit(i) ==
    LET c == writeCallback(seq[i], l1[i].data)
    IN  /\ l1[i].st \in {"E", "M"} \cup LLSC
        /\ Mandatory(i, "Store")
        /\ seq' = [seq EXCEPT ![i] = c.seq]
        /\ latest' = c.latest
        /\ l1' = [l1 EXCEPT ![i].st = IF @ \in LLSC THEN "LLSC_M" ELSE "M",
                            ![i].data = c.data, ![i].dirty = TRUE]
        /\ UNCHANGED <<opt, networkVars>>

\* A miss in {NP, I}: allocate the entry and the TBE, ask the L2.
Miss(i) ==
    /\ l1[i].st = "I"
    /\ \E e \in {"Load", "Ifetch", "Load_Linked", "Store"} :
         /\ Mandatory(i, e)
         /\ l1' = [l1 EXCEPT ![i] =
                     [Idle EXCEPT !.st = IF e \in {"Load", "Ifetch"} THEN "IS"
                                                                    ELSE "IM",
                                  !.side = Side(i), !.ll = e = "Load_Linked"]]
         /\ Send({Issue(i, CASE e = "Load" -> "GETS" [] e = "Ifetch" -> "GET_INSTR"
                          [] OTHER -> "GETX")})
    /\ seq' = [seq EXCEPT ![i].mq = "empty"]
    /\ UNCHANGED <<latest, opt>>

\* A Store or Load_Linked on a shared line: UPGRADE.
Upgrade(i) ==
    /\ l1[i].st = "S"
    /\ \E e \in {"Load_Linked", "Store"} :
         /\ Mandatory(i, e)
         /\ l1' = [l1 EXCEPT ![i].st = "SM", ![i].ll = e = "Load_Linked"]
    /\ Send({Issue(i, "UPGRADE")})
    /\ seq' = [seq EXCEPT ![i].mq = "empty"]
    /\ UNCHANGED <<latest, opt>>

\* A demand request finds the line being prefetched and takes it over.
JoinPrefetch(i) ==
    /\ \/ /\ l1[i].st \in {"PF_IS", "PF_IS_I"}
          /\ Mandatory(i, "Load") \/ Mandatory(i, "Ifetch")
       \/ /\ l1[i].st \in {"PF_IM", "PF_SM"}
          /\ Mandatory(i, "Store") \/ Mandatory(i, "Load_Linked")
    /\ l1' = [l1 EXCEPT ![i].st = CASE @ = "PF_IS" -> "IS"
                                    [] @ = "PF_IS_I" -> "IS_I"
                                    [] @ = "PF_IM" -> "IM"
                                    [] @ = "PF_SM" -> "SM",
                        ![i].ll = Event(i) = "Load_Linked"]
    /\ seq' = [seq EXCEPT ![i].mq = "empty"]
    /\ UNCHANGED <<latest, opt, networkVars>>

\* z_stallAndWaitMandatoryQueue: the line is in a transient state (or under
\* the LL/SC lock and in the other L1); the request waits for the wake-up.
StallMandatory(i) ==
    /\ seq[i].mq = "ready"
    /\ \/ l1[i].st \in Transient
       \/ /\ l1[i].st \in {"PF_IS", "PF_IS_I"}
          /\ Event(i) \in {"Store", "Load_Linked"} \/ Side(i) # l1[i].side
       \/ /\ l1[i].st \in {"PF_IM", "PF_SM"}
          /\ Event(i) \in {"Load", "Ifetch"}
       \/ /\ l1[i].st \in LLSC
          /\ Side(i) # l1[i].side
    /\ seq' = [seq EXCEPT ![i].mq = "parked"]
    /\ UNCHANGED <<latest, l1Vars, networkVars>>

\* The line leaves a stable state: a shared line is dropped, an exclusive one
\* is sent to the L2 and held in the TBE until the L2 acknowledges.
EvictLine(i) ==
    /\ seq' = [seq EXCEPT ![i] = Invalidated(@)]
    /\ \/ /\ l1[i].st = "S"
          /\ l1' = [l1 EXCEPT ![i] = Idle]
          /\ UNCHANGED networkVars
       \/ /\ l1[i].st \in {"E", "M"}
          /\ l1' = [l1 EXCEPT ![i] = [Idle EXCEPT !.st = "M_I",
                               !.data = l1[i].data, !.dirty = l1[i].dirty]]
          /\ Send({[LineTo(i, "L2") EXCEPT !.type = "PUTX"]})
    /\ UNCHANGED latest

\* Variant of L1_Replacement: the victim's lock is not looked at.
L1_ReplacementOfLocked(i) ==
    /\ EvictLine(i)
    /\ UNCHANGED opt

\* L1_Replacement: another line's request takes the entry, unless the line
\* is locked (check_on_cache_probe).
L1_Replacement(i) ==
    /\ seq[i].lock = None
    /\ EvictLine(i)
    /\ UNCHANGED opt

\* L1_Replacement by the line's own request: it is in the wrong L1.
WrongL1(i) ==
    /\ seq[i].mq = "ready"
    /\ Side(i) # l1[i].side
    /\ EvictLine(i)
    /\ UNCHANGED opt

-----------------------------------------------------------------------------
(* The prefetch queue (optionalQueue).                                     *)

\* The prefetcher asks for the line.
EnqueuePrefetch(i) ==
    /\ i \in EnablePrefetch
    /\ opt[i].msg = "none"
    /\ l1[i].st \in Prefetching => SharedStreams
    /\ \E kind \in {"LD", "IFETCH", "ST"} : opt' = [opt EXCEPT ![i].msg = kind]
    /\ UNCHANGED <<sequencerVars, l1, networkVars>>

\* A prefetch of an absent line starts a fetch.
PF_Miss(i) ==
    LET kind == opt[i].msg
    IN  /\ kind # "none"
        /\ l1[i].st = "I"
        /\ l1' = [l1 EXCEPT ![i] =
                    [Idle EXCEPT !.st = IF kind = "ST" THEN "PF_IM" ELSE "PF_IS",
                                 !.side = IF kind = "IFETCH" THEN "I" ELSE "D"]]
        /\ Send({Issue(i, CASE kind = "LD" -> "GETS"
                            [] kind = "IFETCH" -> "GET_INSTR"
                            [] OTHER -> "GETX")})
        /\ opt' = [opt EXCEPT ![i].msg = "none"]
        /\ UNCHANGED sequencerVars

\* Variant of PF_Drop: a line on its way for a store is forgotten.
PF_DropStable(i) ==
    /\ opt[i].msg # "none"
    /\ l1[i].st \notin {"I", "IM", "SM", "PF_SM"}
    /\ opt' = [opt EXCEPT ![i].msg = "none"]
    /\ UNCHANGED <<sequencerVars, l1, networkVars>>

\* A prefetch of a line that is there, or on its way, is dropped.
PF_Drop(i) ==
    /\ opt[i].msg # "none"
    /\ l1[i].st \notin {"I", "PF_SM"}
    /\ opt' = [opt EXCEPT ![i].msg = "none"]
    /\ UNCHANGED <<sequencerVars, l1, networkVars>>

\* PF_L1_Replacement: another line's prefetch takes the entry; the lock of
\* the victim is not looked at.
PF_L1_Replacement(i) ==
    /\ i \in EnablePrefetch
    /\ EvictLine(i)
    /\ UNCHANGED opt

\* z_stallAndWaitOptionalQueue: it waits for a line in a transient state.
PF_Stall(i) ==
    /\ i \in EnablePrefetch
    /\ l1[i].st \in (Transient \cup Prefetching \cup LLSC) \ NoEntry
    /\ opt' = [opt EXCEPT ![i].parked = TRUE, ![i].registered = TRUE]
    /\ UNCHANGED <<sequencerVars, l1, networkVars>>

-----------------------------------------------------------------------------
(* The request port: invalidations and forwarded requests.  A line locked  *)
(* by a Locked_RMW_Read delays the port (block_on).                        *)

Inv(i, m) ==
    LET inv == [Msg("ACK", i, m.req) EXCEPT !.acks = 1]
        s   == l1[i].st
    IN  /\ m.type = "INV"
        /\ \/ /\ s \in {"I", "SINK_WB_ACK", "IM"}       \* no copy: acknowledge
              /\ UNCHANGED <<seq, l1>>
              /\ Receive(m, {inv})
           \/ /\ s \in {"S", "E"}                       \* E: don't send data
              /\ seq' = [seq EXCEPT ![i] = Invalidated(@)]
              /\ l1' = [l1 EXCEPT ![i] = Idle]
              /\ Receive(m, {inv})
           \/ /\ s = "M"
              /\ seq' = [seq EXCEPT ![i] = Invalidated(@)]
              /\ l1' = [l1 EXCEPT ![i] = Idle]
              /\ Receive(m, {LineTo(i, "L2")})
           \/ /\ s = "M_I"
              /\ l1' = [l1 EXCEPT ![i] = [Idle EXCEPT !.st = "SINK_WB_ACK"]]
              /\ UNCHANGED seq
              /\ Receive(m, {LineTo(i, "L2")})
           \/ /\ s \in {"IS", "IS_I", "PF_IS", "PF_IS_I", "PF_IM", "PF_SM"}
              /\ l1' = [l1 EXCEPT ![i].st =
                          CASE s \in {"IS", "IS_I"} -> "IS_I"
                            [] s \in {"PF_IS", "PF_IS_I"} -> "PF_IS_I"
                            [] OTHER -> "PF_IM"]
              /\ UNCHANGED seq
              /\ Receive(m, {inv})
           \/ /\ s = "SM"
              /\ l1' = [l1 EXCEPT ![i].st = "IM"]
              /\ seq' = [seq EXCEPT ![i] = evictionCallback(@)]
              /\ Receive(m, {inv})
        /\ UNCHANGED <<latest, opt>>

\* GETX, or an UPGRADE that lost its race, from another L1: give the line up.
Fwd_GETX(i, m) ==
    /\ m.type \in {"GETX", "UPGRADE"}
    /\ \/ /\ l1[i].st \in {"E", "M"}
          /\ seq' = [seq EXCEPT ![i] = Invalidated(@)]
          /\ l1' = [l1 EXCEPT ![i] = Idle]
       \/ /\ l1[i].st = "M_I"
          /\ l1' = [l1 EXCEPT ![i] = [Idle EXCEPT !.st = "SINK_WB_ACK"]]
          /\ UNCHANGED seq
    /\ Receive(m, {LineTo(i, m.req)})
    /\ UNCHANGED <<latest, opt>>

\* Variant of Fwd_GETS: the line stays exclusive.
Fwd_GETSKeepsLine(i, m) ==
    /\ m.type \in {"GETS", "GET_INSTR"}
    /\ l1[i].st \in {"E", "M"}
    /\ Receive(m, {LineTo(i, d) : d \in {m.req, "L2"}})
    /\ UNCHANGED <<sequencerVars, l1Vars>>

\* GETS or GET_INSTR from another L1: data to the requestor and to the L2.
Fwd_GETS(i, m) ==
    /\ m.type \in {"GETS", "GET_INSTR"}
    /\ \/ /\ l1[i].st \in {"E", "M"}
          /\ l1' = [l1 EXCEPT ![i].st = "S"]
       \/ /\ l1[i].st = "M_I"
          /\ l1' = [l1 EXCEPT ![i] = [Idle EXCEPT !.st = "SINK_WB_ACK"]]
    /\ Receive(m, {LineTo(i, d) : d \in {m.req, "L2"}})
    /\ UNCHANGED <<sequencerVars, opt>>

\* Under the LL/SC lock every request of the L2 waits for the timeout.
StallL1Request(i, m) ==
    /\ m.type \in {"INV", "GETX", "UPGRADE", "GETS", "GET_INSTR"}
    /\ l1[i].st \in LLSC
    /\ StallAndWait(m, {})
    /\ UNCHANGED <<sequencerVars, l1Vars>>

-----------------------------------------------------------------------------
(* The response port.                                                      *)

\* Completion of a load miss; the L2 is unblocked when it waits for this L1.
\* The callback runs before the new state's permission is set.
CompleteLoad(i, m, st, unblock) ==
    LET s  == seq[i]
        c  == readCallback(s, l1[i].side = "D", m.data)
    IN  /\ seq' = [seq EXCEPT ![i] = WakeMandatory(
                     IF st = "I" THEN [c EXCEPT !.monitor = None] ELSE c)]
        /\ l1' = [l1 EXCEPT ![i] = [Idle EXCEPT !.st = st, !.data = m.data,
                    !.side = IF st = "I" THEN "D" ELSE l1[i].side,
                    !.dirty = st # "I" /\ m.dirty]]
        /\ ReceiveAndWake(i, m, unblock)
        /\ WakeFromResponse(i)
        /\ UNCHANGED latest

\* Variant of CompletePrefetch: the line is kept though it was invalidated.
CompletePrefetchKept(i, m, st, unblock) ==
    /\ seq' = [seq EXCEPT ![i] = WakeMandatory(@)]
    /\ l1' = [l1 EXCEPT ![i] = [Idle EXCEPT !.st = IF st = "I" THEN "S" ELSE st,
                 !.side = l1[i].side,
                 !.data = IF m.type = "ACK" THEN l1[i].data ELSE m.data]]
    /\ ReceiveAndWake(i, m, unblock)
    /\ WakeFromResponse(i)
    /\ UNCHANGED latest

\* Completion of a prefetch: the same without a callback.
CompletePrefetch(i, m, st, unblock) ==
    /\ seq' = [seq EXCEPT ![i] = WakeMandatory(@)]
    /\ l1' = [l1 EXCEPT ![i] =
                IF st = "I" THEN Idle
                ELSE [Idle EXCEPT !.st = st, !.side = l1[i].side,
                        !.data = IF m.type = "ACK" THEN l1[i].data ELSE m.data,
                        !.dirty = IF m.type = "ACK" THEN l1[i].dirty ELSE m.dirty]]
    /\ ReceiveAndWake(i, m, unblock)
    /\ WakeFromResponse(i)
    /\ UNCHANGED latest

\* Completion of a store miss or upgrade, with the data it is done on.
CompleteStore(i, m, data) ==
    LET c == writeCallback(seq[i], data)
    IN  /\ seq' = [seq EXCEPT ![i] = WakeMandatory(c.seq)]
        /\ latest' = c.latest
        /\ l1' = [l1 EXCEPT ![i] = [Idle EXCEPT !.st = "M", !.data = c.data,
                                                !.dirty = TRUE]]
        /\ ReceiveAndWake(i, m, {SendUnblock(i, "EXCLUSIVE_UNBLOCK")})
        /\ WakeFromResponse(i)

\* Completion of a Load_Linked miss: the line is locked and the timer set.
CompleteLoadLinked(i, m, data, dirty) ==
    /\ seq' = [seq EXCEPT ![i] = WakeMandatory(readCallback(@, TRUE, data))]
    /\ l1' = [l1 EXCEPT ![i] = [Idle EXCEPT !.st = "LLSC_E", !.data = data,
                                            !.dirty = dirty]]
    /\ ReceiveAndWake(i, m, {SendUnblock(i, "EXCLUSIVE_UNBLOCK")})
    /\ WakeFromResponse(i)
    /\ UNCHANGED latest

\* DATA_EXCLUSIVE for a load: the directory is blocked when sending it.
Data_Exclusive(i, m) ==
    LET unblock == {SendUnblock(i, "EXCLUSIVE_UNBLOCK")}
    IN  /\ m.type = "DATA_EXCLUSIVE"
        /\ \/ /\ l1[i].st \in {"IS", "IS_I"}
              /\ CompleteLoad(i, m, "E", unblock)
           \/ /\ l1[i].st \in {"PF_IS", "PF_IS_I"}
              /\ CompletePrefetch(i, m, "E", unblock)

\* Variant of Data_Shared: a line invalidated on its way is kept.
Data_SharedKept(i, m) ==
    LET unblock == IF m.src \in L1s THEN {SendUnblock(i, "UNBLOCK")} ELSE {}
    IN  /\ m.type = "DATA"
        /\ m.src \in L1s \/ l1[i].acks - m.acks = 0
        /\ l1[i].st \in {"IS", "IS_I"}
        /\ CompleteLoad(i, m, "S", unblock)

\* DATA for a load: from the L2 (Data_all_Acks) or from the owner, whom the
\* L2 does not hear of (DataS_fromL1).  A line invalidated in the meantime is
\* used for the loads that wait and not kept.
Data_Shared(i, m) ==
    LET unblock == IF m.src \in L1s THEN {SendUnblock(i, "UNBLOCK")} ELSE {}
    IN  /\ m.type = "DATA"
        /\ m.src \in L1s \/ l1[i].acks - m.acks = 0
        /\ \/ /\ l1[i].st \in {"IS", "IS_I"}
              /\ CompleteLoad(i, m, IF l1[i].st = "IS" THEN "S" ELSE "I", unblock)
           \/ /\ l1[i].st \in {"PF_IS", "PF_IS_I"}
              /\ CompletePrefetch(i, m, IF l1[i].st = "PF_IS" THEN "S" ELSE "I",
                                  unblock)

\* DATA for a store, before all the sharers' acknowledgements.
DataBeforeAcks(i, m) ==
    /\ m.type = "DATA"
    /\ l1[i].st \in {"IM", "PF_IM"}
    /\ l1[i].acks - m.acks # 0
    /\ l1' = [l1 EXCEPT ![i].st = IF @ = "IM" THEN "SM" ELSE "PF_SM",
                        ![i].data = m.data, ![i].dirty = m.dirty,
                        ![i].acks = @ - m.acks]
    /\ Receive(m, {})
    /\ UNCHANGED <<sequencerVars, opt>>

\* DATA for a store, nothing else to wait for.
DataAfterAcks(i, m) ==
    /\ m.type = "DATA"
    /\ l1[i].acks - m.acks = 0
    /\ \/ /\ l1[i].st = "IM" /\ ~l1[i].ll
          /\ CompleteStore(i, m, m.data)
       \/ /\ l1[i].st = "IM" /\ l1[i].ll
          /\ CompleteLoadLinked(i, m, m.data, m.dirty)
       \/ /\ l1[i].st = "PF_IM"
          /\ CompletePrefetch(i, m, "M", {SendUnblock(i, "EXCLUSIVE_UNBLOCK")})

\* An acknowledgement that is not the last thing the L1 waits for.
Ack(i, m) ==
    /\ m.type = "ACK"
    /\ l1[i].st \in {"SM", "IM", "PF_SM", "PF_IM"}
    /\ l1[i].acks - m.acks # 0
    /\ l1' = [l1 EXCEPT ![i].acks = @ - m.acks]
    /\ Receive(m, {})
    /\ UNCHANGED <<sequencerVars, opt>>

\* The last acknowledgement, from a sharer or, for an upgrade, from the L2.
Ack_all(i, m) ==
    /\ m.type = "ACK"
    /\ l1[i].acks - m.acks = 0
    /\ \/ /\ l1[i].st = "SM" /\ ~l1[i].ll
          /\ CompleteStore(i, m, l1[i].data)
       \/ /\ l1[i].st = "SM" /\ l1[i].ll
          /\ CompleteLoadLinked(i, m, l1[i].data, l1[i].dirty)
       \/ /\ l1[i].st = "PF_SM"
          /\ CompletePrefetch(i, m, "M", {SendUnblock(i, "EXCLUSIVE_UNBLOCK")})

\* The L2 has taken the written-back line.
WB_Ack(i, m) ==
    /\ m.type = "WB_ACK"
    /\ l1[i].st \in {"M_I", "SINK_WB_ACK"}
    /\ l1' = [l1 EXCEPT ![i] = Idle]
    /\ seq' = [seq EXCEPT ![i] = WakeMandatory(@)]
    /\ ReceiveAndWake(i, m, {})
    /\ WakeFromResponse(i)
    /\ UNCHANGED latest

\* Variant of LLSC_Timeout: the requests put aside are not woken.
LLSC_TimeoutNoWake(i) ==
    /\ l1[i].st \in LLSC
    /\ l1' = [l1 EXCEPT ![i].st = IF @ = "LLSC_E" THEN "E" ELSE "M"]
    /\ seq' = [seq EXCEPT ![i] = WakeMandatory(@)]
    /\ UNCHANGED <<networkVars, opt, latest>>

\* The LL/SC lock timer.
LLSC_Timeout(i) ==
    /\ l1[i].st \in LLSC
    /\ l1' = [l1 EXCEPT ![i].st = IF @ = "LLSC_E" THEN "E" ELSE "M"]
    /\ seq' = [seq EXCEPT ![i] = WakeMandatory(@)]
    /\ Wake(i, {})
    /\ WakeFromTimer(i)
    /\ UNCHANGED latest

-----------------------------------------------------------------------------
MandatoryQueue(i) ==
    \/ LoadHit(i) \/ LoadLinkedHit(i) \/ StoreHit(i) \/ Miss(i) \/ Upgrade(i)
    \/ JoinPrefetch(i) \/ StallMandatory(i) \/ WrongL1(i)

PrefetchQueue(i) ==
    \/ EnqueuePrefetch(i) \/ PF_Miss(i) \/ PF_Drop(i)
    \/ PF_L1_Replacement(i) \/ PF_Stall(i)

\* The handlers of a message for L1 i; block_on holds both network ports
\* while the line is locked.
L1Receive(i, m) ==
    /\ m.dst = i
    /\ seq[i].lock = None
    /\ \/ Inv(i, m) \/ Fwd_GETX(i, m) \/ Fwd_GETS(i, m) \/ StallL1Request(i, m)
       \/ Data_Exclusive(i, m) \/ Data_Shared(i, m) \/ DataBeforeAcks(i, m)
       \/ DataAfterAcks(i, m) \/ Ack(i, m) \/ Ack_all(i, m) \/ WB_Ack(i, m)
=============================================================================
