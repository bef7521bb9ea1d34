------------------------------ MODULE L2Cache ------------------------------
(***************************************************************************)
(* The L2 bank of MESI_Two_Level for one line: the home of the line and    *)
(* the point where the L1s' requests are ordered.                          *)
(*                                                                         *)
(* l2 holds the state, the data and Dirty bit of the entry or, once        *)
(* rr_deallocateL2CacheBlock has run, of the TBE, the entry's Sharers      *)
(* (none without an entry), the TBE's pendingAcks, and in "for" the L1s    *)
(* the TBE records for the fetched data (L1_GetS_IDs, L1_GetX_ID).  In MT  *)
(* the entry's Exclusive is its one sharer (mmu_markExclusiveFromUnblock). *)
(***************************************************************************)
EXTENDS RubyNetwork, FiniteSets

CONSTANT L2Evicts   \* the Dirty bits of the entries other lines may replace

VARIABLE l2

Absent == [st |-> "NP", data |-> Fresh, dirty |-> FALSE, sharers |-> {},
           acks |-> 0, for |-> {}]

L2Init == l2 = Absent

Fetching == {"IS", "ISS", "IM"}
Blocked == {"SS_MB", "MT_MB", "MT_IIB", "MT_IB", "MT_SB"}
Replacing == {"I_I", "S_I", "M_I", "MT_I", "MCT_I"}

\* L1Cache_request_type_to_event: an UPGRADE counts only while the L2 still
\* has the requestor as a sharer.
L1Event(m) ==
    CASE m.type \in {"GETS", "GET_INSTR"} -> "Read"
      [] m.type = "UPGRADE" /\ m.src \in l2.sharers -> "L1_UPGRADE"
      [] m.type \in {"GETX", "UPGRADE"} -> "L1_GETX"
      [] m.type = "PUTX" -> IF m.src \in l2.sharers THEN "L1_PUTX" ELSE "L1_PUTX_old"
      [] OTHER -> "none"

L2Send(type, m) == Msg(type, "L2", m.src)

\* INV to a set of L1s, to be acknowledged to req.
InvTo(set, req) == {[Msg("INV", "L2", j) EXCEPT !.req = req] : j \in set}

\* d_sendDataToRequestor: the requestor is to wait for the other sharers.
DataTo(type, r, waitfor) ==
    [DataMsg(type, "L2", r, l2.data, FALSE) EXCEPT !.acks = 0 - Cardinality(waitfor)]

\* c_exclusiveReplacement, from the entry or the TBE.
ToMemory(data, dirty) == DataMsg("MEMORY_DATA", "L2", "Dir", data, dirty)

-----------------------------------------------------------------------------
(* L1 requests.                                                            *)

\* The line is absent: fetch it from memory for the requestor.
FetchFromMemory(m) ==
    /\ l2.st = "NP"
    /\ L1Event(m) \in {"Read", "L1_GETX"}
    /\ l2' = [Absent EXCEPT
                !.st = CASE m.type = "GETS" -> "ISS" [] m.type = "GET_INSTR" -> "IS"
                         [] OTHER -> "IM",
                !.sharers = IF L1Event(m) = "Read" THEN {m.src} ELSE {},
                !.for = {m.src}]
    /\ Receive(m, {Msg("GETS", "L2", "Dir")})

\* More readers while the line is being fetched: it will be shared.
JoinFetch(m) ==
    /\ l2.st \in {"IS", "ISS"}
    /\ L1Event(m) = "Read"
    /\ l2' = [l2 EXCEPT !.st = "IS", !.sharers = @ \cup {m.src}, !.for = @ \cup {m.src}]
    /\ Receive(m, {})

\* Variant of ReadShared: the new sharer is not recorded.
ReadSharedForgets(m) ==
    /\ l2.st = "SS"
    /\ L1Event(m) = "Read"
    /\ UNCHANGED l2
    /\ Receive(m, {DataTo("DATA", m.src, {})})

ReadShared(m) ==
    /\ l2.st = "SS"
    /\ L1Event(m) = "Read"
    /\ l2' = [l2 EXCEPT !.sharers = @ \cup {m.src}]
    /\ Receive(m, {DataTo("DATA", m.src, {})})

\* Variant of WriteShared: the requestor waits for one sharer too few.
WriteSharedOffByOne(m) ==
    LET others == l2.sharers \ {m.src}
    IN  /\ l2.st = "SS"
        /\ L1Event(m) \in {"L1_GETX", "L1_UPGRADE"}
        /\ l2' = [l2 EXCEPT !.st = "SS_MB"]
        /\ Receive(m, InvTo(others, m.src) \cup
             {IF L1Event(m) = "L1_GETX" THEN DataTo("DATA", m.src, others)
              ELSE [L2Send("ACK", m) EXCEPT !.acks = 0 - Cardinality(others) + 1]})

\* GETX or UPGRADE on a shared line: the other sharers acknowledge to the
\* requestor; the line is blocked until it reports.
WriteShared(m) ==
    LET others == l2.sharers \ {m.src}
    IN  /\ l2.st = "SS"
        /\ L1Event(m) \in {"L1_GETX", "L1_UPGRADE"}
        /\ l2' = [l2 EXCEPT !.st = "SS_MB"]
        /\ Receive(m, InvTo(others, m.src) \cup
             {IF L1Event(m) = "L1_GETX" THEN DataTo("DATA", m.src, others)
              ELSE [L2Send("ACK", m) EXCEPT !.acks = 0 - Cardinality(l2.sharers) + 1]})

\* No L1 has the line: exclusive data for GETS and GETX, shared for a fetch.
RequestOwned(m) ==
    /\ l2.st = "M"
    /\ L1Event(m) \in {"Read", "L1_GETX"}
    /\ l2' = IF m.type = "GET_INSTR"
               THEN [l2 EXCEPT !.st = "SS", !.sharers = @ \cup {m.src}]
               ELSE [l2 EXCEPT !.st = "MT_MB"]
    /\ Receive(m, {DataTo(IF m.type = "GETS" THEN "DATA_EXCLUSIVE" ELSE "DATA",
                          m.src, l2.sharers \ {m.src})})

\* An L1 has the line exclusively: forward the request to it.
ForwardToExclusive(m) ==
    /\ l2.st = "MT"
    /\ L1Event(m) \in {"Read", "L1_GETX"}
    /\ l2' = [l2 EXCEPT !.st = IF L1Event(m) = "Read" THEN "MT_IIB" ELSE "MT_MB"]
    /\ Receive(m, {[Msg(m.type, "L2", j) EXCEPT !.req = m.src] : j \in l2.sharers})

\* Variant of L1_PUTX: the entry is not marked Dirty.
L1_PUTXClean(m) ==
    /\ l2.st = "MT"
    /\ L1Event(m) = "L1_PUTX"
    /\ l2' = [l2 EXCEPT !.st = "M", !.sharers = {},
                        !.data = IF m.dirty THEN m.data ELSE @]
    /\ Receive(m, {L2Send("WB_ACK", m)})

\* The owner writes the line back.
L1_PUTX(m) ==
    /\ l2.st = "MT"
    /\ L1Event(m) = "L1_PUTX"
    /\ l2' = [l2 EXCEPT !.st = "M", !.sharers = {},
                        !.data = IF m.dirty THEN m.data ELSE @,
                        !.dirty = @ \/ m.dirty]
    /\ Receive(m, {L2Send("WB_ACK", m)})

\* Variant of L1_PUTX_old: only an absent line expects it.
L1_PUTX_oldAbsent(m) ==
    /\ L1Event(m) \in {"L1_PUTX", "L1_PUTX_old"}
    /\ l2.st = "NP"
    /\ UNCHANGED l2
    /\ Receive(m, {L2Send("WB_ACK", m)})

\* A write-back that a forwarded request or an invalidation has overtaken:
\* the data has come another way.
L1_PUTX_old(m) ==
    /\ L1Event(m) \in {"L1_PUTX", "L1_PUTX_old"}
    /\ \/ l2.st \in {"NP", "SS", "M", "M_I", "I_I", "S_I", "MT_IB", "MT_SB"} \cup Fetching
       \/ l2.st = "MT" /\ L1Event(m) = "L1_PUTX_old"
    /\ UNCHANGED l2
    /\ Receive(m, {L2Send("WB_ACK", m)})

\* zz_stallAndWaitL1RequestQueue: the line is busy.
StallL2Request(m) ==
    /\ \/ /\ L1Event(m) \in {"Read", "L1_GETX", "L1_UPGRADE"}
          /\ l2.st \in Blocked \cup Replacing
       \/ l2.st \in {"IS", "ISS"} /\ L1Event(m) = "L1_GETX"
       \/ l2.st = "IM" /\ L1Event(m) \in {"Read", "L1_GETX"}
       \/ /\ L1Event(m) \in {"L1_PUTX", "L1_PUTX_old"}
          /\ l2.st \in {"MT_IIB", "MT_I", "MCT_I", "MT_MB", "SS_MB"}
    /\ UNCHANGED l2
    /\ StallAndWait(m, {})

-----------------------------------------------------------------------------
(* Unblocks and responses.                                                 *)

Exclusive_Unblock(m) ==
    /\ m.type = "EXCLUSIVE_UNBLOCK"
    /\ l2.st \in {"SS_MB", "MT_MB"}
    /\ l2' = [l2 EXCEPT !.st = "MT", !.sharers = {m.src}]
    /\ ReceiveAndWake("L2", m, {})

\* Variant of Unblock: the requests put aside are not woken.
UnblockNoWake(m) ==
    /\ m.type = "UNBLOCK"
    /\ l2.st \in {"MT_IIB", "MT_SB"}
    /\ l2' = [l2 EXCEPT !.st = IF @ = "MT_IIB" THEN "MT_IB" ELSE "SS",
                        !.sharers = @ \cup {m.src}]
    /\ Receive(m, {})

\* The reader of a forwarded GETS has its data.
Unblock(m) ==
    /\ m.type = "UNBLOCK"
    /\ l2' = [l2 EXCEPT !.st = IF @ = "MT_IIB" THEN "MT_IB" ELSE "SS",
                        !.sharers = @ \cup {m.src}]
    /\ \/ l2.st = "MT_IIB" /\ Receive(m, {})
       \/ l2.st = "MT_SB" /\ ReceiveAndWake("L2", m, {})

\* The former owner's data of a forwarded GETS (WB_Data, WB_Data_clean).
WB_Downgrade(m) ==
    /\ m.type = "DATA"
    /\ l2' = [l2 EXCEPT !.st = IF @ = "MT_IIB" THEN "MT_SB" ELSE "SS",
                        !.data = m.data, !.dirty = @ \/ m.dirty]
    /\ \/ l2.st = "MT_IIB" /\ Receive(m, {})
       \/ l2.st = "MT_IB" /\ ReceiveAndWake("L2", m, {})

\* The owner's answer to the invalidation of a replacement: WB_Data is
\* written back; otherwise the L2's own copy, if it was dirty.
WB_Replace(m) ==
    /\ \/ m.type = "DATA"
       \/ m.type = "ACK" /\ l2.acks - m.acks = 0
    /\ l2.st \in {"MT_I", "MCT_I"}
    /\ l2' = [l2 EXCEPT !.st = "M_I", !.acks = 0,
                        !.data = IF m.dirty THEN m.data ELSE @,
                        !.dirty = m.dirty \/ @]
    /\ Receive(m, {IF m.dirty \/ l2.st = "MT_I"
                     THEN ToMemory(l2'.data, l2'.dirty)
                     ELSE Msg("ACK", "L2", "Dir")})

\* A sharer's answer to the invalidation of a replacement.
InvAck(m) ==
    /\ m.type = "ACK"
    /\ l2.st \in {"I_I", "S_I"}
    /\ \/ /\ l2.acks - m.acks # 0
          /\ l2' = [l2 EXCEPT !.acks = @ - m.acks]
          /\ Receive(m, {})
       \/ /\ l2.acks - m.acks = 0
          /\ l2' = [l2 EXCEPT !.st = "M_I", !.acks = 0]
          /\ Receive(m, {IF l2.st = "S_I"
                           THEN ToMemory(l2.data, l2.dirty)
                           ELSE Msg("ACK", "L2", "Dir")})

\* The fetched line: to all the readers, or exclusively to the one reader or
\* the writer, who is to report.
Mem_Data(m) ==
    /\ m.type = "MEMORY_DATA"
    /\ l2.st \in Fetching
    /\ l2' = [l2 EXCEPT !.st = IF @ = "IS" THEN "SS" ELSE "MT_MB",
                        !.data = m.data, !.dirty = @ \/ m.dirty, !.for = {}]
    /\ LET out == {DataMsg(IF l2.st = "ISS" THEN "DATA_EXCLUSIVE" ELSE "DATA",
                           "L2", j, m.data, FALSE) : j \in l2.for}
       IN  IF l2.st = "IS" THEN ReceiveAndWake("L2", m, out) ELSE Receive(m, out)

\* Memory has taken the line back.
Mem_Ack(m) ==
    /\ m.type = "MEMORY_ACK"
    /\ l2.st = "M_I"
    /\ l2' = Absent
    /\ ReceiveAndWake("L2", m, {})

-----------------------------------------------------------------------------
(* Replacement, by another line's request or by the directory (MEM_Inv).   *)

\* i_allocateTBE, f_sendInvToSharers, rr_deallocateL2CacheBlock; the
\* messages to send.
ReplaceTo(st) ==
    l2' = [l2 EXCEPT !.st = st, !.acks = Cardinality(l2.sharers), !.sharers = {}]

\* L2_Replacement_clean, for an entry that is not Dirty.
L2_Replacement_clean ==
    /\ FALSE \in L2Evicts /\ ~l2.dirty
    /\ \/ l2.st = "SS" /\ ReplaceTo("I_I") /\ Send(InvTo(l2.sharers, "L2"))
       \/ l2.st = "MT" /\ ReplaceTo("MCT_I") /\ Send(InvTo(l2.sharers, "L2"))
       \/ l2.st = "M" /\ ReplaceTo("M_I") /\ Send({Msg("ACK", "L2", "Dir")})

\* What L2_Replacement and MEM_Inv do in the state of the line, and send.
Replacement ==
    LET leaving == [SS |-> "S_I", MT |-> "MT_I", M |-> "M_I"]
    IN  l2.st \in DOMAIN leaving /\ ReplaceTo(leaving[l2.st])

ReplacementMessages ==
    IF l2.st = "M" THEN {ToMemory(l2.data, l2.dirty)} ELSE InvTo(l2.sharers, "L2")

L2_Replacement ==
    /\ TRUE \in L2Evicts /\ l2.dirty
    /\ Replacement /\ Send(ReplacementMessages)


\* The directory's invalidation for a DMA access.  A line that is leaving or
\* gone needs nothing more; in SS, M and MT the message is peeked at again
\* after the replacement is started, and popped.
MEM_Inv(m) ==
    /\ m.type = "INV"
    /\ \/ l2.st \in Replacing \cup {"NP"} /\ UNCHANGED l2 /\ Receive(m, {})
       \/ Replacement /\ Receive(m, ReplacementMessages)

\* zn_recycleResponseNetwork: a fetching or blocked line puts it back.
MemInvRecycled(m) ==
    /\ m.type = "INV"
    /\ l2.st \in Fetching \cup Blocked

-----------------------------------------------------------------------------
L2Receive(m) ==
    /\ m.dst = "L2"
    /\ \/ FetchFromMemory(m) \/ JoinFetch(m) \/ ReadShared(m) \/ WriteShared(m)
       \/ RequestOwned(m) \/ ForwardToExclusive(m) \/ L1_PUTX(m)
       \/ L1_PUTX_old(m) \/ StallL2Request(m) \/ Exclusive_Unblock(m)
       \/ Unblock(m) \/ WB_Downgrade(m) \/ WB_Replace(m) \/ InvAck(m)
       \/ Mem_Data(m) \/ Mem_Ack(m) \/ MEM_Inv(m)
=============================================================================
