----------------------------- MODULE Directory -----------------------------
(***************************************************************************)
(* The directory of MESI_Two_Level for one line, the memory behind it and  *)
(* a DMA controller with one access to the line at a time.                 *)
(*                                                                         *)
(* A memory request of the directory is implied by its transient state;    *)
(* the memory performs it when it answers, and nothing else reaches the    *)
(* line's memory in between.  "words" is the range of a partial write (Len *)
(* at PhysicalAddress), "data" what a full write-back writes.              *)
(***************************************************************************)
EXTENDS RubyNetwork, FiniteSets

CONSTANTS DmaReads,    \* whether the DMA controller reads the line
          DmaWrites,   \* the sets of words it writes
          FirstWord,   \* the word at the line's own address
          MaxDma       \* bound: the versions the DMA controller may reach

VARIABLES dir,   \* the directory's state of the line and its TBE
          mem,   \* the line in memory
          dma    \* the DMA controller

directoryVars == <<dir, mem, dma>>

DirIdle == [st |-> "I", data |-> Fresh, words |-> {}]

DirectoryInit ==
    /\ dir = DirIdle
    /\ mem = Fresh
    /\ dma = [st |-> "READY", floor |-> Fresh, data |-> Fresh]

\* Busy with memory or with the invalidation for a DMA access.
DirBusy == {"ID", "ID_W", "M_DRDI", "M_DWRI", "IM", "MI"}

DirMsg(type, dst) == Msg(type, "Dir", dst)

-----------------------------------------------------------------------------
(* The L2's requests and responses.                                        *)

Fetch(m) ==
    /\ m.type = "GETS"
    /\ dir.st = "I"
    /\ dir' = [dir EXCEPT !.st = "IM"]
    /\ Receive(m, {})
    /\ UNCHANGED <<mem, dma, latest>>

\* A fetch waits for the transaction in progress, or for the owner's copy.
StallFetch(m) ==
    /\ m.type = "GETS"
    /\ dir.st \in DirBusy \cup {"M"}
    /\ StallAndWait(m, IF dir.st = "M" THEN {DirMsg("INV", "L2")} ELSE {})
    /\ UNCHANGED <<directoryVars, latest>>

CleanReplacement(m) ==
    /\ m.type = "ACK"
    /\ dir.st = "M"
    /\ dir' = DirIdle
    /\ ReceiveAndWake("Dir", m, {DirMsg("MEMORY_ACK", "L2")})
    /\ UNCHANGED <<mem, dma, latest>>

\* Variant of WritebackData: memory does not get the data.
WritebackDataNotWritten(m) ==
    /\ m.type = "MEMORY_DATA"
    /\ dir.st \in {"M", "M_DRD", "M_DWR"}
    /\ dir' = CASE dir.st = "M" -> [dir EXCEPT !.st = "MI", !.data = mem]
                [] dir.st = "M_DRD" -> [dir EXCEPT !.st = "M_DRDI", !.data = mem]
                [] dir.st = "M_DWR" -> [dir EXCEPT !.st = "M_DWRI"]
    /\ Receive(m, IF dir.st = "M_DRD"
                    THEN {DataMsg("DATA", "Dir", "DMA", m.data, FALSE)} ELSE {})
    /\ UNCHANGED <<mem, dma, latest>>

\* The L2's copy: to memory, and to a DMA read that waits for it.  For a DMA
\* write only the DMA's range is queued for memory.
WritebackData(m) ==
    /\ m.type = "MEMORY_DATA"
    /\ dir.st \in {"M", "M_DRD", "M_DWR"}
    /\ dir' = CASE dir.st = "M" -> [dir EXCEPT !.st = "MI", !.data = m.data]
                [] dir.st = "M_DRD" -> [dir EXCEPT !.st = "M_DRDI", !.data = m.data]
                [] dir.st = "M_DWR" -> [dir EXCEPT !.st = "M_DWRI"]
    /\ Receive(m, IF dir.st = "M_DRD"
                    THEN {DataMsg("DATA", "Dir", "DMA", m.data, FALSE)} ELSE {})
    /\ UNCHANGED <<mem, dma, latest>>

-----------------------------------------------------------------------------
(* Memory.                                                                 *)

\* The line read from memory, for the L2 or for the DMA controller.
Memory_Data ==
    /\ \/ /\ dir.st = "IM"
          /\ dir' = [DirIdle EXCEPT !.st = "M"]
          /\ Wake("Dir", {DataMsg("MEMORY_DATA", "Dir", "L2", mem, FALSE)})
       \/ /\ dir.st = "ID"
          /\ dir' = DirIdle
          /\ Wake("Dir", {DataMsg("DATA", "Dir", "DMA", mem, FALSE)})
    /\ UNCHANGED <<mem, dma, latest>>

\* A line written back to memory (MI, M_DRDI).
Memory_AckWriteback ==
    /\ dir.st \in {"MI", "M_DRDI"}
    /\ mem' = dir.data
    /\ dir' = DirIdle
    /\ Wake("Dir", {DirMsg("MEMORY_ACK", "L2")})
    /\ UNCHANGED <<dma, latest>>

\* The DMA's range written to memory (ID_W, M_DWRI); its words get the next
\* versions.  The answer carries the address of the write, under which the
\* TBE must be found: aa_sendAck, da_sendDMAAck.
Memory_AckDma ==
    /\ dir.st \in {"ID_W", "M_DWRI"}
    /\ FirstWord \in dir.words
    /\ latest' = [w \in Words |-> IF w \in dir.words THEN latest[w] + 1 ELSE latest[w]]
    /\ mem' = [w \in Words |-> IF w \in dir.words THEN latest'[w] ELSE mem[w]]
    /\ dir' = DirIdle
    /\ Wake("Dir", {DirMsg("ACK", "DMA")} \cup
                   IF dir.st = "M_DWRI" THEN {DirMsg("MEMORY_ACK", "L2")} ELSE {})
    /\ UNCHANGED dma

-----------------------------------------------------------------------------
(* DMA.                                                                    *)

DmaRequest(type, words) ==
    [DirMsg(type, "Dir") EXCEPT !.src = "DMA", !.req = "DMA",
        !.data = [w \in Words |-> IF w \in words THEN 1 ELSE 0]]

\* READY: send the read or write request (the DataBlk of a write is
\* represented by the words it covers).
DmaIssue ==
    /\ dma.st = "READY"
    /\ \/ /\ DmaReads
          /\ dma' = [st |-> "BUSY_RD", floor |-> latest, data |-> Fresh]
          /\ Send({DmaRequest("DMA_READ", {})})
       \/ \E words \in DmaWrites :
            /\ \A w \in words : latest[w] < MaxDma
            /\ dma' = [st |-> "BUSY_WR", floor |-> Fresh, data |-> Fresh]
            /\ Send({DmaRequest("DMA_WRITE", words)})
    /\ UNCHANGED <<dir, mem, latest>>

\* BUSY: the data, or the acknowledgement, completes the access.
DmaDone(m) ==
    /\ m.dst = "DMA"
    /\ \/ m.type = "DATA" /\ dma.st = "BUSY_RD"
       \/ m.type = "ACK" /\ dma.st = "BUSY_WR"
    /\ dma' = [dma EXCEPT !.st = "READY", !.data = m.data]
    /\ Receive(m, {})
    /\ UNCHANGED <<dir, mem, latest>>

\* Variant of DMA_Access: a line owned by the L2 is read from memory.
DMA_AccessStale(m) ==
    LET words == {w \in Words : m.data[w] = 1}
        read  == m.type = "DMA_READ"
    IN  /\ m.type \in {"DMA_READ", "DMA_WRITE"}
        /\ \/ /\ dir.st = "I" \/ (dir.st = "M" /\ read)
              /\ dir' = [DirIdle EXCEPT !.st = IF read THEN "ID" ELSE "ID_W",
                                        !.words = words]
              /\ Receive(m, {})
           \/ /\ dir.st = "M" /\ ~read
              /\ dir' = [DirIdle EXCEPT !.st = "M_DWR", !.words = words]
              /\ Receive(m, {DirMsg("INV", "L2")})
        /\ UNCHANGED <<mem, dma, latest>>

\* A DMA access starts: from memory if the directory owns the line, else
\* with an invalidation of the L2's copy.
DMA_Access(m) ==
    LET words == {w \in Words : m.data[w] = 1}
        read  == m.type = "DMA_READ"
    IN  /\ m.type \in {"DMA_READ", "DMA_WRITE"}
        /\ \/ /\ dir.st = "I"
              /\ dir' = [DirIdle EXCEPT !.st = IF read THEN "ID" ELSE "ID_W",
                                        !.words = words]
              /\ Receive(m, {})
           \/ /\ dir.st = "M"
              /\ dir' = [DirIdle EXCEPT !.st = IF read THEN "M_DRD" ELSE "M_DWR",
                                        !.words = words]
              /\ Receive(m, {DirMsg("INV", "L2")})
        /\ UNCHANGED <<mem, dma, latest>>

\* zz_recycleDMAQueue: a busy line puts the DMA request back.
DmaRecycled(m) ==
    /\ m.type \in {"DMA_READ", "DMA_WRITE"}
    /\ dir.st \in DirBusy \cup {"M_DRD", "M_DWR"}

-----------------------------------------------------------------------------
DirReceive(m) ==
    /\ m.dst = "Dir"
    /\ \/ Fetch(m) \/ StallFetch(m) \/ CleanReplacement(m) \/ WritebackData(m)
       \/ DMA_Access(m)

Memory == Memory_Data \/ Memory_AckWriteback \/ Memory_AckDma
=============================================================================
