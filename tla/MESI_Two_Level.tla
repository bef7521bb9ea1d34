--------------------------- MODULE MESI_Two_Level ---------------------------
(***************************************************************************)
(* One line of the memory system of a MESI_Two_Level build: the CPUs'      *)
(* sequencers and L1 controllers, the L2 bank, the directory with its      *)
(* memory and a DMA controller, composed over the network.                 *)
(***************************************************************************)
EXTENDS L1Cache, L2Cache, Directory

vars == <<networkVars, latest, seq, l1Vars, l2, directoryVars>>

Init ==
    /\ NetworkInit
    /\ SequencerInit
    /\ L1Init
    /\ L2Init
    /\ DirectoryInit

\* What comes from outside the protocol: the CPU's requests, the prefetcher's,
\* and other lines that need the L1's entry.
CpuStep(i) ==
    /\ \/ MakeRequest(i) /\ UNCHANGED l1Vars
       \/ L1_Replacement(i)
       \/ PrefetchQueue(i)
    /\ UNCHANGED <<l2, directoryVars>>

\* The L1's ports: the mandatory queue, the network, the LL/SC timer.
L1Mandatory(i) == MandatoryQueue(i) /\ UNCHANGED <<l2, directoryVars>>

L1Network(i) ==
    /\ \E m \in BagToSet(msgs) : L1Receive(i, m)
    /\ UNCHANGED <<l2, directoryVars>>

L1Timer(i) == LLSC_Timeout(i) /\ UNCHANGED <<l2, directoryVars>>

L2Network ==
    /\ \E m \in BagToSet(msgs) : L2Receive(m)
    /\ UNCHANGED <<latest, seq, l1Vars, directoryVars>>

L2Evict ==
    /\ L2_Replacement \/ L2_Replacement_clean
    /\ UNCHANGED <<latest, seq, l1Vars, directoryVars>>

DirectoryStep ==
    /\ Memory \/ \E m \in BagToSet(msgs) : DirReceive(m)
    /\ UNCHANGED <<seq, l1Vars, l2>>

DmaStep ==
    /\ DmaIssue \/ \E m \in BagToSet(msgs) : DmaDone(m)
    /\ UNCHANGED <<seq, l1Vars, l2>>

Next ==
    \/ \E i \in L1s :
         CpuStep(i) \/ L1Mandatory(i) \/ L1Network(i) \/ L1Timer(i)
    \/ L2Network \/ L2Evict \/ DirectoryStep \/ DmaStep

Spec == Init /\ [][Next]_vars

-----------------------------------------------------------------------------
L1States == {"I", "S", "E", "M"} \cup Transient \cup Prefetching \cup LLSC
L2States == {"NP", "SS", "M", "MT"} \cup Fetching \cup Blocked \cup Replacing
DirStates == {"I", "M", "M_DRD", "M_DWR"} \cup DirBusy

\* The shape of the state; a sequencer never has more than MaxOutstanding
\* requests, and the request in the mandatory queue is one of them.
TypeOK ==
    /\ IsABag(msgs) /\ IsABag(stalled)
    /\ latest \in Data /\ mem \in Data
    /\ \A i \in L1s :
         /\ l1[i].st \in L1States /\ l1[i].data \in Data
         /\ l1[i].dirty \in BOOLEAN /\ l1[i].acks \in Int
         /\ Len(seq[i].table) <= MaxOutstanding
         /\ seq[i].mq \in {"empty", "ready", "parked"}
         /\ seq[i].table = <<>> => seq[i].mq = "empty"
         /\ seq[i].monitor \in Data \cup {None}
         /\ seq[i].lock \in Data \cup {None}
    /\ l2.st \in L2States /\ l2.data \in Data /\ l2.sharers \subseteq L1s
    /\ dir.st \in DirStates

\* The states with AccessPermission Read_Only or Read_Write; Read_Write.
Readable == {"S", "E", "M", "LLSC_E", "LLSC_M"}
Exclusive == {"E", "M", "LLSC_E", "LLSC_M"}

\* Single writer or many readers: while an L1 may write a line without asking
\* the L2, no other L1 may read it.
SingleWriter ==
    \A i, j \in L1s :
        i # j /\ l1[i].st \in Exclusive => l1[j].st \notin Readable

\* Every copy a CPU can read holds the versions written last.
CopiesAreLatest ==
    \A i \in L1s : l1[i].st \in Readable => l1[i].data = latest

\* The directory's state I: memory is up to date and no other copy is valid.
DirectoryOwns ==
    dir.st = "I" =>
        /\ mem = latest
        /\ \A i \in L1s : l1[i].st \notin Readable

\* Inclusion: in its stable states the L2 knows every L1 with a copy, and
\* whether its own data are the versions written last.
L2KnowsHolders ==
    LET holders == {i \in L1s : l1[i].st \in Readable}
    IN  /\ l2.st \in {"NP", "M"} => holders = {}
        /\ l2.st = "SS" => holders \subseteq l2.sharers
        /\ l2.st = "MT" => \E i \in L1s : l2.sharers = {i} /\ holders \subseteq {i}
        /\ l2.st \in {"SS", "M"} => l2.data = latest

\* No controller meets an event its table has no transition for (the
\* generated code panics with "Invalid transition"): a message can be handled,
\* put aside or recycled, and so can a request of the CPU or the prefetcher;
\* and the memory's answer to a DMA write finds the TBE of its line
\* (da_sendDMAAck asserts so).
NoInvalidTransition ==
    /\ \A m \in BagToSet(msgs) :
         \/ m.dst \in L1s /\ (seq[m.dst].lock # None \/ ENABLED L1Receive(m.dst, m))
         \/ m.dst = "L2" /\ (MemInvRecycled(m) \/ ENABLED L2Receive(m))
         \/ m.dst = "Dir" /\ (DmaRecycled(m) \/ ENABLED DirReceive(m))
         \/ ENABLED DmaDone(m)
    /\ \A i \in L1s :
         /\ seq[i].mq = "ready" => ENABLED MandatoryQueue(i)
         /\ opt[i].msg # "none" => ENABLED (PF_Miss(i) \/ PF_Drop(i))
    /\ dir.st \in {"ID_W", "M_DWRI"} => ENABLED Memory_AckDma

\* What the L1s and the L2 put aside is woken again: a message waits at a
\* controller whose line is in the middle of a transaction, or under the LL/SC
\* lock, the end of which wakes the dependents; so does a CPU's request.
RequestsPutAsideWait ==
    /\ \A m \in BagToSet(stalled) :
         \/ m.dst \in L1s /\ l1[m.dst].st \in LLSC
         \/ m.dst = "L2" /\ l2.st \in Fetching \cup Blocked \cup Replacing
         \/ m.dst = "Dir"
    /\ \A i \in L1s : seq[i].mq = "parked" =>
         l1[i].st \in Transient \cup Prefetching \cup LLSC

\* The same of everything that is put aside: also the L2's fetch at the
\* directory, and the prefetches, whose buffer must be registered too.
WaitersWaitForTransaction ==
    /\ RequestsPutAsideWait
    /\ \A m \in BagToSet(stalled) : m.dst = "Dir" => dir.st \in DirBusy
    /\ \A i \in L1s : opt[i].parked => opt[i].registered

\* An armed LL/SC monitor: nobody has written the line since the Load_Linked
\* returned it, so the Store_Conditional may succeed.
MonitorSound ==
    \A i \in L1s : seq[i].monitor # None => seq[i].monitor = latest

\* A locked read-modify-write is atomic: between its read and its write the
\* line stays with the CPU, exclusively and unwritten.
LockedRMWAtomic ==
    \A i \in L1s : seq[i].lock # None =>
        /\ seq[i].lock = latest
        /\ l1[i].st \in {"M", "LLSC_M"}

\* The sequencer and the L1 agree on the request in progress: a list has one,
\* in the mandatory queue or in the L1's TBE, it is the list's head, and the
\* L1 will complete it with the callback of its type (which asserts so).
RequestInProgress ==
    \A i \in L1s :
        LET missed == l1[i].st \in {"IS", "IS_I", "IM", "SM"}
        IN  /\ (seq[i].mq # "empty" \/ missed) <=> seq[i].table # <<>>
            /\ missed =>
                 /\ seq[i].mq = "empty"
                 /\ (l1[i].st \in {"IS", "IS_I"} \/ l1[i].ll)
                      <=> Head(seq[i].table).kind \in Reads

\* A DMA read returns data no older than the last write before it was made.
DmaReadsFresh ==
    dma.st = "READY" => \A w \in Words : dma.data[w] >= dma.floor[w]

\* A read returns data no older than the last write, by any CPU, that had
\* completed when it was issued to the L1.
ReadsFresh ==
    [][\A i \in L1s :
         (seq[i].table # <<>> /\ Head(seq[i].table).kind \in Reads
             /\ Len(seq'[i].table) < Len(seq[i].table))
         => \A w \in Words : l1'[i].data[w] >= seq[i].floor[w]]_vars

-----------------------------------------------------------------------------
Line == INSTANCE CoherentLine WITH
    perm <- [i \in L1s |-> IF l1[i].st \in Exclusive THEN "write"
                           ELSE IF l1[i].st \in Readable THEN "read" ELSE "none"],
    copy <- [i \in L1s |-> IF l1[i].st \in Readable THEN l1[i].data ELSE Fresh]

\* The protocol implements the line CoherentLine describes: every step of a
\* controller gives, uses or takes away one permission, or none, and a copy
\* comes with the versions written last.
ImplementsCoherentLine == Line!Spec

-----------------------------------------------------------------------------
(* Fairness.  A controller's wakeup visits all its ports as long as one of *)
(* them is ready, so each port runs.  The L2 gives the requests it has put *)
(* aside back to their buffer in the order they were put aside, ahead of   *)
(* what arrives later: a request that can be served again and again is.    *)

L2Serves(i, types) ==
    /\ \E m \in BagToSet(msgs) :
         /\ m.src = i /\ m.type \in types
         /\ L2Receive(m) /\ m \notin BagToSet(stalled')
    /\ UNCHANGED <<latest, seq, l1Vars, directoryVars>>

FairSpec ==
    /\ Spec
    /\ \A i \in L1s :
         /\ WF_vars(L1Mandatory(i)) /\ WF_vars(L1Network(i)) /\ WF_vars(L1Timer(i))
         /\ SF_vars(L2Serves(i, {"GETS", "GET_INSTR", "GETX", "UPGRADE"}))
         /\ SF_vars(L2Serves(i, {"PUTX"}))
    /\ WF_vars(L2Network)
    /\ WF_vars(DirectoryStep)

\* Every request a CPU has made is completed.
RequestsComplete ==
    \A i \in L1s : (seq[i].table # <<>>) ~> (seq[i].table = <<>>)
=============================================================================
