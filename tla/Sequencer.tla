----------------------------- MODULE Sequencer -----------------------------
(***************************************************************************)
(* Ruby's Sequencer, one per CPU: the request table of one line, what is   *)
(* issued to the L1 through the mandatory queue, the completions, the      *)
(* LL/SC monitor and the line lock of Locked_RMW accesses.                 *)
(*                                                                         *)
(* A completion is an operator from the sequencer's record to its next     *)
(* value, for the L1's actions call it in the middle of a transition.      *)
(***************************************************************************)
EXTENDS RubyNetwork, SequencesExt

CONSTANTS Kinds,           \* the request types the CPUs issue
          MaxOutstanding,  \* m_max_outstanding_requests
          MaxVersion,      \* bound: versions written to one word
          None             \* "no monitor", "no lock"

VARIABLE seq   \* the sequencer of each CPU

sequencerVars == <<seq, latest>>

\* RubyRequestTypes that readCallback completes; all the others are issued
\* as stores and completed by writeCallback.
Reads == {"LD", "IFETCH", "Load_Linked"}

\* Types that change the data; a Store_Conditional does so when it succeeds.
Writes == {"ST", "Locked_RMW_Write", "Store_Conditional"}

SequencerInit ==
    seq = [i \in L1s |->
             [table   |-> <<>>,     \* m_RequestTable[line], oldest first
              mq      |-> "empty",  \* the request in the mandatory queue
              floor   |-> Fresh,    \* history: "latest" when it was issued
              monitor |-> None,     \* the D-cache entry's m_locked, and
                                    \* the versions its LL returned
              lock    |-> None]]    \* m_block_map[line], and the versions
                                    \* its Locked_RMW_Read returned

\* issueRequest for the head of the table.
issueRequest(s) == [s EXCEPT !.mq = "ready", !.floor = latest]

\* Bound: a write is made only if it, the writes under way and the write
\* halves of the locked accesses fit in MaxVersion.
Reserving == (Writes \ {"Locked_RMW_Write"}) \cup {"Locked_RMW_Read"}

Reserved(w) ==
    LET at == UNION {{<<i, n>> : n \in 1..Len(seq[i].table)} : i \in L1s}
    IN  Cardinality({p \in at : /\ seq[p[1]].table[p[2]].kind \in Reserving
                                /\ seq[p[1]].table[p[2]].word = w})
        + Cardinality({i \in L1s : seq[i].lock # None})

\* The CPU's side: the write half of a locked access follows its read half.
CpuMayIssue(i, kind) ==
    LET rmw == {"Locked_RMW_Read", "Locked_RMW_Write"}
        out == {seq[i].table[n].kind : n \in 1..Len(seq[i].table)}
    IN  /\ kind \in rmw => out \cap rmw = {}
        /\ kind = "Locked_RMW_Write" => seq[i].lock # None

\* Variant of makeRequest: the outstanding requests are not counted.
makeRequestUnbounded(i, kind, w) ==
    /\ Len(seq[i].table) <= MaxOutstanding
    /\ seq[i].lock # None => kind = "Locked_RMW_Write"
    /\ LET s == [seq[i] EXCEPT !.table = Append(@, [kind |-> kind, word |-> w])]
       IN  seq' = [seq EXCEPT ![i] =
                     IF Len(s.table) > 1 THEN s ELSE issueRequest(s)]
    /\ UNCHANGED latest

\* makeRequest and insertRequest: a request joins the line's list and is
\* issued when it is the only one.  BufferFull and a line locked by
\* blockOnQueue send the packet back to the port.
makeRequest(i, kind, w) ==
    /\ Len(seq[i].table) < MaxOutstanding
    /\ seq[i].lock # None => kind = "Locked_RMW_Write"
    /\ LET s == [seq[i] EXCEPT !.table = Append(@, [kind |-> kind, word |-> w])]
       IN  seq' = [seq EXCEPT ![i] =
                     IF Len(s.table) > 1 THEN s ELSE issueRequest(s)]
    /\ UNCHANGED latest

MakeRequest(i) ==
    /\ \E kind \in Kinds, w \in Words :
         /\ CpuMayIssue(i, kind)
         /\ kind \in Reserving => latest[w] + Reserved(w) < MaxVersion
         /\ makeRequest(i, kind, w)
    /\ UNCHANGED networkVars

\* hitCallback's Load-linked handling: llscLoadLinked marks the entry of the
\* data cache, if the line is in the data cache.
llscLoadLinked(monitor, dcache, data) == IF dcache THEN data ELSE monitor

\* Variant of readCallback: the write left over is not issued again.
readCallbackForgetsWrite(s, dcache, data) ==
    LET n == SelectInSeq(s.table, LAMBDA r : r.kind \notin Reads)
    IN  [s EXCEPT !.table = IF n = 0 THEN <<>> ELSE SubSeq(@, n, Len(@)),
                  !.mq = "empty", !.floor = Fresh]

\* readCallback: complete the reads at the front of the list with the data;
\* the first write, if any, is issued again (processReadCallback).
readCallback(s, dcache, data) ==
    LET n    == SelectInSeq(s.table, LAMBDA r : r.kind \notin Reads)
        done == IF n = 0 THEN s.table ELSE SubSeq(s.table, 1, n - 1)
        rest == IF n = 0 THEN <<>> ELSE SubSeq(s.table, n, Len(s.table))
        r    == [s EXCEPT !.table = rest, !.mq = "empty", !.floor = Fresh,
                   !.monitor = IF \E k \in 1..Len(done) :
                                     done[k].kind = "Load_Linked"
                                 THEN llscLoadLinked(@, dcache, data) ELSE @]
    IN  IF rest = <<>> THEN r ELSE issueRequest(r)

\* One request of writeCallback's list, on the line's data (which the L1 has
\* in its data cache, exclusively).  A write makes the next version of its
\* word out of the version it finds: a lost update shows as a version behind
\* "latest" for ever after.
completeOne(a, r) ==
    LET writes == r.kind \in Writes
                  /\ (r.kind = "Store_Conditional" => a.monitor # None)
    IN  [data    |-> IF writes THEN [a.data EXCEPT ![r.word] = @ + 1]
                               ELSE a.data,
         latest  |-> IF writes THEN [a.latest EXCEPT ![r.word] = @ + 1]
                               ELSE a.latest,
         monitor |-> IF r.kind = "Load_Linked" THEN a.data
                     ELSE IF r.kind \in Reads THEN a.monitor ELSE None,
         lock    |-> IF r.kind = "Locked_RMW_Read" THEN a.latest
                     ELSE IF r.kind = "Locked_RMW_Write" THEN None
                     ELSE a.lock]

\* writeCallback: complete the whole list, in order; the result also has the
\* line's data and the versions written last.
writeCallback(s, data) ==
    LET a == FoldLeft(completeOne,
                      [data |-> data, latest |-> latest,
                       monitor |-> s.monitor, lock |-> s.lock], s.table)
    IN  [seq    |-> [s EXCEPT !.table = <<>>, !.mq = "empty", !.floor = Fresh,
                       !.monitor = a.monitor, !.lock = a.lock],
         data   |-> a.data,
         latest |-> a.latest]
=============================================================================
