------------------------------ MODULE MESI_proof ------------------------------
(***************************************************************************)
(* Proofs about the composed protocol for every number of CPUs, of          *)
(* outstanding requests and of versions, with or without prefetching, LL/SC *)
(* locks, L2 replacements and DMA.                                          *)
(***************************************************************************)
EXTENDS MESI_Two_Level, Min_proof, SequenceTheorems

Requests == [kind : Kinds, word : Words]

(* The states in which the L1 has a request of the sequencer in its TBE,    *)
(* and those in which it parks the mandatory queue.                         *)
Missed  == {"IS", "IS_I", "IM", "SM"}
Waiting == Transient \cup Prefetching \cup LLSC

(* s and l are records with a sequencer's and a line's fields.              *)
SeqShape(s) == s \in [table : {s.table}, mq : {s.mq}, floor : {s.floor},
                       monitor : {s.monitor}, lock : {s.lock}]

LineShape(l) == l \in [st : {l.st}, side : {l.side}, data : {l.data},
                        dirty : {l.dirty}, acks : {l.acks}, ll : {l.ll}]

(***************************************************************************)
(* Sequencer s and L1 line l agree: what RequestInProgress says, the list's *)
(* type, and that a parked request waits for a transaction of the line.     *)
(***************************************************************************)
Agree(s, l) ==
    /\ SeqShape(s) /\ LineShape(l)
    /\ s.table \in Seq(Requests)
    /\ (s.mq # "empty" \/ l.st \in Missed) <=> s.table # << >>
    /\ s.mq = "parked" => l.st \in Waiting
    /\ l.st \in Missed =>
          /\ s.mq = "empty"
          /\ (l.st \in {"IS", "IS_I"} \/ l.ll) <=> Head(s.table).kind \in Reads

AllAgree ==
    /\ seq = [i \in L1s |-> seq[i]]
    /\ l1 = [i \in L1s |-> l1[i]]
    /\ \A i \in L1s : Agree(seq[i], l1[i])

--------------------------------------------------------------------------------
(* What the sequencer's operators do to a record.                           *)

(* Waking, invalidating and evicting leave the list and whether a request   *)
(* is in the mandatory queue.                                               *)
LEMMA SmallOperators ==
  ASSUME NEW s, SeqShape(s)
  PROVE  /\ SeqShape(WakeMandatory(s)) /\ WakeMandatory(s).table = s.table
         /\ WakeMandatory(s).mq # "parked"
         /\ WakeMandatory(s).mq = "empty" <=> s.mq = "empty"
         /\ SeqShape(Invalidated(s)) /\ Invalidated(s).table = s.table
         /\ Invalidated(s).mq = s.mq
         /\ SeqShape(evictionCallback(s)) /\ evictionCallback(s).table = s.table
         /\ evictionCallback(s).mq = s.mq
<1>1. /\ SeqShape(WakeMandatory(s)) /\ WakeMandatory(s).table = s.table
      /\ WakeMandatory(s).mq # "parked"
      /\ WakeMandatory(s).mq = "empty" <=> s.mq = "empty"
  BY DEF SeqShape, WakeMandatory
<1>2. /\ SeqShape(Invalidated(s)) /\ Invalidated(s).table = s.table
      /\ Invalidated(s).mq = s.mq
  BY DEF SeqShape, Invalidated
<1>3. /\ SeqShape(evictionCallback(s)) /\ evictionCallback(s).table = s.table
      /\ evictionCallback(s).mq = s.mq
  BY DEF SeqShape, evictionCallback
<1> QED BY <1>1, <1>2, <1>3

(* issueRequest fills the mandatory queue.                                  *)
LEMMA IssueEffect ==
  ASSUME NEW s, SeqShape(s)
  PROVE  /\ SeqShape(issueRequest(s)) /\ issueRequest(s).table = s.table
         /\ issueRequest(s).mq = "ready"
BY DEF SeqShape, issueRequest

(* readCallback leaves the list from its first write on, and issues that    *)
(* write if there is one.                                                   *)
LEMMA ReadCallbackEffect ==
  ASSUME NEW s, SeqShape(s), s.table \in Seq(Requests), NEW dcache, NEW data
  PROVE  LET c == readCallback(s, dcache, data)
         IN  /\ SeqShape(c) /\ c.table \in Seq(Requests)
             /\ c.mq \in {"empty", "ready"}
             /\ c.mq # "empty" <=> c.table # << >>
<1> DEFINE I    == {k \in 1 .. Len(s.table) : s.table[k].kind \notin Reads}
           n    == IF I # {} THEN Min(I) ELSE 0
           done == IF n = 0 THEN s.table ELSE SubSeq(s.table, 1, n - 1)
           rest == IF n = 0 THEN << >> ELSE SubSeq(s.table, n, Len(s.table))
           mon  == IF \E k \in 1 .. Len(done) : done[k].kind = "Load_Linked"
                     THEN llscLoadLinked(s.monitor, dcache, data) ELSE s.monitor
           r    == [s EXCEPT !.table = rest, !.mq = "empty", !.floor = Fresh,
                             !.monitor = mon]
<1>1. I # {} => n \in 1 .. Len(s.table)
  <2>1. I \subseteq Nat /\ I \subseteq 1 .. Len(s.table)
    OBVIOUS
  <2>2. I # {} => Min(I) \in I
    <3> HIDE DEF I
    <3> QED BY <2>1, MinMember
  <2> QED BY <2>1, <2>2
<1>2. rest \in Seq(Requests)
  <2>1. CASE n = 0
    BY <2>1
  <2>2. CASE n # 0
    <3>1. n \in 1 .. Len(s.table)
      BY <1>1, <2>2
    <3> HIDE DEF n
    <3> QED BY <2>2, <3>1
  <2> QED BY <2>1, <2>2
<1>4. readCallback(s, dcache, data) = IF rest = << >> THEN r ELSE issueRequest(r)
  BY DEF readCallback, SelectInSeq
<1>5. SeqShape(r) /\ r.table = rest /\ r.mq = "empty"
  <2> HIDE DEF rest, mon
  <2> QED BY DEF SeqShape
<1> HIDE DEF r, rest
<1>6. CASE rest = << >>
  BY <1>2, <1>4, <1>5, <1>6
<1>7. CASE rest # << >>
  <2>1. /\ SeqShape(issueRequest(r)) /\ issueRequest(r).table = r.table
        /\ issueRequest(r).mq = "ready"
    BY <1>5, IssueEffect
  <2> QED BY <1>2, <1>4, <1>5, <1>7, <2>1
<1> QED BY <1>6, <1>7

(* writeCallback completes the whole list.                                  *)
LEMMA WriteCallbackEffect ==
  ASSUME NEW s, SeqShape(s), NEW data
  PROVE  LET c == writeCallback(s, data).seq
         IN  SeqShape(c) /\ c.table = << >> /\ c.mq = "empty"
BY DEF writeCallback, SeqShape

(* A step of one CPU's sequencer and L1.                                    *)
LEMMA OneCpuStep ==
  ASSUME AllAgree, NEW i \in L1s, NEW s, NEW l, Agree(s, l),
         seq' = [seq EXCEPT ![i] = s], l1' = [l1 EXCEPT ![i] = l]
  PROVE  AllAgree'
<1>1. \A j \in L1s : /\ seq'[j] = IF j = i THEN s ELSE seq[j]
                     /\ l1'[j] = IF j = i THEN l ELSE l1[j]
  BY DEF AllAgree
<1>2. seq' = [j \in L1s |-> seq'[j]] /\ l1' = [j \in L1s |-> l1'[j]]
  BY DEF AllAgree
<1>3. \A j \in L1s : Agree(seq'[j], l1'[j])
  BY <1>1 DEF AllAgree
<1> QED BY <1>2, <1>3 DEF AllAgree

(* The same with one of the two standing still.                             *)
LEMMA OneLineStep ==
  ASSUME AllAgree, NEW i \in L1s, NEW l, Agree(seq[i], l),
         UNCHANGED seq, l1' = [l1 EXCEPT ![i] = l]
  PROVE  AllAgree'
<1>1. seq' = [seq EXCEPT ![i] = seq[i]]
  BY DEF AllAgree
<1> QED BY <1>1, OneCpuStep

LEMMA OneSequencerStep ==
  ASSUME AllAgree, NEW i \in L1s, NEW s, Agree(s, l1[i]),
         UNCHANGED l1, seq' = [seq EXCEPT ![i] = s]
  PROVE  AllAgree'
<1>1. l1' = [l1 EXCEPT ![i] = l1[i]]
  BY DEF AllAgree
<1> QED BY <1>1, OneCpuStep

--------------------------------------------------------------------------------
(* The L1's handlers.                                                       *)

(* Exactly the requests that are not reads are triggered as stores.         *)
LEMMA EventKinds ==
  ASSUME NEW i \in L1s
  PROVE  /\ Event(i) = "Store" <=> Head(seq[i].table).kind \notin Reads
         /\ Event(i) \in {"Load", "Ifetch", "Load_Linked", "Store"}
BY DEF Event, Reads

(* A line that is not in a miss agrees with a sequencer whose list is empty *)
(* exactly when its mandatory queue is.                                     *)
LEMMA AgreeSettled ==
  ASSUME NEW s, NEW l, SeqShape(s), LineShape(l), s.table \in Seq(Requests),
         l.st \notin Missed, s.mq # "empty" <=> s.table # << >>,
         s.mq = "parked" => l.st \in Waiting
  PROVE  Agree(s, l)
BY DEF Agree

LEMMA LoadHitStep ==
  ASSUME AllAgree, NEW i \in L1s, LoadHit(i) \/ LoadLinkedHit(i)
  PROVE  AllAgree'
<1>1. Agree(seq[i], l1[i])
  BY DEF AllAgree
<1>2. SeqShape(seq[i]) /\ LineShape(l1[i]) /\ seq[i].table \in Seq(Requests)
  BY <1>1 DEF Agree
<1>3. CASE LoadHit(i)
  <2> DEFINE c == readCallback(seq[i], l1[i].side = "D", l1[i].data)
  <2>1. /\ SeqShape(c) /\ c.table \in Seq(Requests) /\ c.mq \in {"empty", "ready"}
        /\ c.mq # "empty" <=> c.table # << >>
    BY <1>2, ReadCallbackEffect
  <2>2. seq' = [seq EXCEPT ![i] = c] /\ UNCHANGED l1 /\ l1[i].st \notin Missed
    BY <1>3 DEF LoadHit, l1Vars, Missed, LLSC
  <2> HIDE DEF c
  <2>3. Agree(c, l1[i])
    BY <1>2, <2>1, <2>2, AgreeSettled
  <2> QED BY <2>2, <2>3, OneSequencerStep
<1>4. CASE LoadLinkedHit(i)
  <2> DEFINE c == readCallback(seq[i], TRUE, l1[i].data)
             l == [l1[i] EXCEPT !.st = IF @ = "E" THEN "LLSC_E" ELSE "LLSC_M"]
  <2>1. /\ SeqShape(c) /\ c.table \in Seq(Requests) /\ c.mq \in {"empty", "ready"}
        /\ c.mq # "empty" <=> c.table # << >>
    BY <1>2, ReadCallbackEffect
  <2>2. seq' = [seq EXCEPT ![i] = c] /\ l1' = [l1 EXCEPT ![i] = l]
    BY <1>4 DEF LoadLinkedHit
  <2>3. LineShape(l) /\ l.st \notin Missed
    BY <1>2 DEF LineShape, Missed
  <2> HIDE DEF c, l
  <2>4. Agree(c, l)
    BY <2>1, <2>3, AgreeSettled
  <2> QED BY <2>2, <2>4, OneCpuStep
<1> QED BY <1>3, <1>4

LEMMA StoreHitStep ==
  ASSUME AllAgree, NEW i \in L1s, StoreHit(i)
  PROVE  AllAgree'
<1> DEFINE w == writeCallback(seq[i], l1[i].data)
           c == w.seq
           l == [l1[i] EXCEPT !.st = IF @ \in LLSC THEN "LLSC_M" ELSE "M",
                              !.data = w.data, !.dirty = TRUE]
<1>1. SeqShape(seq[i]) /\ LineShape(l1[i])
  BY DEF AllAgree, Agree
<1>2. SeqShape(c) /\ c.table = << >> /\ c.mq = "empty"
  BY <1>1, WriteCallbackEffect
<1>3. seq' = [seq EXCEPT ![i] = c] /\ l1' = [l1 EXCEPT ![i] = l]
  BY DEF StoreHit
<1>4. LineShape(l) /\ l.st \notin Missed
  <2> HIDE DEF w
  <2> QED BY <1>1 DEF LineShape, Missed, LLSC
<1>5. Agree(c, l)
  <2> HIDE DEF c, l
  <2>1. c.table \in Seq(Requests)
    BY <1>2, EmptySeq
  <2> QED BY <1>2, <1>4, <2>1, AgreeSettled
<1> HIDE DEF c, l
<1> QED BY <1>3, <1>5, OneCpuStep

LEMMA MissStep ==
  ASSUME AllAgree, NEW i \in L1s, Miss(i) \/ Upgrade(i) \/ JoinPrefetch(i)
  PROVE  AllAgree'
<1> DEFINE s == [seq[i] EXCEPT !.mq = "empty"]
<1>1. Agree(seq[i], l1[i])
  BY DEF AllAgree
<1>2. /\ SeqShape(seq[i]) /\ LineShape(l1[i]) /\ seq[i].table \in Seq(Requests)
      /\ seq[i].mq # "empty" => seq[i].table # << >>
  BY <1>1 DEF Agree
<1>3. /\ SeqShape(s) /\ s.table = seq[i].table /\ s.mq = "empty"
  BY <1>2 DEF SeqShape
<1>4. /\ Event(i) = "Store" <=> Head(s.table).kind \notin Reads
      /\ Event(i) \in {"Load", "Ifetch", "Load_Linked", "Store"}
  BY <1>3, EventKinds
<1>5. seq[i].mq = "ready" /\ seq' = [seq EXCEPT ![i] = s]
  BY DEF Miss, Upgrade, JoinPrefetch, Mandatory
<1>6. s.table # << >> /\ s.table \in Seq(Requests)
  BY <1>2, <1>3, <1>5
<1> HIDE DEF s
<1>7. ASSUME NEW l, LineShape(l), l1' = [l1 EXCEPT ![i] = l], l.st \in Missed,
             (l.st \in {"IS", "IS_I"} \/ l.ll) <=> Event(i) # "Store"
      PROVE  AllAgree'
  <2>1. Agree(s, l)
    BY <1>3, <1>4, <1>6, <1>7 DEF Agree
  <2> QED BY <1>5, <1>7, <2>1, OneCpuStep
<1>8. CASE Miss(i)
  <2> DEFINE l == [Idle EXCEPT !.st = IF Event(i) \in {"Load", "Ifetch"} THEN "IS"
                                                                        ELSE "IM",
                               !.side = Side(i), !.ll = Event(i) = "Load_Linked"]
  <2>1. l1' = [l1 EXCEPT ![i] = l]
    BY <1>8 DEF Miss, Mandatory
  <2>2. LineShape(l) /\ l.st \in Missed
    BY DEF LineShape, Idle, Missed
  <2>3. (l.st \in {"IS", "IS_I"} \/ l.ll) <=> Event(i) # "Store"
    BY <1>4 DEF Idle
  <2> HIDE DEF l
  <2> QED BY <1>7, <2>1, <2>2, <2>3
<1>9. CASE Upgrade(i)
  <2> DEFINE l == [l1[i] EXCEPT !.st = "SM", !.ll = Event(i) = "Load_Linked"]
  <2>1. l1' = [l1 EXCEPT ![i] = l] /\ Event(i) \in {"Load_Linked", "Store"}
    BY <1>9 DEF Upgrade, Mandatory
  <2>2. LineShape(l) /\ l.st = "SM" /\ l.ll = (Event(i) = "Load_Linked")
    BY <1>2 DEF LineShape
  <2> HIDE DEF l
  <2> QED BY <1>7, <2>1, <2>2 DEF Missed
<1>10. CASE JoinPrefetch(i)
  <2> DEFINE st == CASE l1[i].st = "PF_IS" -> "IS" [] l1[i].st = "PF_IS_I" -> "IS_I"
                     [] l1[i].st = "PF_IM" -> "IM" [] l1[i].st = "PF_SM" -> "SM"
             l  == [l1[i] EXCEPT !.st = st, !.ll = Event(i) = "Load_Linked"]
  <2>1. /\ l1' = [l1 EXCEPT ![i] = l]
        /\ \/ l1[i].st \in {"PF_IS", "PF_IS_I"} /\ Event(i) \in {"Load", "Ifetch"}
           \/ l1[i].st \in {"PF_IM", "PF_SM"} /\ Event(i) \in {"Load_Linked", "Store"}
    BY <1>10 DEF JoinPrefetch, Mandatory
  <2>2. /\ st \in Missed
        /\ l1[i].st \in {"PF_IS", "PF_IS_I"} <=> st \in {"IS", "IS_I"}
    BY <2>1 DEF Missed
  <2> HIDE DEF st
  <2>3. LineShape(l) /\ l.st = st /\ l.ll = (Event(i) = "Load_Linked")
    BY <1>2 DEF LineShape
  <2> HIDE DEF l
  <2> QED BY <1>7, <2>1, <2>2, <2>3
<1> QED BY <1>8, <1>9, <1>10

(* A settled line goes to another settled state, and the sequencer keeps    *)
(* its list and what is in its mandatory queue.                             *)
LEMMA SettledStep ==
  ASSUME AllAgree, NEW i \in L1s, NEW s, NEW l,
         SeqShape(s), s.table = seq[i].table, s.mq = "empty" <=> seq[i].mq = "empty",
         LineShape(l), l1[i].st \notin Missed, l.st \notin Missed,
         s.mq = "parked" => l.st \in Waiting,
         seq' = [seq EXCEPT ![i] = s], l1' = [l1 EXCEPT ![i] = l]
  PROVE  AllAgree'
<1>1. Agree(seq[i], l1[i])
  BY DEF AllAgree
<1>2. s.table \in Seq(Requests) /\ (s.mq # "empty" <=> s.table # << >>)
  BY <1>1 DEF Agree
<1>3. Agree(s, l)
  BY <1>2, AgreeSettled
<1> QED BY <1>3, OneCpuStep

LEMMA StallMandatoryStep ==
  ASSUME AllAgree, NEW i \in L1s, StallMandatory(i)
  PROVE  AllAgree'
<1> DEFINE s == [seq[i] EXCEPT !.mq = "parked"]
<1>1. Agree(seq[i], l1[i])
  BY DEF AllAgree
<1>2. /\ SeqShape(seq[i]) /\ LineShape(l1[i]) /\ seq[i].table \in Seq(Requests)
      /\ seq[i].mq = "ready" => seq[i].table # << >> /\ l1[i].st \notin Missed
  BY <1>1 DEF Agree
<1>3. /\ seq[i].mq = "ready" /\ l1[i].st \in Waiting
      /\ seq' = [seq EXCEPT ![i] = s] /\ UNCHANGED l1
  BY DEF StallMandatory, Waiting, Transient, Prefetching, LLSC, l1Vars
<1>4. SeqShape(s) /\ s.table = seq[i].table /\ s.mq = "parked"
  BY <1>2 DEF SeqShape
<1> HIDE DEF s
<1>5. Agree(s, l1[i])
  BY <1>2, <1>3, <1>4, AgreeSettled
<1> QED BY <1>3, <1>5, OneSequencerStep

(* A fresh record of a state.                                               *)
LEMMA IdleShape ==
  /\ LineShape(Idle) /\ Idle.st = "I"
  /\ \A st, side, data, dirty :
        LET l == [Idle EXCEPT !.st = st, !.side = side, !.data = data, !.dirty = dirty]
        IN  LineShape(l) /\ l.st = st
<1>1. LineShape(Idle) /\ Idle.st = "I"
  BY DEF LineShape, Idle
<1>2. ASSUME NEW st, NEW side, NEW data, NEW dirty
      PROVE  LET l == [Idle EXCEPT !.st = st, !.side = side, !.data = data,
                                   !.dirty = dirty]
             IN  LineShape(l) /\ l.st = st
  BY DEF LineShape, Idle
<1> QED BY <1>1, <1>2

(* Parked requests wait in a transaction, so not in a stable state.         *)
LEMMA StableNotParked ==
  ASSUME AllAgree, NEW i \in L1s, l1[i].st \in {"I", "S", "E", "M"}
  PROVE  seq[i].mq # "parked" /\ l1[i].st \notin Missed
<1>1. Agree(seq[i], l1[i])
  BY DEF AllAgree
<1> QED BY <1>1 DEF Agree, Waiting, Transient, Prefetching, LLSC, Missed

LEMMA EvictLineStep ==
  ASSUME AllAgree, NEW i \in L1s, EvictLine(i)
  PROVE  AllAgree'
<1> DEFINE s == Invalidated(seq[i])
<1>1. SeqShape(seq[i])
  BY DEF AllAgree, Agree
<1>2. SeqShape(s) /\ s.table = seq[i].table /\ s.mq = seq[i].mq
  BY <1>1, SmallOperators
<1>3. /\ seq' = [seq EXCEPT ![i] = s] /\ l1[i].st \in {"I", "S", "E", "M"}
  BY DEF EvictLine
<1>4. s.mq # "parked" /\ l1[i].st \notin Missed
  BY <1>2, <1>3, StableNotParked
<1>5. \E l : LineShape(l) /\ l.st \in {"I", "M_I"} /\ l1' = [l1 EXCEPT ![i] = l]
  <2>1. CASE l1' = [l1 EXCEPT ![i] = Idle]
    BY <2>1, IdleShape
  <2>2. CASE l1' = [l1 EXCEPT ![i] = [Idle EXCEPT !.st = "M_I",
                               !.data = l1[i].data, !.dirty = l1[i].dirty]]
    <3> DEFINE l == [Idle EXCEPT !.st = "M_I", !.data = l1[i].data,
                                 !.dirty = l1[i].dirty]
    <3>1. LineShape(l) /\ l.st = "M_I"
      BY DEF LineShape, Idle
    <3> HIDE DEF l
    <3> QED BY <2>2, <3>1 DEF l
  <2> QED BY <2>1, <2>2 DEF EvictLine
<1>6. PICK l : LineShape(l) /\ l.st \in {"I", "M_I"} /\ l1' = [l1 EXCEPT ![i] = l]
  BY <1>5
<1>7. l.st \notin Missed
  BY <1>6 DEF Missed
<1> HIDE DEF s
<1> QED BY <1>2, <1>3, <1>4, <1>6, <1>7, SettledStep

LEMMA PrefetchStep ==
  ASSUME AllAgree, NEW i \in L1s, PrefetchQueue(i)
  PROVE  AllAgree'
<1>1. CASE EnqueuePrefetch(i) \/ PF_Drop(i) \/ PF_Stall(i)
  <2>1. UNCHANGED <<seq, l1>>
    BY <1>1 DEF EnqueuePrefetch, PF_Drop, PF_Stall, sequencerVars
  <2> QED BY <2>1 DEF AllAgree
<1>2. CASE PF_L1_Replacement(i)
  BY <1>2, EvictLineStep DEF PF_L1_Replacement
<1>3. CASE PF_Miss(i)
  <2> DEFINE l == [Idle EXCEPT !.st = IF opt[i].msg = "ST" THEN "PF_IM" ELSE "PF_IS",
                               !.side = IF opt[i].msg = "IFETCH" THEN "I" ELSE "D"]
  <2>1. l1[i].st = "I" /\ UNCHANGED seq /\ l1' = [l1 EXCEPT ![i] = l]
    BY <1>3 DEF PF_Miss, sequencerVars
  <2>2. LineShape(l) /\ l.st \notin Missed
    BY DEF LineShape, Idle, Missed
  <2>3. seq[i].mq # "parked" /\ l1[i].st \notin Missed
    BY <2>1, StableNotParked
  <2>4. Agree(seq[i], l1[i])
    BY DEF AllAgree
  <2> HIDE DEF l
  <2>5. Agree(seq[i], l)
    BY <2>2, <2>3, <2>4, AgreeSettled DEF Agree
  <2> QED BY <2>1, <2>5, OneLineStep
<1> QED BY <1>1, <1>2, <1>3 DEF PrefetchQueue

LEMMA MandatoryStep ==
  ASSUME AllAgree, NEW i \in L1s, MandatoryQueue(i)
  PROVE  AllAgree'
<1>1. CASE WrongL1(i)
  BY <1>1, EvictLineStep DEF WrongL1
<1> QED BY <1>1, LoadHitStep, StoreHitStep, MissStep, StallMandatoryStep
        DEF MandatoryQueue

LEMMA TimeoutStep ==
  ASSUME AllAgree, NEW i \in L1s, LLSC_Timeout(i)
  PROVE  AllAgree'
<1> DEFINE s == WakeMandatory(seq[i])
           l == [l1[i] EXCEPT !.st = IF @ = "LLSC_E" THEN "E" ELSE "M"]
<1>1. SeqShape(seq[i]) /\ LineShape(l1[i])
  BY DEF AllAgree, Agree
<1>2. /\ SeqShape(s) /\ s.table = seq[i].table /\ s.mq # "parked"
      /\ s.mq = "empty" <=> seq[i].mq = "empty"
  BY <1>1, SmallOperators
<1>3. /\ seq' = [seq EXCEPT ![i] = s] /\ l1' = [l1 EXCEPT ![i] = l]
      /\ l1[i].st \notin Missed
  BY DEF LLSC_Timeout, LLSC, Missed
<1>4. LineShape(l) /\ l.st \notin Missed
  BY <1>1 DEF LineShape, Missed
<1> HIDE DEF s, l
<1> QED BY <1>2, <1>3, <1>4, SettledStep

(* A request joins the list, and is issued if it is the first.              *)
LEMMA MakeRequestStep ==
  ASSUME AllAgree, NEW i \in L1s, MakeRequest(i), UNCHANGED l1Vars
  PROVE  AllAgree'
<1>1. PICK kind \in Kinds, w \in Words : makeRequest(i, kind, w)
  BY DEF MakeRequest
<1> DEFINE q == [kind |-> kind, word |-> w]
           t == [seq[i] EXCEPT !.table = Append(@, q)]
           s == IF Len(t.table) > 1 THEN t ELSE issueRequest(t)
<1>2. Agree(seq[i], l1[i])
  BY DEF AllAgree
<1>3. SeqShape(seq[i]) /\ LineShape(l1[i]) /\ seq[i].table \in Seq(Requests)
  BY <1>2 DEF Agree
<1>4. q \in Requests
  BY DEF Requests
<1>6. seq' = [seq EXCEPT ![i] = s] /\ UNCHANGED l1
  <2>1. seq' = [seq EXCEPT ![i] = s]
    BY <1>1 DEF makeRequest
  <2> QED BY <2>1 DEF l1Vars
<1> HIDE DEF q
<1>5. SeqShape(t) /\ t.table = Append(seq[i].table, q) /\ t.mq = seq[i].mq
  BY <1>3 DEF SeqShape
<1> HIDE DEF t
<1>7. /\ t.table \in Seq(Requests) /\ t.table # << >>
      /\ Len(t.table) = Len(seq[i].table) + 1
      /\ seq[i].table # << >> => Head(t.table) = Head(seq[i].table)
  <2> DEFINE R == Requests
             u == seq[i].table
  <2>1. u \in Seq(R) /\ q \in R /\ t.table = Append(u, q)
    BY <1>3, <1>4, <1>5
  <2> HIDE DEF R, u
  <2>2. /\ t.table \in Seq(R) /\ Len(t.table) = Len(u) + 1 /\ t.table # << >>
        /\ u # << >> => Head(t.table) = Head(u)
    BY <2>1, AppendProperties, HeadTailAppend
  <2> QED BY <2>2 DEF R, u
<1>8. CASE seq[i].table # << >>
  <2>1. Len(seq[i].table) \in Nat /\ Len(seq[i].table) > 0
    BY <1>3, <1>8
  <2>2. s = t
    BY <1>7, <2>1
  <2>3. Agree(t, l1[i])
    BY <1>2, <1>5, <1>7, <1>8 DEF Agree
  <2> QED BY <1>6, <2>2, <2>3, OneSequencerStep
<1>9. CASE seq[i].table = << >>
  <2>1. s = issueRequest(t)
    BY <1>7, <1>9
  <2>2. /\ SeqShape(issueRequest(t)) /\ issueRequest(t).table = t.table
        /\ issueRequest(t).mq = "ready"
    BY <1>5, IssueEffect
  <2>3. l1[i].st \notin Missed
    BY <1>2, <1>9 DEF Agree
  <2>4. Agree(issueRequest(t), l1[i])
    BY <1>3, <1>7, <2>2, <2>3, AgreeSettled
  <2> QED BY <1>6, <2>1, <2>4, OneSequencerStep
<1> QED BY <1>8, <1>9

(* A miss whose request has not changed: another state of the same kind.    *)
LEMMA MissGoesOn ==
  ASSUME AllAgree, NEW i \in L1s, NEW s, NEW l,
         SeqShape(s), s.table = seq[i].table, s.mq = seq[i].mq,
         LineShape(l), l1[i].st \in Missed, l.st \in Missed, l.ll = l1[i].ll,
         l.st \in {"IS", "IS_I"} <=> l1[i].st \in {"IS", "IS_I"},
         seq' = [seq EXCEPT ![i] = s], l1' = [l1 EXCEPT ![i] = l]
  PROVE  AllAgree'
<1>1. Agree(seq[i], l1[i])
  BY DEF AllAgree
<1>2. Agree(s, l)
  BY <1>1 DEF Agree
<1> QED BY <1>2, OneCpuStep

(* Invalidations and forwarded requests.                                    *)
LEMMA InvStep ==
  ASSUME AllAgree, NEW i \in L1s, NEW m, Inv(i, m)
  PROVE  AllAgree'
<1>1. Agree(seq[i], l1[i])
  BY DEF AllAgree
<1>2. /\ SeqShape(seq[i]) /\ LineShape(l1[i])
      /\ seq = [seq EXCEPT ![i] = seq[i]] /\ l1 = [l1 EXCEPT ![i] = l1[i]]
  BY <1>1 DEF AllAgree, Agree
<1>3. CASE UNCHANGED <<seq, l1>>
  BY <1>3 DEF AllAgree
<1>4. CASE /\ l1[i].st \in {"S", "E", "M"}
           /\ seq' = [seq EXCEPT ![i] = Invalidated(@)]
           /\ l1' = [l1 EXCEPT ![i] = Idle]
  <2> DEFINE s == Invalidated(seq[i])
  <2>1. SeqShape(s) /\ s.table = seq[i].table /\ s.mq = seq[i].mq
    BY <1>2, SmallOperators
  <2>2. s.mq # "parked" /\ l1[i].st \notin Missed
    BY <1>4, <2>1, StableNotParked
  <2>3. seq' = [seq EXCEPT ![i] = s] /\ Idle.st \notin Missed /\ LineShape(Idle)
    BY <1>4, IdleShape DEF Missed
  <2> HIDE DEF s
  <2> QED BY <1>4, <2>1, <2>2, <2>3, SettledStep
<1>5. CASE /\ l1[i].st = "M_I" /\ UNCHANGED seq
           /\ l1' = [l1 EXCEPT ![i] = [Idle EXCEPT !.st = "SINK_WB_ACK"]]
  <2> DEFINE l == [Idle EXCEPT !.st = "SINK_WB_ACK"]
  <2>1. LineShape(l) /\ l.st = "SINK_WB_ACK"
    BY DEF LineShape, Idle
  <2>2. l1[i].st \notin Missed /\ l.st \notin Missed /\ l.st \in Waiting
    BY <1>5, <2>1 DEF Missed, Waiting, Transient
  <2>3. seq' = [seq EXCEPT ![i] = seq[i]] /\ l1' = [l1 EXCEPT ![i] = l]
    BY <1>2, <1>5
  <2> HIDE DEF l
  <2> QED BY <1>2, <2>1, <2>2, <2>3, SettledStep
<1>6. CASE /\ l1[i].st \in {"IS", "IS_I", "PF_IS", "PF_IS_I", "PF_IM", "PF_SM"}
           /\ UNCHANGED seq
           /\ l1' = [l1 EXCEPT ![i].st =
                       CASE l1[i].st \in {"IS", "IS_I"} -> "IS_I"
                         [] l1[i].st \in {"PF_IS", "PF_IS_I"} -> "PF_IS_I"
                         [] OTHER -> "PF_IM"]
  <2> DEFINE st == CASE l1[i].st \in {"IS", "IS_I"} -> "IS_I"
                     [] l1[i].st \in {"PF_IS", "PF_IS_I"} -> "PF_IS_I"
                     [] OTHER -> "PF_IM"
             l  == [l1[i] EXCEPT !.st = st]
  <2>1. seq' = [seq EXCEPT ![i] = seq[i]] /\ l1' = [l1 EXCEPT ![i] = l]
    BY <1>2, <1>6
  <2>2. \/ l1[i].st \in {"IS", "IS_I"} /\ st = "IS_I"
        \/ l1[i].st \in {"PF_IS", "PF_IS_I", "PF_IM", "PF_SM"} /\ st \in Prefetching
    BY <1>6 DEF Prefetching
  <2> HIDE DEF st
  <2>3. LineShape(l) /\ l.st = st /\ l.ll = l1[i].ll
    BY <1>2 DEF LineShape
  <2> HIDE DEF l
  <2>4. CASE l1[i].st \in {"IS", "IS_I"} /\ st = "IS_I"
    BY <1>2, <2>1, <2>3, <2>4, MissGoesOn DEF Missed
  <2>5. CASE l1[i].st \in {"PF_IS", "PF_IS_I", "PF_IM", "PF_SM"} /\ st \in Prefetching
    BY <1>2, <2>1, <2>3, <2>5, SettledStep DEF Missed, Waiting, Prefetching
  <2> QED BY <2>2, <2>4, <2>5
<1>7. CASE /\ l1[i].st = "SM" /\ l1' = [l1 EXCEPT ![i].st = "IM"]
           /\ seq' = [seq EXCEPT ![i] = evictionCallback(@)]
  <2> DEFINE s == evictionCallback(seq[i])
             l == [l1[i] EXCEPT !.st = "IM"]
  <2>1. SeqShape(s) /\ s.table = seq[i].table /\ s.mq = seq[i].mq
    BY <1>2, SmallOperators
  <2>2. LineShape(l) /\ l.st = "IM" /\ l.ll = l1[i].ll
    BY <1>2 DEF LineShape
  <2>3. seq' = [seq EXCEPT ![i] = s] /\ l1' = [l1 EXCEPT ![i] = l]
    BY <1>7
  <2> HIDE DEF s, l
  <2> QED BY <1>7, <2>1, <2>2, <2>3, MissGoesOn DEF Missed
<1> QED BY <1>3, <1>4, <1>5, <1>6, <1>7 DEF Inv

LEMMA ForwardStep ==
  ASSUME AllAgree, NEW i \in L1s, NEW m,
         Fwd_GETX(i, m) \/ Fwd_GETS(i, m) \/ StallL1Request(i, m)
  PROVE  AllAgree'
<1>1. /\ SeqShape(seq[i]) /\ LineShape(l1[i])
      /\ seq = [seq EXCEPT ![i] = seq[i]]
  BY DEF AllAgree, Agree
<1>2. CASE StallL1Request(i, m)
  BY <1>2 DEF StallL1Request, sequencerVars, l1Vars, AllAgree
<1>3. CASE /\ l1[i].st \in {"E", "M"}
           /\ seq' = [seq EXCEPT ![i] = Invalidated(@)]
           /\ l1' = [l1 EXCEPT ![i] = Idle]
  <2> DEFINE s == Invalidated(seq[i])
  <2>1. SeqShape(s) /\ s.table = seq[i].table /\ s.mq = seq[i].mq
    BY <1>1, SmallOperators
  <2>2. s.mq # "parked" /\ l1[i].st \notin Missed
    BY <1>3, <2>1, StableNotParked
  <2>3. seq' = [seq EXCEPT ![i] = s] /\ Idle.st \notin Missed /\ LineShape(Idle)
    BY <1>3, IdleShape DEF Missed
  <2> HIDE DEF s
  <2> QED BY <1>3, <2>1, <2>2, <2>3, SettledStep
<1>4. CASE /\ l1[i].st = "M_I" /\ UNCHANGED seq
           /\ l1' = [l1 EXCEPT ![i] = [Idle EXCEPT !.st = "SINK_WB_ACK"]]
  <2> DEFINE l == [Idle EXCEPT !.st = "SINK_WB_ACK"]
  <2>1. LineShape(l) /\ l.st = "SINK_WB_ACK"
    BY DEF LineShape, Idle
  <2>2. l1[i].st \notin Missed /\ l.st \notin Missed /\ l.st \in Waiting
    BY <1>4, <2>1 DEF Missed, Waiting, Transient
  <2>3. seq' = [seq EXCEPT ![i] = seq[i]] /\ l1' = [l1 EXCEPT ![i] = l]
    BY <1>1, <1>4
  <2> HIDE DEF l
  <2> QED BY <1>1, <2>1, <2>2, <2>3, SettledStep
<1>5. CASE /\ l1[i].st \in {"E", "M"} /\ UNCHANGED seq
           /\ l1' = [l1 EXCEPT ![i].st = "S"]
  <2> DEFINE l == [l1[i] EXCEPT !.st = "S"]
  <2>1. LineShape(l) /\ l.st = "S"
    BY <1>1 DEF LineShape
  <2>2. seq[i].mq # "parked" /\ l1[i].st \notin Missed /\ l.st \notin Missed
    BY <1>5, <2>1, StableNotParked DEF Missed
  <2>3. seq' = [seq EXCEPT ![i] = seq[i]] /\ l1' = [l1 EXCEPT ![i] = l]
    BY <1>1, <1>5
  <2> HIDE DEF l
  <2> QED BY <1>1, <2>1, <2>2, <2>3, SettledStep
<1> QED BY <1>2, <1>3, <1>4, <1>5 DEF Fwd_GETX, Fwd_GETS, sequencerVars

--------------------------------------------------------------------------------
(* The responses that end a transaction of the L1.                          *)

LEMMA CompleteLoadStep ==
  ASSUME AllAgree, NEW i \in L1s, NEW m, NEW st \in {"I", "S", "E"}, NEW unblock,
         CompleteLoad(i, m, st, unblock)
  PROVE  AllAgree'
<1> DEFINE c == readCallback(seq[i], l1[i].side = "D", m.data)
           d == IF st = "I" THEN [c EXCEPT !.monitor = None] ELSE c
           s == WakeMandatory(d)
           l == [Idle EXCEPT !.st = st, !.data = m.data,
                    !.side = IF st = "I" THEN "D" ELSE l1[i].side,
                    !.dirty = st # "I" /\ m.dirty]
<1>1. SeqShape(seq[i]) /\ seq[i].table \in Seq(Requests)
  BY DEF AllAgree, Agree
<1>2. seq' = [seq EXCEPT ![i] = s] /\ l1' = [l1 EXCEPT ![i] = l]
  BY DEF CompleteLoad
<1>3. /\ SeqShape(c) /\ c.table \in Seq(Requests)
      /\ c.mq # "empty" <=> c.table # << >>
  BY <1>1, ReadCallbackEffect
<1> HIDE DEF c
<1>4. SeqShape(d) /\ d.table = c.table /\ d.mq = c.mq
  BY <1>3 DEF SeqShape
<1> HIDE DEF d
<1>5. /\ SeqShape(s) /\ s.table = d.table /\ s.mq # "parked"
      /\ s.mq = "empty" <=> d.mq = "empty"
  BY <1>4, SmallOperators
<1>6. LineShape(l) /\ l.st \notin Missed
  BY DEF LineShape, Idle, Missed
<1> HIDE DEF s, l
<1>7. Agree(s, l)
  BY <1>3, <1>4, <1>5, <1>6, AgreeSettled
<1> QED BY <1>2, <1>7, OneCpuStep

LEMMA CompleteLoadLinkedStep ==
  ASSUME AllAgree, NEW i \in L1s, NEW m, NEW data, NEW dirty,
         CompleteLoadLinked(i, m, data, dirty)
  PROVE  AllAgree'
<1> DEFINE c == readCallback(seq[i], TRUE, data)
           s == WakeMandatory(c)
           l == [Idle EXCEPT !.st = "LLSC_E", !.data = data, !.dirty = dirty]
<1>1. SeqShape(seq[i]) /\ seq[i].table \in Seq(Requests)
  BY DEF AllAgree, Agree
<1>2. seq' = [seq EXCEPT ![i] = s] /\ l1' = [l1 EXCEPT ![i] = l]
  BY DEF CompleteLoadLinked
<1>3. /\ SeqShape(c) /\ c.table \in Seq(Requests)
      /\ c.mq # "empty" <=> c.table # << >>
  BY <1>1, ReadCallbackEffect
<1> HIDE DEF c
<1>4. /\ SeqShape(s) /\ s.table = c.table /\ s.mq # "parked"
      /\ s.mq = "empty" <=> c.mq = "empty"
  BY <1>3, SmallOperators
<1>5. LineShape(l) /\ l.st \notin Missed
  BY DEF LineShape, Idle, Missed
<1> HIDE DEF s, l
<1>6. Agree(s, l)
  BY <1>3, <1>4, <1>5, AgreeSettled
<1> QED BY <1>2, <1>6, OneCpuStep

LEMMA CompleteStoreStep ==
  ASSUME AllAgree, NEW i \in L1s, NEW m, NEW data, CompleteStore(i, m, data)
  PROVE  AllAgree'
<1> DEFINE w == writeCallback(seq[i], data)
           c == w.seq
           s == WakeMandatory(c)
           l == [Idle EXCEPT !.st = "M", !.data = w.data, !.dirty = TRUE]
<1>1. SeqShape(seq[i])
  BY DEF AllAgree, Agree
<1>2. seq' = [seq EXCEPT ![i] = s] /\ l1' = [l1 EXCEPT ![i] = l]
  BY DEF CompleteStore
<1>3. SeqShape(c) /\ c.table = << >> /\ c.mq = "empty"
  BY <1>1, WriteCallbackEffect
<1> HIDE DEF c, w
<1>4. /\ SeqShape(s) /\ s.table = << >> /\ s.mq = "empty"
  BY <1>3, SmallOperators
<1>5. LineShape(l) /\ l.st \notin Missed
  BY DEF LineShape, Idle, Missed
<1> HIDE DEF s, l
<1>6. s.table \in Seq(Requests)
  BY <1>4, EmptySeq
<1>7. Agree(s, l)
  BY <1>4, <1>5, <1>6, AgreeSettled
<1> QED BY <1>2, <1>7, OneCpuStep

LEMMA CompletePrefetchStep ==
  ASSUME AllAgree, NEW i \in L1s, NEW m, NEW st \in {"I", "S", "E", "M"}, NEW unblock,
         l1[i].st \in Prefetching, CompletePrefetch(i, m, st, unblock)
  PROVE  AllAgree'
<1> DEFINE s == WakeMandatory(seq[i])
           n == [Idle EXCEPT !.st = st, !.side = l1[i].side,
                    !.data = IF m.type = "ACK" THEN l1[i].data ELSE m.data,
                    !.dirty = IF m.type = "ACK" THEN l1[i].dirty ELSE m.dirty]
           l == IF st = "I" THEN Idle ELSE n
<1>1. SeqShape(seq[i])
  BY DEF AllAgree, Agree
<1>2. seq' = [seq EXCEPT ![i] = s] /\ l1' = [l1 EXCEPT ![i] = l]
  BY DEF CompletePrefetch
<1>3. /\ SeqShape(s) /\ s.table = seq[i].table /\ s.mq # "parked"
      /\ s.mq = "empty" <=> seq[i].mq = "empty"
  BY <1>1, SmallOperators
<1>4. LineShape(n) /\ n.st = st /\ LineShape(Idle) /\ Idle.st = "I"
  BY DEF LineShape, Idle
<1> HIDE DEF n
<1>5. LineShape(l) /\ l.st \notin Missed /\ l1[i].st \notin Missed
  BY <1>4 DEF Missed, Prefetching
<1> HIDE DEF s, l
<1> QED BY <1>2, <1>3, <1>5, SettledStep

LEMMA WbAckStep ==
  ASSUME AllAgree, NEW i \in L1s, NEW m, WB_Ack(i, m)
  PROVE  AllAgree'
<1> DEFINE s == WakeMandatory(seq[i])
<1>1. SeqShape(seq[i])
  BY DEF AllAgree, Agree
<1>2. /\ seq' = [seq EXCEPT ![i] = s] /\ l1' = [l1 EXCEPT ![i] = Idle]
      /\ l1[i].st \notin Missed
  BY DEF WB_Ack, Missed
<1>3. /\ SeqShape(s) /\ s.table = seq[i].table /\ s.mq # "parked"
      /\ s.mq = "empty" <=> seq[i].mq = "empty"
  BY <1>1, SmallOperators
<1>4. LineShape(Idle) /\ Idle.st \notin Missed
  BY IdleShape DEF Missed
<1> HIDE DEF s
<1> QED BY <1>2, <1>3, <1>4, SettledStep

(* Data or an acknowledgement that is not the last one.                     *)
LEMMA PartialStep ==
  ASSUME AllAgree, NEW i \in L1s, NEW m, DataBeforeAcks(i, m) \/ Ack(i, m)
  PROVE  AllAgree'
<1>1. /\ SeqShape(seq[i]) /\ LineShape(l1[i])
      /\ seq = [seq EXCEPT ![i] = seq[i]]
      /\ seq[i].mq = "parked" => l1[i].st \in Waiting
  BY DEF AllAgree, Agree
<1>2. \E l : /\ l1' = [l1 EXCEPT ![i] = l] /\ LineShape(l) /\ l.ll = l1[i].ll
             /\ \/ l1[i].st \in {"IM", "SM"} /\ l.st \in {"IM", "SM"}
                \/ l1[i].st \in {"PF_IM", "PF_SM"} /\ l.st \in {"PF_IM", "PF_SM"}
  <2>1. CASE DataBeforeAcks(i, m)
    <3> DEFINE l == [l1[i] EXCEPT !.st = IF @ = "IM" THEN "SM" ELSE "PF_SM",
                        !.data = m.data, !.dirty = m.dirty, !.acks = @ - m.acks]
    <3>1. l1' = [l1 EXCEPT ![i] = l] /\ l1[i].st \in {"IM", "PF_IM"}
      BY <2>1 DEF DataBeforeAcks
    <3>2. /\ LineShape(l) /\ l.ll = l1[i].ll
          /\ l.st = IF l1[i].st = "IM" THEN "SM" ELSE "PF_SM"
      BY <1>1 DEF LineShape
    <3> HIDE DEF l
    <3> QED BY <3>1, <3>2
  <2>2. CASE Ack(i, m)
    <3> DEFINE l == [l1[i] EXCEPT !.acks = @ - m.acks]
    <3>1. l1' = [l1 EXCEPT ![i] = l] /\ l1[i].st \in {"SM", "IM", "PF_SM", "PF_IM"}
      BY <2>2 DEF Ack
    <3>2. LineShape(l) /\ l.ll = l1[i].ll /\ l.st = l1[i].st
      BY <1>1 DEF LineShape
    <3> HIDE DEF l
    <3> QED BY <3>1, <3>2
  <2> QED BY <2>1, <2>2
<1>3. PICK l : /\ l1' = [l1 EXCEPT ![i] = l] /\ LineShape(l) /\ l.ll = l1[i].ll
               /\ \/ l1[i].st \in {"IM", "SM"} /\ l.st \in {"IM", "SM"}
                  \/ l1[i].st \in {"PF_IM", "PF_SM"} /\ l.st \in {"PF_IM", "PF_SM"}
  BY <1>2
<1>4. seq' = [seq EXCEPT ![i] = seq[i]]
  BY <1>1 DEF DataBeforeAcks, Ack, sequencerVars
<1>5. CASE l1[i].st \in {"IM", "SM"}
  BY <1>1, <1>3, <1>4, <1>5, MissGoesOn DEF Missed
<1>6. CASE l1[i].st \in {"PF_IM", "PF_SM"}
  BY <1>1, <1>3, <1>4, <1>6, SettledStep DEF Missed, Waiting, Prefetching
<1> QED BY <1>3, <1>5, <1>6

LEMMA L1ReceiveStep ==
  ASSUME AllAgree, NEW i \in L1s, NEW m, L1Receive(i, m)
  PROVE  AllAgree'
<1>1. CASE Inv(i, m)
  BY <1>1, InvStep
<1>2. CASE Fwd_GETX(i, m) \/ Fwd_GETS(i, m) \/ StallL1Request(i, m)
  BY <1>2, ForwardStep
<1>3. CASE Data_Exclusive(i, m)
  BY <1>3, CompleteLoadStep, CompletePrefetchStep DEF Data_Exclusive, Prefetching
<1>4. CASE Data_Shared(i, m)
  <2>1. CASE l1[i].st \in {"IS", "IS_I"}
    BY <1>4, <2>1, CompleteLoadStep DEF Data_Shared
  <2>2. CASE l1[i].st \in {"PF_IS", "PF_IS_I"}
    BY <1>4, <2>2, CompletePrefetchStep DEF Data_Shared, Prefetching
  <2> QED BY <1>4, <2>1, <2>2 DEF Data_Shared
<1>5. CASE DataBeforeAcks(i, m) \/ Ack(i, m)
  BY <1>5, PartialStep
<1>6. CASE DataAfterAcks(i, m)
  BY <1>6, CompleteStoreStep, CompleteLoadLinkedStep, CompletePrefetchStep
     DEF DataAfterAcks, Prefetching
<1>7. CASE Ack_all(i, m)
  BY <1>7, CompleteStoreStep, CompleteLoadLinkedStep, CompletePrefetchStep
     DEF Ack_all, Prefetching
<1>8. CASE WB_Ack(i, m)
  BY <1>8, WbAckStep
<1> QED BY <1>1, <1>2, <1>3, <1>4, <1>5, <1>6, <1>7, <1>8 DEF L1Receive

--------------------------------------------------------------------------------
LEMMA InitAgree == Init => AllAgree
<1> SUFFICES ASSUME Init PROVE AllAgree
  OBVIOUS
<1>1. /\ seq = [i \in L1s |-> [table |-> << >>, mq |-> "empty", floor |-> Fresh,
                               monitor |-> None, lock |-> None]]
      /\ l1 = [i \in L1s |-> Idle]
  BY DEF Init, SequencerInit, L1Init
<1>2. ASSUME NEW i \in L1s PROVE Agree(seq[i], l1[i])
  <2>1. /\ SeqShape(seq[i]) /\ seq[i].table = << >> /\ seq[i].mq = "empty"
        /\ l1[i] = Idle
    BY <1>1 DEF SeqShape
  <2>2. seq[i].table \in Seq(Requests)
    BY <2>1, EmptySeq
  <2>3. LineShape(l1[i]) /\ l1[i].st \notin Missed
    BY <2>1, IdleShape DEF Missed
  <2> QED BY <2>1, <2>2, <2>3, AgreeSettled
<1> QED BY <1>1, <1>2 DEF AllAgree

LEMMA NextAgree == AllAgree /\ [Next]_vars => AllAgree'
<1> SUFFICES ASSUME AllAgree, [Next]_vars PROVE AllAgree'
  OBVIOUS
<1>1. ASSUME NEW i \in L1s, CpuStep(i) PROVE AllAgree'
  BY <1>1, MakeRequestStep, EvictLineStep, PrefetchStep DEF CpuStep, L1_Replacement
<1>2. ASSUME NEW i \in L1s, L1Mandatory(i) \/ L1Network(i) \/ L1Timer(i) PROVE AllAgree'
  BY <1>2, MandatoryStep, L1ReceiveStep, TimeoutStep
     DEF L1Mandatory, L1Network, L1Timer
<1>3. CASE L2Network \/ L2Evict \/ DirectoryStep \/ DmaStep \/ UNCHANGED vars
  <2>1. UNCHANGED <<seq, l1>>
    BY <1>3 DEF L2Network, L2Evict, DirectoryStep, DmaStep, l1Vars, vars
  <2> QED BY <2>1 DEF AllAgree
<1> QED BY <1>1, <1>2, <1>3 DEF Next

LEMMA Agreement == Spec => []AllAgree
BY InitAgree, NextAgree, PTL DEF Spec

(* For any number of CPUs and of outstanding requests, sequencer and L1     *)
(* agree on the request in progress: a list of requests always has exactly  *)
(* one of them under way, and the L1 completes it with the callback whose   *)
(* assertion on the request's type then holds.                              *)
THEOREM SequencerAndL1Agree == Spec => []RequestInProgress
<1>1. AllAgree => RequestInProgress
  BY DEF AllAgree, Agree, RequestInProgress, Missed
<1> QED BY <1>1, Agreement, PTL
================================================================================
