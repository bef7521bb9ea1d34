---------------------------- MODULE RubyNetwork ----------------------------
(***************************************************************************)
(* The messages of one cache line between the controllers of the           *)
(* MESI_Two_Level protocol.                                                *)
(*                                                                         *)
(* Every MessageBuffer of the protocol is built unordered (only the DMA    *)
(* controller's response buffer is not), the messages of one buffer are    *)
(* enqueued with different latencies, and a buffer is a heap over arrival  *)
(* times.  The network is therefore a bag: any message in it may be the    *)
(* next one its controller peeks at.  A message that a controller puts     *)
(* aside with stall_and_wait is in no buffer; it is in "stalled" until the *)
(* controller wakes the line's dependents.                                 *)
(***************************************************************************)
EXTENDS Naturals, Integers, Bags

CONSTANTS L1s,      \* the L1 controllers, one per CPU
          Words     \* the parts of the line that are written separately

\* The other machines have names of their own.
ASSUME MachineNames == L1s \cap {"L2", "Dir", "DMA"} = {}

VARIABLES msgs,     \* the bag of messages in flight
          stalled,  \* the bag of messages put aside by their controller
          latest    \* history: the versions written last, anywhere

networkVars == <<msgs, stalled>>

\* A DataBlk is the version of each of its words.
Data == [Words -> Nat]

\* The contents of the line before anything is written.
Fresh == [w \in Words |-> 0]

\* A RequestMsg or ResponseMsg with the fields' defaults; "req" is the
\* Requestor, "acks" the AckCount.
Msg(type, src, dst) ==
    [type |-> type, src |-> src, dst |-> dst, req |-> src,
     data |-> Fresh, dirty |-> FALSE, acks |-> 0]

\* The same with a DataBlk and its Dirty bit.
DataMsg(type, src, dst, data, dirty) ==
    [Msg(type, src, dst) EXCEPT !.data = data, !.dirty = dirty]

NetworkInit ==
    /\ msgs = EmptyBag
    /\ stalled = EmptyBag
    /\ latest = Fresh

\* What the dependents of the line at controller c have put aside.
StalledAt(c) ==
    [m \in {x \in BagToSet(stalled) : x.dst = c} |-> stalled[m]]

\* enqueue on the out_ports only (nothing was peeked at).
Send(out) ==
    /\ msgs' = msgs (+) SetToBag(out)
    /\ UNCHANGED stalled

\* dequeue the peeked message and enqueue the replies.
Receive(m, out) ==
    /\ msgs' = (msgs (-) SetToBag({m})) (+) SetToBag(out)
    /\ UNCHANGED stalled

\* The same, with wakeUpBuffers: MessageBuffer::reanalyzeMessages gives the
\* stalled messages of the line back to their buffers.
ReceiveAndWake(c, m, out) ==
    /\ msgs' = ((msgs (-) SetToBag({m})) (+) SetToBag(out)) (+) StalledAt(c)
    /\ stalled' = stalled (-) StalledAt(c)

\* wakeUpBuffers by an event that consumes no message of the network.
Wake(c, out) ==
    /\ msgs' = (msgs (+) SetToBag(out)) (+) StalledAt(c)
    /\ stalled' = stalled (-) StalledAt(c)

\* stall_and_wait: MessageBuffer::stallMessage moves the message out of the
\* buffer; the replies are sent all the same.
StallAndWait(m, out) ==
    /\ msgs' = (msgs (-) SetToBag({m})) (+) SetToBag(out)
    /\ stalled' = stalled (+) SetToBag({m})
=============================================================================
