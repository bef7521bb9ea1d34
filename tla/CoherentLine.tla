---------------------------- MODULE CoherentLine ----------------------------
(***************************************************************************)
(* What the MESI_Two_Level protocol promises for one line, with no L2, no  *)
(* directory, no messages and no transient states: every CPU has a         *)
(* permission and, with it, a copy; permissions are handed out one at a    *)
(* time.  AccessPermission Read_Only is "read", Read_Write is "write".     *)
(***************************************************************************)
EXTENDS Naturals

CONSTANTS L1s, Words

VARIABLES perm,    \* the permission of each CPU: "none", "read" or "write"
          copy,    \* the copy it reads, meaningless under "none"
          latest   \* the versions written last

vars == <<perm, copy, latest>>

Data == [Words -> Nat]
Fresh == [w \in Words |-> 0]

Init ==
    /\ perm = [i \in L1s |-> "none"]
    /\ copy = [i \in L1s |-> Fresh]
    /\ latest = Fresh

\* p can be given to i beside the others' permissions.
Compatible(i, p) ==
    \A j \in L1s \ {i} : perm[j] = "none" \/ (p = "read" /\ perm[j] = "read")

\* CPU i gets permission p, and the line.
Acquire(i, p) ==
    /\ Compatible(i, p)
    /\ perm' = [perm EXCEPT ![i] = p]
    /\ copy' = [copy EXCEPT ![i] = latest]
    /\ UNCHANGED latest

\* The writes CPU i completes at one time, which it may do on getting the
\* permission.
Write(i) ==
    /\ Compatible(i, "write")
    /\ latest' \in Data
    /\ \A w \in Words : latest'[w] >= latest[w]
    /\ perm' = [perm EXCEPT ![i] = "write"]
    /\ copy' = [copy EXCEPT ![i] = latest']

\* CPU i is left with permission p, or with none.
Release(i, p) ==
    /\ perm[i] = "write" \/ p = "none"
    /\ perm' = [perm EXCEPT ![i] = p]
    /\ copy' = [copy EXCEPT ![i] = IF p = "none" THEN Fresh ELSE @]
    /\ UNCHANGED latest

\* A DMA write, with no copy in any L1.
DmaWrite ==
    /\ \A i \in L1s : perm[i] = "none"
    /\ latest' \in Data
    /\ \A w \in Words : latest'[w] >= latest[w]
    /\ UNCHANGED <<perm, copy>>

Next ==
    \/ \E i \in L1s :
         \/ \E p \in {"read", "write"} : Acquire(i, p)
         \/ Write(i)
         \/ \E p \in {"none", "read"} : Release(i, p)
    \/ DmaWrite

Spec == Init /\ [][Next]_vars
=============================================================================
