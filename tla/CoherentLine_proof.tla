------------------------ MODULE CoherentLine_proof ------------------------
(***************************************************************************)
(* That CoherentLine promises coherence, for every set of CPUs and words.  *)
(***************************************************************************)
EXTENDS CoherentLine, TLAPS

TypeOK ==
    /\ perm \in [L1s -> {"none", "read", "write"}]
    /\ copy \in [L1s -> Data]
    /\ latest \in Data

\* One writer or many readers.
OneWriter ==
    \A i, j \in L1s : i # j /\ perm[i] = "write" => perm[j] = "none"

\* A copy that can be read holds the versions written last.
CopiesLatest ==
    \A i \in L1s : perm[i] # "none" => copy[i] = latest

Inv == TypeOK /\ OneWriter /\ CopiesLatest

LEMMA FreshIsData == Fresh \in Data
BY DEF Fresh, Data

LEMMA InitInv == Init => Inv
BY FreshIsData DEF Init, Inv, TypeOK, OneWriter, CopiesLatest

LEMMA AcquireInv ==
    ASSUME Inv, NEW i \in L1s, NEW p \in {"read", "write"}, Acquire(i, p)
    PROVE  Inv'
<1>1. TypeOK'
  BY DEF Inv, TypeOK, Acquire
<1>2. OneWriter'
  BY DEF Inv, TypeOK, OneWriter, Acquire, Compatible
<1>3. CopiesLatest'
  BY DEF Inv, TypeOK, CopiesLatest, Acquire
<1> QED BY <1>1, <1>2, <1>3 DEF Inv

\* A write needs the others' permissions gone: no copy is left to go stale.
LEMMA WriteInv ==
    ASSUME Inv, NEW i \in L1s, Write(i)
    PROVE  Inv'
<1>1. \A j \in L1s \ {i} : perm[j] = "none"
  BY DEF Write, Compatible
<1>2. TypeOK'
  BY DEF Inv, TypeOK, Write
<1>3. OneWriter'
  BY <1>1 DEF Inv, TypeOK, OneWriter, Write
<1>4. CopiesLatest'
  BY <1>1 DEF Inv, TypeOK, CopiesLatest, Write
<1> QED BY <1>2, <1>3, <1>4 DEF Inv

LEMMA ReleaseInv ==
    ASSUME Inv, NEW i \in L1s, NEW p \in {"none", "read"}, Release(i, p)
    PROVE  Inv'
<1>1. TypeOK'
  BY FreshIsData DEF Inv, TypeOK, Release
<1>2. OneWriter'
  BY DEF Inv, TypeOK, OneWriter, Release
<1>3. CopiesLatest'
  BY DEF Inv, TypeOK, CopiesLatest, Release
<1> QED BY <1>1, <1>2, <1>3 DEF Inv

LEMMA DmaWriteInv == ASSUME Inv, DmaWrite PROVE Inv'
BY DEF Inv, TypeOK, OneWriter, CopiesLatest, DmaWrite

LEMMA NextInv == Inv /\ [Next]_vars => Inv'
<1> SUFFICES ASSUME Inv, [Next]_vars PROVE Inv'
  OBVIOUS
<1>1. CASE UNCHANGED vars
  BY <1>1 DEF vars, Inv, TypeOK, OneWriter, CopiesLatest
<1>2. CASE Next
  BY <1>2, AcquireInv, WriteInv, ReleaseInv, DmaWriteInv DEF Next
<1> QED BY <1>1, <1>2

\* CoherentLine is coherent: at any time one CPU may write the line or several
\* may read it, and each that may read it reads the versions written last,
\* whether by a CPU or by DMA.
THEOREM LineIsCoherent == Spec => [](OneWriter /\ CopiesLatest)
<1>1. Inv => OneWriter /\ CopiesLatest
  BY DEF Inv
<1> QED BY InitInv, NextInv, <1>1, PTL DEF Spec
=============================================================================
