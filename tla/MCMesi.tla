------------------------------- MODULE MCMesi -------------------------------
(***************************************************************************)
(* Instances of MESI_Two_Level for TLC.                                    *)
(***************************************************************************)
EXTENDS MESI_Two_Level

\* The CPUs are interchangeable.
Symmetry == Permutations(L1s)

=============================================================================
