------------------------------- MODULE MCL2Bank -------------------------------
(* Model-checking instance of L2Bank.                                       *)
EXTENDS L2Bank
================================================================================
