---------------------------- MODULE MCAmountPool ----------------------------
(***************************************************************************)
(* Instances of AmountPool for TLC.                                        *)
(***************************************************************************)
EXTENDS AmountPool, TLC

\* Requests and invoices are interchangeable (used where no liveness is checked).
PoolSymmetry == Permutations(Workers) \cup Permutations(Invoices)
=============================================================================
