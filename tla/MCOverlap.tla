------------------------------ MODULE MCOverlap ------------------------------
(***************************************************************************)
(* An instance of InvoiceOverlap for TLC.                                  *)
(***************************************************************************)
EXTENDS InvoiceOverlap, TLC

\* Handlers are interchangeable: sound, as the run has no liveness property.
WorkerSymmetry == Permutations(Workers)
=============================================================================
