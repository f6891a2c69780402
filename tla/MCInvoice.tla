------------------------------ MODULE MCInvoice ------------------------------
(***************************************************************************)
(* Instances of InvoiceLifecycle for TLC.                                  *)
(***************************************************************************)
EXTENDS InvoiceCorrectness, TLC

\* Handlers are interchangeable: sound for the runs without liveness.
WorkerSymmetry == Permutations(Workers)
=============================================================================
