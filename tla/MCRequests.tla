------------------------------ MODULE MCRequests ------------------------------
(***************************************************************************)
(* An instance of RequestPipeline for TLC.                                 *)
(***************************************************************************)
EXTENDS RequestPipeline
=============================================================================
