------------------------------ MODULE MCSessions ------------------------------
(***************************************************************************)
(* An instance of Sessions for TLC.                                        *)
(***************************************************************************)
EXTENDS Sessions, TLC

\* Requests are alike, and so are operators.
Alike == Permutations(Requests) \cup Permutations(Operators)
=============================================================================
