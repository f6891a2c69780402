-------------------------------- MODULE MCKyb --------------------------------
(***************************************************************************)
(* An instance of KybReview for TLC.                                       *)
(***************************************************************************)
EXTENDS KybReview, TLC

\* Operators are alike.
Alike == Permutations(Reviewers)
=============================================================================
