------------------------------ MODULE MCReview ------------------------------
(***************************************************************************)
(* Review on small sets, for TLC.                                          *)
(***************************************************************************)
EXTENDS Review, TLC

Symmetry == Permutations(Recruiters)

=============================================================================
