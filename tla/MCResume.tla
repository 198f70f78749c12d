------------------------------ MODULE MCResume ------------------------------
(***************************************************************************)
(* Resume on small sets, for TLC.                                          *)
(***************************************************************************)
EXTENDS Resume, TLC

\* Interchangeable processes and sessions (safety only).
Symmetry == Permutations(Workers) \cup Permutations(Sessions)

=============================================================================
