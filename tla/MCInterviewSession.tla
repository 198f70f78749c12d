-------------------------- MODULE MCInterviewSession --------------------------
(***************************************************************************)
(* InterviewSession on small sets, for TLC.                                *)
(***************************************************************************)
EXTENDS InterviewSession, TLC

\* Interchangeable processes (safety only).
Symmetry == Permutations(Workers) \cup Permutations(Requests) \cup Permutations(Questions)

=============================================================================
