------------------------------ MODULE MCVoice ------------------------------
(***************************************************************************)
(* Voice with two tabs of one session, a spare line and two questions.     *)
(***************************************************************************)
EXTENDS Voice, TLC

Symmetry == Permutations(Tabs)

=============================================================================
