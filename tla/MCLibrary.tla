------------------------------ MODULE MCLibrary ------------------------------
(***************************************************************************)
(* Library with files of one and two passages, for TLC.                    *)
(***************************************************************************)
EXTENDS Library, TLC

MCPassages == [short |-> <<"a">>, long |-> <<"b", "c">>]

\* Interchangeable files, models and ingestions (safety only).
Symmetry == Permutations(Files) \cup Permutations(Models) \cup Permutations(Ingestions)

=============================================================================
