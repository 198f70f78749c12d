----------------------------- MODULE MCGrounding -----------------------------
(***************************************************************************)
(* Grounding on three passages, two requirements and a skill, for TLC.     *)
(***************************************************************************)
EXTENDS Grounding

CONSTANTS c1, c2, c3

MCRequirements == <<"r1", "r2">>
MCSkills       == <<"s1">>
MCChunks       == {c1, c2, c3}
MCCost         == [c \in MCChunks |-> IF c = c1 THEN 1 ELSE 2]

\* Two passages of the same length are alike.
Symmetry == Permutations({c2, c3})

=============================================================================
