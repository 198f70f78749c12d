------------------------------- MODULE MCPage -------------------------------
(***************************************************************************)
(* Page on an interview of two questions.                                  *)
(***************************************************************************)
EXTENDS Page

=============================================================================
