---------------------------- MODULE MCProviders ----------------------------
(***************************************************************************)
(* Providers on a small stack, for TLC.                                    *)
(***************************************************************************)
EXTENDS Providers

=============================================================================
