----------------------------- MODULE MCChunking -----------------------------
(***************************************************************************)
(* Chunking on short documents with headings of three levels, for TLC.     *)
(***************************************************************************)
EXTENDS Chunking

MCLevel == [h1 |-> 1, h2 |-> 2, h3 |-> 3]

=============================================================================
