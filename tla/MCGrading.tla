------------------------------ MODULE MCGrading ------------------------------
(***************************************************************************)
(* Grading with two spellings of one concept, for TLC.                     *)
(***************************************************************************)
EXTENDS Grading

MCNames     == {"tls", "TLS", "dns", "other"}
MCKeyOf     == [n \in MCNames |-> IF n = "TLS" THEN "tls" ELSE n]
MCQuestions == {<<"dns">>, <<"tls", "dns">>, <<"tls", "TLS">>, <<"dns", "dns">>}
Clean       == <<"verb", "role", "object">>
MCTexts     == {Clean, <<"verb", "nl", "word", "word", "object">>, <<"word", "nl", "role">>}
MCEvidences == {Clean, <<"role", "word">>}

=============================================================================
