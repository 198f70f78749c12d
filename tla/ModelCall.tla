------------------------------ MODULE ModelCall ------------------------------
(***************************************************************************)
(* What the pipeline is promised by a call of the language model: after a  *)
(* bounded number of requests it settles, with an answer, with an error    *)
(* worth another attempt, with one that is final, or with an exception     *)
(* nobody has a name for.  These are the outcomes InterviewSession and     *)
(* Resume choose from.                                                     *)
(***************************************************************************)
EXTENDS Naturals

CONSTANT MaxRequests    \* the most requests one call may cost

VARIABLES phase,        \* where the call is, or how the last one ended
          sent          \* requests of the call so far

cvars == <<phase, sent>>

Outcomes == {"answer", "retryable", "final", "unexpected"}

Init == phase = "unexpected" /\ sent = 0

\* Nothing is asked before the last call has settled.
Ask ==
  /\ phase \in Outcomes
  /\ phase' = "asked"
  /\ sent' = 0

\* The wire is used, and the call goes on.
Send ==
  /\ phase = "asked"
  /\ sent < MaxRequests
  /\ sent' = sent + 1
  /\ UNCHANGED phase

Settle ==
  /\ phase = "asked"
  /\ phase' \in Outcomes
  /\ UNCHANGED sent

Next == Ask \/ Send \/ Settle

Spec == Init /\ [][Next]_cvars /\ WF_cvars(Send \/ Settle)

=============================================================================
