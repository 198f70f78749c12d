------------------------------ MODULE Interview ------------------------------
(***************************************************************************)
(* What an interview promises the candidate, with no transactions, workers  *)
(* or queue in sight: answers are taken only while the interview runs, the  *)
(* report is made once, out of every answer that was taken, and an          *)
(* interview that has ended stays ended.  InterviewSession implements it.   *)
(***************************************************************************)
CONSTANT Answers        \* what may be answered: (question, idempotency key)

VARIABLES state,        \* the session's state, as its owner reads it
          answers,      \* the answers taken so far
          reports       \* the reports made, each the set of answers it covers

vars == <<state, answers, reports>>

Init ==
  /\ state = "CREATED"
  /\ answers = {}
  /\ reports = <<>>

Move(from, to) == state = from /\ state' = to

\* The questions are written, all at once.
Prepare == Move("CREATED", "READY") /\ UNCHANGED <<answers, reports>>

\* A stage could not be completed.
Abandon ==
  /\ Move("CREATED", "FAILED") \/ Move("EVALUATING", "FAILED")
  /\ UNCHANGED <<answers, reports>>

Begin == Move("READY", "IN_PROGRESS") /\ UNCHANGED <<answers, reports>>

Answer(a) ==
  /\ state = "IN_PROGRESS"
  /\ answers' = answers \cup {a}
  /\ UNCHANGED <<state, reports>>

Finish == Move("IN_PROGRESS", "EVALUATING") /\ UNCHANGED <<answers, reports>>

Expire == Move("IN_PROGRESS", "EXPIRED") /\ UNCHANGED <<answers, reports>>

\* Every answer taken is graded and the report covers them all.
Settle ==
  /\ Move("EVALUATING", "COMPLETED") \/ Move("EVALUATING", "NEEDS_HUMAN_REVIEW")
  /\ reports = <<>>
  /\ reports' = <<answers>>
  /\ UNCHANGED answers

Next ==
  \/ Prepare \/ Abandon \/ Begin \/ Finish \/ Expire \/ Settle
  \/ \E a \in Answers : Answer(a)

Spec == Init /\ [][Next]_vars

=============================================================================
