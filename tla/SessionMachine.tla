--------------------------- MODULE SessionMachine ---------------------------
(***************************************************************************)
(* The session state machine of services/session_service.py: the table of  *)
(* legal edges and what SessionService.transition does with it.  A constant *)
(* module; InterviewSession applies it to a database row.                  *)
(***************************************************************************)

States == {"CREATED", "PARSING", "GENERATING_QS", "READY", "IN_PROGRESS",
           "EVALUATING", "COMPLETED", "NEEDS_HUMAN_REVIEW", "FAILED", "EXPIRED"}

\* _TRANSITIONS: the targets each state may move to.
Transitions ==
  [s \in States |->
     CASE s = "CREATED"            -> {"PARSING", "FAILED", "EXPIRED"}
       [] s = "PARSING"            -> {"GENERATING_QS", "FAILED", "EXPIRED"}
       [] s = "GENERATING_QS"      -> {"READY", "FAILED", "EXPIRED"}
       [] s = "READY"              -> {"IN_PROGRESS", "EXPIRED"}
       [] s = "IN_PROGRESS"        -> {"EVALUATING", "EXPIRED"}
       [] s = "EVALUATING"         -> {"COMPLETED", "NEEDS_HUMAN_REVIEW", "FAILED"}
       [] s = "NEEDS_HUMAN_REVIEW" -> {"COMPLETED"}
       [] OTHER                    -> {}]

Terminal == {s \in States : Transitions[s] = {}}

FailureStates == {"FAILED", "EXPIRED"}

\* The states generate_questions accepts; the last two are only ever written
\* inside its own transaction.
Preparing == {"CREATED", "PARSING", "GENERATING_QS"}

CanTransition(s, t) == t \in Transitions[s]

\* What transition() does not raise IllegalTransition for: a legal edge, or
\* re-entering the current state.
Accepts(s, t) == s = t \/ CanTransition(s, t)

\* failure_reason, by who wrote it: "gave_up" for every reason a worker writes,
\* "deadline" for maybe_expire's.
Reasons == {"none", "gave_up", "deadline"}

\* expires_at against the clock: not set, ahead, reached.
Deadlines == {"none", "ahead", "passed"}

Row == [state : States, reason : Reasons, deadline : Deadlines]

\* Mutant: the reason is not recorded.
MovedToSilently(r, t, why) ==
  IF r.state = t THEN r ELSE [r EXCEPT !.state = t, !.reason = "none"]

\* The columns of the ORM object after transition(session, t, reason=why): the
\* reason of a failure, or None, and nothing at all on re-entry.
MovedTo(r, t, why) ==
  IF r.state = t THEN r
  ELSE [r EXCEPT !.state = t,
                 !.reason = IF t \in FailureStates THEN why ELSE "none"]

IsExpired(r) == r.deadline = "passed"

\* Mutant: every state with an outgoing edge expires.
ExpireUnlessTerminal(r) ==
  IF r.state \notin Terminal /\ IsExpired(r)
    THEN MovedTo(r, "EXPIRED", "deadline")
    ELSE r

\* maybe_expire: the object after the deadline has been enforced on it.
MaybeExpire(r) ==
  IF CanTransition(r.state, "EXPIRED") /\ IsExpired(r)
    THEN MovedTo(r, "EXPIRED", "deadline")
    ELSE r

=============================================================================
