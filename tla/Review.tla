------------------------------- MODULE Review -------------------------------
(***************************************************************************)
(* Human review of a reported session: recruiters override evaluations, and *)
(* each override rebuilds the report from the evaluations as it reads them  *)
(* and completes the session when it reads none that is still flagged.      *)
(* Meanwhile recruiters and the candidate look at it.                       *)
(*                                                                         *)
(* An override is one transaction at READ COMMITTED, with several reads and *)
(* writes.  It writes the columns whose value it changed, of the rows as it *)
(* loaded them; an UPDATE waits for the row's last writer.  Evaluations are *)
(* committed together with a report (InterviewSession's GradesComeWithReport), *)
(* so an override always finds one.  A reader's selects each see what is    *)
(* committed when they run.                                                *)
(***************************************************************************)
EXTENDS Naturals, FiniteSets, Functions

CONSTANTS Recruiters,   \* override requests that may run at once, one each
          Readers,      \* requests that show the session or its report
          Evaluations,  \* the evaluations of the session, a topic each
          Scores,       \* final scores
          Nobody,       \* no recruiter
          MaxBusy       \* bound: requests, of either kind, that run at once

ASSUME ReviewAssumption ==
  /\ Nobody \notin Recruiters
  /\ IsFiniteSet(Recruiters) /\ IsFiniteSet(Readers) /\ MaxBusy \in Nat
  /\ IsFiniteSet(Evaluations) /\ Evaluations # {}
  /\ Scores \subseteq Nat /\ Scores # {}

\* An Evaluation: final_score, needs_review, overridden_by_id.
Rows == [score : Scores, flagged : BOOLEAN, by : Recruiters \cup {Nobody}]
Tables == [Evaluations -> Rows]

\* A Report: its overall score (here the sum of the topics) and per_topic.
Reports == [overall : {SumFunction(f) : f \in [Evaluations -> Scores]},
            per_topic : [Evaluations -> Scores]]

States == {"NEEDS_HUMAN_REVIEW", "COMPLETED"}

\* What a reader shows: the session's state, whether an answer it lists is
\* flagged, whether its report or state are not as build_report left them any
\* more, and the human_reviewed label (which a PDF of a session that
\* is still in review leaves out for a banner that says so).
Views == [state : States, flagged : BOOLEAN, edited : BOOLEAN, labelled : BOOLEAN]
NoView == [state |-> "COMPLETED", flagged |-> FALSE, edited |-> FALSE, labelled |-> FALSE]

VARIABLES
  evals,      \* committed evaluations
  report,     \* the committed report
  state,      \* the committed state of the session
  holder,     \* who holds each evaluation by an uncommitted UPDATE
  editor,     \* who holds the report row by an uncommitted UPDATE
  pc,         \* where each override is
  tx,         \* what it was asked and has read
  at,         \* what each reader selects next
  view,       \* what it has to show so far
  edited      \* history: an override has changed the report or the state

stored  == <<evals, report, state, edited>>
working == <<holder, editor, pc, tx>>
reading == <<at, view>>
vars    == <<stored, working, reading>>

\* The evaluation under override and its new score; the evaluation and the
\* report as loaded; all the session's evaluations as read for the rebuild.
Overrides == [on : Evaluations, given : Scores, loaded : Rows,
              seen : Reports, rows : Tables]

\* summarize.  Mutant: flagged answers are left out.
RollupOf(table, E) ==
  LET scores == [e \in E |-> table[e].score]
  IN  [overall |-> SumFunction(scores), per_topic |-> scores]
RollupCleared(table) == RollupOf(table, {e \in Evaluations : ~table[e].flagged})
Rollup(table) == RollupOf(table, Evaluations)

\* rebuild_report's still_flagged.  Mutant: the last row read decides.
FlaggedLast(table) == table[CHOOSE e \in Evaluations : TRUE].flagged
StillFlagged(table) == \E e \in Evaluations : table[e].flagged

BlankRow == [score |-> CHOOSE s \in Scores : TRUE, flagged |-> FALSE, by |-> Nobody]
BlankTable == [e \in Evaluations |-> BlankRow]
NoOverride == [on |-> CHOOSE e \in Evaluations : TRUE, given |-> BlankRow.score,
               loaded |-> BlankRow, seen |-> Rollup(BlankTable), rows |-> BlankTable]

TypeOK ==
  /\ evals \in Tables
  /\ report \in Reports
  /\ state \in States
  /\ holder \in [Evaluations -> Recruiters \cup {Nobody}]
  /\ editor \in Recruiters \cup {Nobody}
  /\ pc \in [Recruiters -> {"idle", "loaded", "flushed", "rebuild", "rolled_up", "written"}]
  /\ tx \in [Recruiters -> Overrides]
  /\ at \in [Readers -> {"idle", "answers", "report", "label", "shown"}]
  /\ view \in [Readers -> Views]
  /\ edited \in BOOLEAN

Cleared == \A e \in Evaluations : ~evals[e].flagged

\* build_report has committed.
Init ==
  /\ evals \in [Evaluations -> [score : Scores, flagged : BOOLEAN, by : {Nobody}]]
  /\ report = Rollup(evals)
  /\ state = IF Cleared THEN "COMPLETED" ELSE "NEEDS_HUMAN_REVIEW"
  /\ holder = [e \in Evaluations |-> Nobody]
  /\ editor = Nobody
  /\ pc = [r \in Recruiters |-> "idle"]
  /\ tx = [r \in Recruiters |-> NoOverride]
  /\ at = [v \in Readers |-> "idle"]
  /\ view = [v \in Readers |-> NoView]
  /\ edited = FALSE

-----------------------------------------------------------------------------

Goto(r, from, to) == pc[r] = from /\ pc' = [pc EXCEPT ![r] = to]

\* The requests that run.
Busy == Cardinality({r \in Recruiters : pc[r] # "idle"})
          + Cardinality({v \in Readers : at[v] # "idle"})

Written(column, old, new) == IF new = old THEN column ELSE new

\* The evaluation r leaves behind, over the row it finds when it writes.
Overridden(r, found) ==
  LET old == tx[r].loaded
  IN  [score   |-> Written(found.score, old.score, tx[r].given),
       flagged |-> Written(found.flagged, old.flagged, FALSE),
       by      |-> Written(found.by, old.by, r)]

\* The evaluations as r's own transaction sees them.
Visible(r) == [evals EXCEPT ![tx[r].on] = Overridden(r, @)]

\* rebuild_report's select.  Mutant: the override has not been flushed to it.
BeforeFlush(r) == evals
Read(r) == Visible(r)

\* The report after r's UPDATE.
Rebuilt(r) ==
  LET old == tx[r].seen
      new == Rollup(tx[r].rows)
  IN  [overall   |-> Written(report.overall, old.overall, new.overall),
       per_topic |-> Written(report.per_topic, old.per_topic, new.per_topic)]

\* r's transaction lets its rows go.
Release(r) ==
  /\ holder' = [e \in Evaluations |-> IF holder[e] = r THEN Nobody ELSE holder[e]]
  /\ editor' = IF editor = r THEN Nobody ELSE editor
  /\ tx' = [tx EXCEPT ![r] = NoOverride]

\* The evaluation is loaded.
Load(r, e, s) ==
  /\ Busy < MaxBusy
  /\ Goto(r, "idle", "loaded")
  /\ tx' = [tx EXCEPT ![r].on = e, ![r].given = s, ![r].loaded = evals[e]]
  /\ UNCHANGED <<stored, holder, editor, reading>>

\* The override is flushed: an UPDATE, except when it repeats what is there
\* (the note included, which is not modelled).
FlushOverride(r) ==
  /\ Goto(r, "loaded", "flushed")
  /\ \/ /\ holder[tx[r].on] = Nobody
        /\ holder' = [holder EXCEPT ![tx[r].on] = r]
     \/ /\ tx[r].loaded = [score |-> tx[r].given, flagged |-> FALSE, by |-> r]
        /\ UNCHANGED holder
  /\ UNCHANGED <<stored, editor, tx, reading>>

\* rebuild_report: the report is loaded, then the evaluations.
ReadReport(r) ==
  /\ Goto(r, "flushed", "rebuild")
  /\ tx' = [tx EXCEPT ![r].seen = report]
  /\ UNCHANGED <<stored, holder, editor, reading>>

ReadRows(r) ==
  /\ Goto(r, "rebuild", "rolled_up")
  /\ tx' = [tx EXCEPT ![r].rows = Read(r)]
  /\ UNCHANGED <<stored, holder, editor, reading>>

FlushReport(r) ==
  /\ Goto(r, "rolled_up", "written")
  /\ IF Rollup(tx[r].rows) = tx[r].seen
       THEN UNCHANGED editor
       ELSE editor = Nobody /\ editor' = r
  /\ UNCHANGED <<stored, holder, tx, reading>>

\* get_db's commit.  The session was loaded after the rows, and its only way
\* out of review is the one written here.
Commit(r) ==
  /\ Goto(r, "written", "idle")
  /\ evals' = Visible(r)
  /\ report' = Rebuilt(r)
  /\ state' = IF StillFlagged(tx[r].rows) THEN state ELSE "COMPLETED"
  /\ edited' = (edited \/ report' # report \/ state' # state)
  /\ Release(r)
  /\ UNCHANGED reading

\* The request fails or its process dies.
Abort(r) ==
  /\ pc[r] # "idle"
  /\ pc' = [pc EXCEPT ![r] = "idle"]
  /\ Release(r)
  /\ UNCHANGED <<stored, reading>>

Override(r) ==
  \/ \E e \in Evaluations, s \in Scores : Load(r, e, s)
  \/ FlushOverride(r) \/ ReadReport(r) \/ ReadRows(r) \/ FlushReport(r)
  \/ Commit(r) \/ Abort(r)

-----------------------------------------------------------------------------
(* Readers.  One that fails has shown nothing and is one that stops short.  *)

Turn(v, from, to) == at[v] = from /\ at' = [at EXCEPT ![v] = to]

\* The session is loaded: by session_detail, which lists the answers too, ...
OpenDetail(v) ==
  /\ Busy < MaxBusy
  /\ Turn(v, "idle", "answers")
  /\ view' = [view EXCEPT ![v].state = state]
  /\ UNCHANGED <<stored, working>>

\* ... or for the report alone, as JSON or as a PDF.
OpenReport(v) ==
  /\ Busy < MaxBusy
  /\ Turn(v, "idle", "report")
  /\ view' = [view EXCEPT ![v].state = state]
  /\ UNCHANGED <<stored, working>>

\* The answers, each with its evaluation, in one select.
ReadAnswers(v) ==
  /\ Turn(v, "answers", "report")
  /\ view' = [view EXCEPT ![v].flagged = ~Cleared]
  /\ UNCHANGED <<stored, working>>

ReadNumbers(v) ==
  /\ Turn(v, "report", "label")
  /\ view' = [view EXCEPT ![v].edited = edited]
  /\ UNCHANGED <<stored, working>>

\* was_human_reviewed.  Mutant: only once every evaluation has been overridden.
AllHumanReviewed == \A e \in Evaluations : evals[e].by # Nobody
WasHumanReviewed == \E e \in Evaluations : evals[e].by # Nobody

\* to_report_read, render_session_pdf: the label comes after the report.
ReadLabel(v) ==
  /\ Turn(v, "label", "shown")
  /\ view' = [view EXCEPT ![v].labelled = WasHumanReviewed]
  /\ UNCHANGED <<stored, working>>

Close(v) ==
  /\ Turn(v, "shown", "idle")
  /\ view' = [view EXCEPT ![v] = NoView]
  /\ UNCHANGED <<stored, working>>

Show(v) ==
  OpenDetail(v) \/ OpenReport(v) \/ ReadAnswers(v) \/ ReadNumbers(v) \/ ReadLabel(v)
    \/ Close(v)

Next ==
  \/ \E r \in Recruiters : Override(r)
  \/ \E v \in Readers : Show(v)

Spec == Init /\ [][Next]_vars

-----------------------------------------------------------------------------

\* A session leaves review only when no evaluation of it is flagged any more,
\* however the overrides interleave.
CompletedMeansCleared == state = "COMPLETED" => Cleared

\* What anybody is shown is true of the session: it reads COMPLETED only over answers
\* none of which is flagged, and what an override has changed, the numbers or the
\* state, carries the human_reviewed label, though each is a select of its own and
\* overrides commit in between (session_detail, to_report_read, render_session_pdf).
ViewsAreTrue ==
  /\ CompletedMeansCleared
  /\ \A v \in Readers : at[v] = "shown" =>
       /\ view[v].state = "COMPLETED" => ~view[v].flagged
       /\ view[v].edited => view[v].labelled

\* An override under which nothing it had read has changed leaves a report that
\* is the rollup of the evaluations, and a session that is complete exactly when
\* nothing is flagged: the report and the state never lag behind by themselves.  One
\* that wrote no row holds none, and must have read it twice the same.
Undisturbed(r) ==
  LET on == tx[r].on IN
  /\ report = tx[r].seen
  /\ evals[on] = tx[r].loaded /\ (holder[on] = r \/ tx[r].rows[on] = tx[r].loaded)
  /\ \A e \in Evaluations \ {on} : evals[e] = tx[r].rows[e]
OverrideIsReported ==
  [][\A r \in Recruiters :
       Commit(r) /\ Undisturbed(r) =>
         /\ report' = RollupOf(evals', Evaluations)
         /\ state' = "COMPLETED" <=> Cleared']_vars

\* Once the last flagged answer has been cleared, and no override is running,
\* the session is out of review.
ClearedMeansCompleted ==
  (\A r \in Recruiters : pc[r] = "idle") /\ Cleared => state = "COMPLETED"

\* The recruiter an evaluation names as its overrider gave the score it has.
NamedRecruiterGaveScore ==
  [][\A e \in Evaluations :
       evals'[e].by # evals[e].by => evals'[e].score = tx[evals'[e].by].given]_vars

=============================================================================
