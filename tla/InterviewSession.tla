--------------------------- MODULE InterviewSession ---------------------------
(***************************************************************************)
(* One interview session: its row and the rows that hang from it in the    *)
(* database, the API requests and the worker tasks that read and write     *)
(* them, the job queue between them, and the reaper.                       *)
(*                                                                         *)
(* Every process works in a transaction of its own at READ COMMITTED: it   *)
(* decides on the copy of the row it loaded, keeps its writes to itself    *)
(* until its commit, writes only the columns it changed, and waits for a   *)
(* row that somebody else's open transaction has updated.  A worker runs   *)
(* one task at a time; a request handler, one request.                     *)
(***************************************************************************)
EXTENDS SessionMachine, Naturals, Sequences, FiniteSets, Functions

CONSTANTS Workers,      \* worker processes
          Requests,     \* request handlers the API runs at once
          Questions,    \* the questions of an interview, by ordinal
          Keys,         \* Idempotency-Key values
          Nobody,       \* nobody holds the session row
          MaxRetries,   \* TASK_MAX_RETRIES
          LongReasons,  \* may a permanent error outgrow failure_reason's column?
          MaxBacklog,   \* bound: queued jobs beyond which no new one is asked for
          MaxFaults     \* bound: crashes, lost publishes and unexpected exceptions

Answers == Questions \X Keys
Procs   == Workers \cup Requests

Grades   == {"clear", "flagged"}            \* an Evaluation's needs_review
EvalRows == [Answers -> Grades \cup {"none"}]
NoEvals  == [a \in Answers |-> "none"]

Kinds == {"generate", "build"}
Jobs  == [kind : Kinds, tries : 0 .. MaxRetries]
FreshJob(k) == [kind |-> k, tries |-> 0]

\* A build_report attempt: the questions still to visit, the answers read for
\* the current one, the answer out for grading, the evaluations inserted but
\* not committed, the answers counted so far, needs_review, and the generation
\* of questions it read.
Attempts == [todo : SUBSET Questions, batch : SUBSET Answers, cur : SUBSET Answers,
             mine : EvalRows, covered : SUBSET Answers, review : BOOLEAN, gen : Nat]
NoAttempt == [todo |-> {}, batch |-> {}, cur |-> {}, mine |-> NoEvals,
              covered |-> {}, review |-> FALSE, gen |-> 0]

CreatedRow == [state |-> "CREATED", reason |-> "none", deadline |-> "none"]

ASSUME ProcsAssumption ==
  /\ IsFiniteSet(Workers) /\ IsFiniteSet(Requests)
  /\ Workers \cap Requests = {}
  /\ Nobody \notin Procs
ASSUME BoundsAssumption ==
  /\ MaxRetries \in Nat
  /\ LongReasons \in BOOLEAN
  /\ MaxBacklog \in Nat
  /\ MaxFaults \in Nat

VARIABLES
  row,        \* the committed session row
  fresh,      \* updated_at is younger than the reaper's cutoff
  gen,        \* how many times the questions have been (re)written; 0: none
  answers,    \* committed answers
  evals,      \* committed evaluations
  reports,    \* committed report rows, each the answers it covers
  lock,       \* who holds the session row by an uncommitted UPDATE
  queue,      \* messages in the broker, by job
  pc,         \* where each process is
  seen,       \* the session row as each process loaded it
  dirty,      \* the request's ORM object, to be flushed at commit
  want,       \* the answer a submit carries ({} or a singleton)
  asked,      \* the generation of the question a submit found
  job,        \* the message a worker holds, unacknowledged
  work,       \* a worker's build_report attempt
  faults      \* faults so far

tables  == <<row, fresh, gen, answers, evals, reports>>
private == <<seen, dirty, want, asked, job, work>>
vars    == <<tables, lock, queue, pc, private, faults>>

-----------------------------------------------------------------------------

TypeOK ==
  /\ row \in Row
  /\ fresh \in BOOLEAN
  /\ gen \in Nat
  /\ answers \in SUBSET Answers
  /\ evals \in EvalRows
  /\ reports \in Seq(SUBSET Answers)
  /\ lock \in Workers \cup {Nobody}
  /\ queue \in [Jobs -> Nat]
  /\ pc \in [Procs -> {"idle", "save", "finish", "submit",
                       "publish_generate", "publish_build",
                       "gen_read", "gen_hold", "build_open", "build_read", "build_loop",
                       "give_up", "give_up_write", "reap", "ack"}]
  /\ seen \in [Procs -> Row]
  /\ dirty \in [Requests -> Row]
  /\ want \in [Requests -> SUBSET Answers]
  /\ asked \in [Requests -> Nat]
  /\ job \in [Workers -> Jobs]
  /\ work \in [Workers -> Attempts]
  /\ faults \in 0 .. MaxFaults

\* create_session has committed the row and is about to dispatch.
Init ==
  /\ row = CreatedRow
  /\ fresh = TRUE
  /\ gen = 0
  /\ answers = {}
  /\ evals = NoEvals
  /\ reports = <<>>
  /\ lock = Nobody
  /\ queue = [j \in Jobs |-> 0]
  /\ \E r \in Requests :
       pc = [p \in Procs |-> IF p = r THEN "publish_generate" ELSE "idle"]
  /\ seen = [p \in Procs |-> CreatedRow]
  /\ dirty = [r \in Requests |-> CreatedRow]
  /\ want = [r \in Requests |-> {}]
  /\ asked = [r \in Requests |-> 0]
  /\ job = [w \in Workers |-> FreshJob("generate")]
  /\ work = [w \in Workers |-> NoAttempt]
  /\ faults = 0

-----------------------------------------------------------------------------
(* Transactions.                                                           *)

Goto(p, from, to) == pc[p] = from /\ pc' = [pc EXCEPT ![p] = to]

\* The row after a flush: only the columns that differ from the loaded ones.
Written(column, old, new) == IF new = old THEN column ELSE new
Flush(old, new) ==
  [state    |-> Written(row.state, old.state, new.state),
   reason   |-> Written(row.reason, old.reason, new.reason),
   deadline |-> Written(row.deadline, old.deadline, new.deadline)]

\* UPDATE interview_sessions: waits for the row, and bumps updated_at.
Update(old, new) ==
  /\ lock = Nobody
  /\ row' = Flush(old, new)
  /\ fresh' = TRUE

Enqueue(j) == queue' = [queue EXCEPT ![j] = @ + 1]
Backlog == SumFunction(queue)

Fault == faults < MaxFaults /\ faults' = faults + 1
Release(p) == lock' = IF lock = p THEN Nobody ELSE lock
Forget(w) == work' = [work EXCEPT ![w] = NoAttempt]

\* A request's private copies, dropped when its handler returns.
Close(r) ==
  /\ seen' = [seen EXCEPT ![r] = CreatedRow]
  /\ dirty' = [dirty EXCEPT ![r] = CreatedRow]
  /\ want' = [want EXCEPT ![r] = {}]
  /\ asked' = [asked EXCEPT ![r] = 0]

-----------------------------------------------------------------------------
(* API requests.  A refused request (404, 409) rolls back, the expiry it    *)
(* may have noticed included: it is a stuttering step.                      *)

\* get_session, list_my_sessions, get_report: a read that finds the deadline
\* passed leaves EXPIRED to be flushed at the commit; any other writes nothing.
GetLoad(r) ==
  /\ MaybeExpire(row) # row
  /\ Goto(r, "idle", "save")
  /\ seen' = [seen EXCEPT ![r] = row]
  /\ dirty' = [dirty EXCEPT ![r] = MaybeExpire(row)]
  /\ UNCHANGED <<tables, lock, queue, want, asked, job, work, faults>>

\* start_session.  The new deadline differs from whatever was loaded, so it is
\* always written.
StartLoad(r) ==
  /\ MaybeExpire(row).state = "READY"
  /\ Goto(r, "idle", "save")
  /\ seen' = [seen EXCEPT ![r] = [row EXCEPT !.deadline = "none"]]
  /\ dirty' = [dirty EXCEPT ![r] = [MovedTo(row, "IN_PROGRESS", "none")
                                      EXCEPT !.deadline = "ahead"]]
  /\ UNCHANGED <<tables, lock, queue, want, asked, job, work, faults>>

\* get_db's commit after GetLoad or StartLoad.
Save(r) ==
  /\ Goto(r, "save", "idle")
  /\ Update(seen[r], dirty[r])
  /\ Close(r)
  /\ UNCHANGED <<gen, answers, evals, reports, lock, queue, job, work, faults>>

\* submit_answer's check.  Mutant: taken while it is being graded, too.
MayAnswerLate == MaybeExpire(row).state \in {"IN_PROGRESS", "EVALUATING"}
MayAnswer == MaybeExpire(row).state = "IN_PROGRESS"

\* submit_answer, up to the question it loads.
SubmitLoad(r, a) ==
  /\ MayAnswer
  /\ gen > 0
  /\ Goto(r, "idle", "submit")
  /\ want' = [want EXCEPT ![r] = {a}]
  /\ asked' = [asked EXCEPT ![r] = gen]
  /\ UNCHANGED <<tables, lock, queue, seen, dirty, job, work, faults>>

\* The rest of submit_answer: the same (question, key) returns the row that is
\* there, found by the select or by the unique index; a question rewritten in
\* between fails the foreign key.  Nothing here looks at the session again.
Submit(r) ==
  /\ Goto(r, "submit", "idle")
  /\ answers' = IF asked[r] = gen THEN answers \cup want[r] ELSE answers
  /\ Close(r)
  /\ UNCHANGED <<row, fresh, gen, evals, reports, lock, queue, job, work, faults>>

\* finish_session: from IN_PROGRESS, or again from EVALUATING.
FinishLoad(r) ==
  /\ Accepts(MaybeExpire(row).state, "EVALUATING")
  /\ Backlog < MaxBacklog
  /\ Goto(r, "idle", "finish")
  /\ seen' = [seen EXCEPT ![r] = row]
  /\ dirty' = [dirty EXCEPT ![r] = MovedTo(row, "EVALUATING", "none")]
  /\ UNCHANGED <<tables, lock, queue, want, asked, job, work, faults>>

\* finish_session's own commit; a repeated finish has nothing to write.
FinishSave(r) ==
  /\ Goto(r, "finish", "publish_build")
  /\ IF dirty[r] = seen[r] THEN UNCHANGED <<row, fresh>>
                           ELSE Update(seen[r], dirty[r])
  /\ Close(r)
  /\ UNCHANGED <<gen, answers, evals, reports, lock, queue, job, work, faults>>

\* dispatcher.generate_questions / build_report, after the commit; the reaper's
\* two .delay calls are the same step.
Publish(p, k) ==
  /\ Goto(p, IF k = "build" THEN "publish_build" ELSE "publish_generate", "idle")
  /\ Enqueue(FreshJob(k))
  /\ UNCHANGED <<tables, lock, private, faults>>

\* The handler fails or its process dies before the commit or the publish.
RequestDies(r) ==
  /\ Fault
  /\ pc[r] # "idle"
  /\ pc' = [pc EXCEPT ![r] = "idle"]
  /\ Close(r)
  /\ UNCHANGED <<tables, lock, queue, job, work>>

-----------------------------------------------------------------------------
(* generate_questions.                                                      *)

\* Mutant: a message that is not there is taken.
TakeFromEmpty(w, j) ==
  /\ queue' = [queue EXCEPT ![j] = @ - 1]
  /\ job' = [job EXCEPT ![w] = j]

Take(w, j) ==
  /\ queue[j] > 0
  /\ queue' = [queue EXCEPT ![j] = @ - 1]
  /\ job' = [job EXCEPT ![w] = j]

\* The task begins: its guard is read here and never again.
TakeGenerate(w, j) ==
  /\ j.kind = "generate"
  /\ Take(w, j)
  /\ IF row.state \in Preparing
       THEN Goto(w, "idle", "gen_read") /\ seen' = [seen EXCEPT ![w] = row]
       ELSE Goto(w, "idle", "ack") /\ UNCHANGED seen
  /\ UNCHANGED <<tables, lock, dirty, want, asked, work, faults>>

\* The flush of PARSING: from here to the commit the row is held.
GenLock(w) ==
  /\ Goto(w, "gen_read", "gen_hold")
  /\ Accepts(seen[w].state, "PARSING")
  /\ lock = Nobody
  /\ lock' = w
  /\ UNCHANGED <<tables, queue, private, faults>>

\* The model answered: old questions are deleted with their answers and
\* evaluations, new ones inserted, PARSING -> GENERATING_QS -> READY committed.
\* The delete waits for evaluations being inserted under the old answers.
GenReady(w) ==
  /\ Goto(w, "gen_hold", "ack")
  /\ \A v \in Workers : work[v].mine = NoEvals
  /\ LET parsing    == MovedTo(seen[w], "PARSING", "none")
         generating == MovedTo(parsing, "GENERATING_QS", "none")
     IN  row' = Flush(seen[w], MovedTo(generating, "READY", "none"))
  /\ fresh' = TRUE
  /\ gen' = gen + 1
  /\ answers' = {}
  /\ evals' = NoEvals
  /\ Release(w)
  /\ UNCHANGED <<reports, queue, private, faults>>

\* The row as a failure leaves it.  Mutants: the failure path forgets the
\* transition; the session is declared ready all the same.
LeftParsing(w) == MovedTo(seen[w], "PARSING", "none")
ReadyAnyway(w) == MovedTo(seen[w], "READY", "none")
Failed(w) == MovedTo(seen[w], "FAILED", "gave_up")

\* A permanent error, or a resume that could not be read: FAILED, committed.
GenFail(w) ==
  /\ Goto(w, "gen_hold", "ack")
  /\ row' = Flush(seen[w], Failed(w))
  /\ fresh' = TRUE
  /\ Release(w)
  /\ UNCHANGED <<gen, answers, evals, reports, queue, private, faults>>

\* A question that cites what was not retrieved (chunk_ids_for): the old questions are
\* deleted by then and some new ones written, and FAILED is committed with that.  Which
\* ones is left open: a question that is not there is one nobody answers.
GenBreaksOff(w) ==
  /\ Goto(w, "gen_hold", "ack")
  /\ \A v \in Workers : work[v].mine = NoEvals
  /\ row' = Flush(seen[w], Failed(w))
  /\ fresh' = TRUE
  /\ gen' = gen + 1
  /\ answers' = {}
  /\ evals' = NoEvals
  /\ Release(w)
  /\ UNCHANGED <<reports, queue, private, faults>>

-----------------------------------------------------------------------------
(* build_report.                                                            *)

\* The unique index on session_id.  Mutant: no such index, nor the check.
NeverReported == TRUE
Unreported == reports = <<>>

TakeBuild(w, j) ==
  /\ j.kind = "build"
  /\ Take(w, j)
  /\ Goto(w, "idle", IF Unreported THEN "build_open" ELSE "ack")
  /\ UNCHANGED <<tables, lock, seen, dirty, want, asked, work, faults>>

\* The session is loaded, then its questions, each as committed by then; the copy of
\* the session is what the transition at the end starts from.
BuildLoad(w) ==
  /\ Goto(w, "build_open", "build_read")
  /\ seen' = [seen EXCEPT ![w] = row]
  /\ UNCHANGED <<tables, lock, queue, dirty, want, asked, job, work, faults>>

BuildRead(w) ==
  /\ Goto(w, "build_read", "build_loop")
  /\ work' = [work EXCEPT ![w].todo = IF gen > 0 THEN Questions ELSE {},
                          ![w].gen = gen]
  /\ UNCHANGED <<tables, lock, queue, seen, dirty, want, asked, job, faults>>

Grading(w) == pc[w] = "build_loop" /\ work[w].cur # {}
BetweenAnswers(w) == pc[w] = "build_loop" /\ work[w].cur = {}

\* The answers of one question, as committed now; the questions come in no
\* particular order.
ReadAnswers(w, q) ==
  /\ BetweenAnswers(w) /\ work[w].batch = {}
  /\ q \in work[w].todo
  /\ work' = [work EXCEPT ![w].todo = @ \ {q},
                          ![w].batch = IF work[w].gen = gen
                                         THEN {a \in answers : a[1] = q} ELSE {}]
  /\ UNCHANGED <<tables, lock, queue, pc, seen, dirty, want, asked, job, faults>>

\* An answer joins the report's rollup.  Mutant: the last grade alone decides
\* needs_review.
CountedLast(t, a, g) ==
  [t EXCEPT !.covered = @ \cup {a}, !.review = g = "flagged"]
Counted(t, a, g) ==
  [t EXCEPT !.covered = @ \cup {a}, !.review = @ \/ g = "flagged"]

\* Mutant: nobody looks.
NeverEvaluated(a) == FALSE
Evaluated(a) == evals[a] # "none"

\* No open transaction holds a's place in the unique index on answer_id.
\* Mutant: no such index.
NoIndex(a) == TRUE
IndexFree(a) == \A v \in Workers : work[v].mine[a] = "none"

\* evaluate_answer looks for an evaluation: one that is there is the answer's;
\* otherwise the answer goes out for grading.
LookUp(w, a) ==
  /\ BetweenAnswers(w)
  /\ a \in work[w].batch
  /\ LET rest == [work[w] EXCEPT !.batch = @ \ {a}]
     IN  work' = [work EXCEPT ![w] = IF Evaluated(a)
                                       THEN Counted(rest, a, evals[a])
                                       ELSE [rest EXCEPT !.cur = {a}]]
  /\ UNCHANGED <<tables, lock, queue, pc, seen, dirty, want, asked, job, faults>>

\* _insert_evaluation.  The insert waits for another task's uncommitted row,
\* and a committed one wins.
InsertEvaluation(w, a, g) ==
  /\ Grading(w) /\ a \in work[w].cur
  /\ work[w].gen = gen
  /\ IndexFree(a)
  /\ LET rest == [work[w] EXCEPT !.cur = {}]
     IN  work' = [work EXCEPT ![w] = IF Evaluated(a)
                                       THEN Counted(rest, a, evals[a])
                                       ELSE Counted([rest EXCEPT !.mine[a] = g], a, g)]
  /\ UNCHANGED <<tables, lock, queue, pc, seen, dirty, want, asked, job, faults>>

Graded(w) == BetweenAnswers(w) /\ work[w].todo = {} /\ work[w].batch = {}
Verdict(w) == IF work[w].review THEN "NEEDS_HUMAN_REVIEW" ELSE "COMPLETED"

\* The committed evaluations once w's own are among them.
EvalsWith(w) ==
  [a \in Answers |-> IF work[w].mine[a] = "none" THEN evals[a] ELSE work[w].mine[a]]

\* A task's transaction ends without a commit.  Mutant: with one.
CommitAnyway(w) ==
  /\ evals' = EvalsWith(w)
  /\ Release(w) /\ Forget(w)
  /\ UNCHANGED <<row, fresh, gen, answers, reports>>
Rollback(w) == Release(w) /\ Forget(w) /\ UNCHANGED tables

\* The report is inserted and the session leaves EVALUATING, in one commit.
BuildSettles(w) ==
  /\ Graded(w)
  /\ Unreported
  /\ Accepts(seen[w].state, Verdict(w))
  /\ Goto(w, "build_loop", "ack")
  /\ IF seen[w].state = Verdict(w)
       THEN UNCHANGED <<row, fresh>>
       ELSE Update(seen[w], MovedTo(seen[w], Verdict(w), "none"))
  /\ reports' = Append(reports, work[w].covered)
  /\ evals' = EvalsWith(w)
  /\ Forget(w)
  /\ UNCHANGED <<gen, answers, lock, queue, seen, dirty, want, asked, job, faults>>

\* Another task's report is there: the insert fails, the loser returns it.  It
\* commits whatever else it had written and does not touch the session.
BuildLoses(w) ==
  /\ Graded(w)
  /\ ~Unreported
  /\ Goto(w, "build_loop", "ack")
  /\ evals' = EvalsWith(w)
  /\ Forget(w)
  /\ UNCHANGED <<row, fresh, gen, answers, reports, lock, queue,
                 seen, dirty, want, asked, job, faults>>

\* An exception that is not retried fails the attempt: IllegalTransition from a
\* session that was not EVALUATING when it was loaded, or an evaluation whose
\* answer was deleted.  The transaction is rolled back, the message is spent.
BuildRaises(w) ==
  /\ \/ Graded(w) /\ Unreported /\ ~Accepts(seen[w].state, Verdict(w))
     \/ Grading(w) /\ work[w].gen # gen
  /\ Goto(w, "build_loop", "ack")
  /\ Rollback(w)
  /\ UNCHANGED <<queue, seen, dirty, want, asked, job, faults>>

-----------------------------------------------------------------------------
(* What every task shares: retries, giving up, failing, dying.              *)

\* A transient provider error: the attempt is rolled back and retried later, or
\* its retries have run out.
Retry(w) ==
  /\ pc[w] = "gen_hold" \/ Grading(w)
  /\ IF job[w].tries < MaxRetries
       THEN /\ Enqueue([job[w] EXCEPT !.tries = @ + 1])
            /\ Goto(w, pc[w], "ack")
       ELSE /\ UNCHANGED queue
            /\ Goto(w, pc[w], "give_up")
  /\ Rollback(w)
  /\ UNCHANGED <<seen, dirty, want, asked, job, faults>>

\* The states give_up_session may fail.  Mutant: not those being graded.
FailsOnlyPreparing(s) == s \in Preparing
Fails(s) == CanTransition(s, "FAILED")

\* give_up_session, in a transaction of its own.
GiveUpRead(w) ==
  /\ Goto(w, "give_up", IF Fails(row.state) THEN "give_up_write" ELSE "ack")
  /\ seen' = [seen EXCEPT ![w] = row]
  /\ UNCHANGED <<tables, lock, queue, dirty, want, asked, job, work, faults>>

GiveUpWrite(w) ==
  /\ Goto(w, "give_up_write", "ack")
  /\ Update(seen[w], Failed(w))
  /\ UNCHANGED <<gen, answers, evals, reports, lock, queue, private, faults>>

\* The message is acknowledged after the work (task_acks_late).
Ack(w) ==
  /\ Goto(w, "ack", "idle")
  /\ seen' = [seen EXCEPT ![w] = CreatedRow]
  /\ job' = [job EXCEPT ![w] = FreshJob("generate")]
  /\ UNCHANGED <<tables, lock, queue, dirty, want, asked, work, faults>>

OnTask(w) == pc[w] \in {"gen_read", "gen_hold",
                        "build_open", "build_read", "build_loop",
                        "give_up", "give_up_write", "ack"}

\* Any other exception: rolled back, logged, the message is spent.
TaskRaises(w) ==
  /\ Fault
  /\ OnTask(w) /\ pc[w] # "ack"
  /\ Goto(w, pc[w], "ack")
  /\ Rollback(w)
  /\ UNCHANGED <<queue, seen, dirty, want, asked, job>>

\* generate_questions writes the provider's error into failure_reason, 500
\* characters of it at most: PostgreSQL refuses a longer one, and the attempt to
\* record the failure fails.
ReasonTooLong(w) ==
  /\ LongReasons
  /\ Goto(w, "gen_hold", "ack")
  /\ Rollback(w)
  /\ UNCHANGED <<queue, seen, dirty, want, asked, job, faults>>

\* The worker process is killed: its transaction goes, its message comes back.
\* The sweep's own message is not modelled: beat sends another.
WorkerDies(w) ==
  /\ Fault
  /\ pc[w] # "idle"
  /\ IF OnTask(w) THEN Enqueue(job[w]) ELSE UNCHANGED queue
  /\ Goto(w, pc[w], "idle")
  /\ Rollback(w)
  /\ seen' = [seen EXCEPT ![w] = CreatedRow]
  /\ job' = [job EXCEPT ![w] = FreshJob("generate")]
  /\ UNCHANGED <<dirty, want, asked>>

\* Whose open transaction w's next write waits for.
WaitsFor(w) ==
  {v \in Workers \ {w} :
     \/ \E a \in work[w].cur : work[v].mine[a] # "none"
     \/ Graded(w) /\ lock = v
     \/ pc[w] = "gen_hold" /\ work[v].mine # NoEvals}

\* PostgreSQL aborts a transaction of a waiting cycle; the error is not one the
\* task retries.
DeadlockVictim(w) ==
  /\ \E S \in SUBSET Workers :
       /\ w \in S
       /\ \A v \in S : WaitsFor(v) \cap S # {}
  /\ Goto(w, pc[w], "ack")
  /\ Rollback(w)
  /\ UNCHANGED <<queue, seen, dirty, want, asked, job, faults>>

-----------------------------------------------------------------------------
(* The reaper and time.                                                     *)

\* claim_stale_sessions selects the session ...
ReapRead(w) ==
  /\ ~fresh
  /\ row.state \in {"CREATED", "EVALUATING"}
  /\ Backlog < MaxBacklog
  /\ Goto(w, "idle", "reap")
  /\ seen' = [seen EXCEPT ![w] = row]
  /\ UNCHANGED <<tables, lock, queue, dirty, want, asked, job, work, faults>>

\* ... bumps updated_at and commits; the dispatch goes by the state it read.
ReapClaim(w) ==
  /\ Goto(w, "reap", IF seen[w].state = "CREATED" THEN "publish_generate"
                                                  ELSE "publish_build")
  /\ lock = Nobody
  /\ fresh' = TRUE
  /\ seen' = [seen EXCEPT ![w] = CreatedRow]
  /\ UNCHANGED <<row, gen, answers, evals, reports, lock, queue,
                 dirty, want, asked, job, work, faults>>

\* REAPER_CREATED_AFTER_MINUTES or REAPER_EVALUATING_AFTER_MINUTES go by.
GrowStale ==
  /\ fresh
  /\ row.state \in {"CREATED", "EVALUATING"}
  /\ fresh' = FALSE
  /\ UNCHANGED <<row, gen, answers, evals, reports, lock, queue, pc, private, faults>>

\* SESSION_TTL_MINUTES go by.
DeadlinePasses ==
  /\ row.deadline = "ahead"
  /\ row' = [row EXCEPT !.deadline = "passed"]
  /\ UNCHANGED <<fresh, gen, answers, evals, reports, lock, queue, pc, private, faults>>

-----------------------------------------------------------------------------

Request(r) ==
  \/ GetLoad(r) \/ StartLoad(r) \/ Save(r)
  \/ \E a \in Answers : SubmitLoad(r, a)
  \/ Submit(r)
  \/ FinishLoad(r) \/ FinishSave(r)
  \/ \E k \in Kinds : Publish(r, k)
  \/ RequestDies(r)

Generate(w) ==
  \/ \E j \in Jobs : TakeGenerate(w, j)
  \/ GenLock(w) \/ GenReady(w) \/ GenFail(w) \/ GenBreaksOff(w)

Build(w) ==
  \/ \E j \in Jobs : TakeBuild(w, j)
  \/ BuildLoad(w) \/ BuildRead(w)
  \/ \E q \in Questions : ReadAnswers(w, q)
  \/ \E a \in Answers : LookUp(w, a)
  \/ \E a \in Answers, g \in Grades : InsertEvaluation(w, a, g)
  \/ BuildSettles(w) \/ BuildLoses(w) \/ BuildRaises(w)

Settle(w) ==
  \/ Retry(w) \/ GiveUpRead(w) \/ GiveUpWrite(w) \/ Ack(w)
  \/ TaskRaises(w) \/ ReasonTooLong(w) \/ WorkerDies(w) \/ DeadlockVictim(w)

Reap(w) ==
  \/ ReapRead(w) \/ ReapClaim(w)
  \/ \E k \in Kinds : Publish(w, k)

Next ==
  \/ \E r \in Requests : Request(r)
  \/ \E w \in Workers : Generate(w) \/ Build(w) \/ Settle(w) \/ Reap(w)
  \/ GrowStale
  \/ DeadlinePasses

Spec == Init /\ [][Next]_vars

-----------------------------------------------------------------------------
(* Fairness.  Workers run, the broker is first in first out, so no message  *)
(* waits for ever, and beat sweeps every five minutes; a started handler    *)
(* returns.  Nothing is assumed of the candidate, of the provider or of     *)
(* faults, except that there are at most MaxFaults of them.                 *)

Progress(w) ==
  \/ GenLock(w) \/ GenReady(w) \/ GenFail(w) \/ GenBreaksOff(w)
  \/ BuildLoad(w) \/ BuildRead(w)
  \/ BuildSettles(w) \/ BuildLoses(w) \/ BuildRaises(w)
  \/ \E q \in Questions : ReadAnswers(w, q)
  \/ \E a \in Answers : LookUp(w, a)
  \/ \E a \in Answers, g \in Grades : InsertEvaluation(w, a, g)
  \/ Retry(w) \/ GiveUpRead(w) \/ GiveUpWrite(w) \/ Ack(w) \/ DeadlockVictim(w)
  \/ ReasonTooLong(w) \/ ReapClaim(w)
  \/ \E k \in Kinds : Publish(w, k)

Respond(r) ==
  Save(r) \/ Submit(r) \/ FinishSave(r) \/ \E k \in Kinds : Publish(r, k)

Fairness ==
  /\ \A w \in Workers : WF_vars(Progress(w)) /\ SF_vars(ReapRead(w))
  /\ \A r \in Requests : WF_vars(Respond(r))
  /\ \A j \in Jobs : SF_vars(\E w \in Workers : TakeGenerate(w, j) \/ TakeBuild(w, j))
  /\ WF_vars(GrowStale)

FairSpec == Spec /\ Fairness

-----------------------------------------------------------------------------
(* What holds however many requests and workers run at once.               *)

\* PARSING and GENERATING_QS are written by generate_questions and never
\* survive its transaction: nobody else ever reads them, a retried or failed
\* attempt included, and a session that is being prepared reads CREATED.
PreparationIsInvisible == row.state \notin {"PARSING", "GENERATING_QS"}

\* An evaluation is never committed ahead of the report it goes into: an attempt
\* of build_report that is retried, killed or loses a deadlock leaves none of
\* its grades behind.
GradesComeWithReport == (\E a \in Answers : evals[a] # "none") => reports # <<>>

\* A session that is past its preparation is one whose questions were written, and
\* answers are only stored once they were.
QuestionsComeFirst ==
  (row.state \notin Preparing \cup FailureStates \/ answers # {}) => gen > 0

\* build_report, redelivered or run twice at once, writes one report and never
\* rewrites it.
ReportIsWrittenOnce == [][reports # <<>> => reports' = reports]_vars

\* No answer is scored twice: whichever tasks race to grade it, the grade that
\* was committed first stays.
NoAnswerScoredTwice ==
  [][\A a \in Answers :
       evals[a] # "none" /\ evals'[a] # "none" => evals'[a] = evals[a]]_vars

\* An uncommitted evaluation is the only one of its answer: no other
\* transaction holds one and none has been committed.  (What makes
\* NoAnswerScoredTwice inductive.)
GradingIsExclusive ==
  \A w \in Workers, a \in Answers :
    work[w].mine[a] # "none" =>
      /\ evals[a] = "none"
      /\ \A v \in Workers : work[v].mine[a] # "none" => v = w

-----------------------------------------------------------------------------
(* What holds when the API answers one request at a time and one worker     *)
(* runs, and where a larger installation departs from it.                   *)

\* What the candidate sees is an interview as the abstract module promises it.
Promise == INSTANCE Interview WITH state <- row.state
KeepsPromise == Promise!Spec

\* A finished interview's report covers every answer that was accepted.
EveryAnswerIsGraded ==
  row.state \in {"COMPLETED", "NEEDS_HUMAN_REVIEW"} => reports = <<answers>>

\* The session asks for a human exactly when a grade in its report does.
VerdictMatchesGrades ==
  row.state \in {"COMPLETED", "NEEDS_HUMAN_REVIEW"} =>
    (row.state = "NEEDS_HUMAN_REVIEW" <=> \E a \in Answers : evals[a] = "flagged")

\* A failure reason is shown in the failure states and nowhere else.
FailuresAreExplained == (row.state \in FailureStates) <=> (row.reason # "none")

\* A session that has been handed in for grading is not expired under the
\* task that grades it.
EvaluatingDoesNotExpire ==
  [][row.state = "EVALUATING" => row'.state # "EXPIRED"]_vars

\* A generation job that runs again after the questions were written does not
\* write them again.
RedeliveredGenerationIsNoOp == [][row.state \notin Preparing => gen' = gen]_vars

\* Giving up fails a session only while it still waits for what was given up;
\* one that another delivery has moved on is left alone.
GivingUpSparesTheRest ==
  [][\A w \in Workers : GiveUpWrite(w) => Fails(row.state)]_vars

\* A session waiting for its questions, or for its report, does not wait for
\* ever: retries, the reaper and giving up see to it.
NeverStuck ==
  /\ row.state = "CREATED" ~> row.state # "CREATED"
  /\ row.state = "EVALUATING" ~> row.state # "EVALUATING"

=============================================================================
