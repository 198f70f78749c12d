-------------------------------- MODULE Resume --------------------------------
(***************************************************************************)
(* One resume, the sessions that are prepared from it, and what both cost  *)
(* their owner: the upload, the parse task, the parse inside question      *)
(* generation, giving up, the daily token cap and the ledger.              *)
(*                                                                         *)
(* A task works in one transaction at READ COMMITTED.  It decides on the   *)
(* row it loaded, its UPDATE of parse_status takes the row and keeps it    *)
(* through the model's answer, and only changed columns are written.  The  *)
(* ledger commits on its own.                                              *)
(***************************************************************************)
EXTENDS Naturals, FiniteSets

CONSTANTS Workers,     \* worker processes
          Sessions,    \* sessions the candidate may create on this resume
          Nobody,      \* no worker; not about one session
          MaxRetries,  \* TASK_MAX_RETRIES
          Cap,         \* USER_DAILY_TOKEN_BUDGET, in calls
          MaxSpent,    \* bound: spending is counted up to here
          MaxFaults    \* bound: crashes, lost publishes, exceptions nobody expected

ASSUME ResumeAssumption ==
  /\ IsFiniteSet(Workers) /\ IsFiniteSet(Sessions)
  /\ Nobody \notin Workers \cup Sessions
  /\ MaxRetries \in Nat /\ Cap \in Nat /\ MaxSpent \in Nat /\ MaxFaults \in Nat

Statuses == {"pending", "parsing", "parsed", "failed"}
Row      == [status : Statuses, reason : {"none", "given"}]
NewRow   == [status |-> "pending", reason |-> "none"]

Jobs == [kind : {"parse", "generate", "grade"}, of : Sessions \cup {Nobody},
         tries : 0 .. MaxRetries]
Job(k, s)  == [kind |-> k, of |-> s, tries |-> 0]
ParseJob   == Job("parse", Nobody)

\* A task's transaction: the resume as loaded and as it will be written, and the
\* skill rows to delete (those that were visible) and to insert (by whose parse).
Txns  == [seen : Row, row : Row, deletes : SUBSET Workers, inserts : SUBSET Workers,
          verdict : {"none", "ready", "failed"}]
NoTxn == [seen |-> NewRow, row |-> NewRow, deletes |-> {}, inserts |-> {},
          verdict |-> "none"]

VARIABLES
  upload,    \* where the upload request is
  resume,    \* the committed row
  skills,    \* committed skill rows, by the worker whose parse wrote them
  sessions,  \* each session as this component sees it
  spent,     \* tokens in the ledger today
  lost,      \* calls that were paid and are in no ledger
  lock,      \* who holds the resume's row
  queue,     \* messages in the broker
  job,       \* the message each worker holds
  pc,        \* where each worker is
  txn,       \* each worker's transaction
  faults

rows == <<resume, skills, sessions>>
bill == <<spent, lost>>
wrk  == <<lock, queue, job, pc, txn>>
vars == <<upload, rows, bill, wrk, faults>>

TypeOK ==
  /\ upload \in {"new", "stored", "publish", "done", "refused"}
  /\ resume \in Row
  /\ skills \in SUBSET Workers
  /\ sessions \in [Sessions -> {"new", "admitted", "waiting", "ready", "finished",
                                "graded", "failed"}]
  /\ spent \in 0 .. MaxSpent
  /\ lost \in 0 .. MaxFaults
  /\ lock \in Workers \cup {Nobody}
  /\ queue \in SUBSET Jobs
  /\ job \in [Workers -> Jobs]
  /\ pc \in [Workers -> {"idle", "flush", "parse", "ask", "grade", "commit", "raised",
                         "give_up", "write_off"}]
  /\ txn \in [Workers -> Txns]
  /\ faults \in 0 .. MaxFaults

Init ==
  /\ upload = "new"
  /\ resume = NewRow /\ skills = {}
  /\ sessions = [s \in Sessions |-> "new"]
  /\ spent = 0 /\ lost = 0
  /\ lock = Nobody /\ queue = {}
  /\ job = [w \in Workers |-> ParseJob]
  /\ pc = [w \in Workers |-> "idle"]
  /\ txn = [w \in Workers |-> NoTxn]
  /\ faults = 0

Fault == faults < MaxFaults /\ faults' = faults + 1
Goto(w, l) == pc' = [pc EXCEPT ![w] = l]

\* Mutant: a transaction that ends keeps the row.
HoldsOn(w) == lock' = lock

Release(w) == lock' = IF lock = w THEN Nobody ELSE lock

-----------------------------------------------------------------------------
\* Requests

MayStart == spent < Cap         \* require_budget

\* upload_resume: the file, then the row, then the message.
Store ==
  /\ upload = "new" /\ MayStart
  /\ upload' \in {"stored", "refused"}      \* too large, unreadable or not storable
  /\ UNCHANGED <<rows, bill, wrk, faults>>

Insert ==
  /\ upload = "stored"
  /\ upload' \in {"publish", "refused"}     \* the file alone stays behind
  /\ UNCHANGED <<rows, bill, wrk, faults>>

Publish ==
  /\ upload = "publish"
  /\ upload' = "done"
  /\ \/ queue' = queue \cup {ParseJob} /\ UNCHANGED faults
     \/ Fault /\ UNCHANGED queue            \* the broker refuses, or the API dies
  /\ UNCHANGED <<rows, bill, lock, job, pc, txn>>

\* create_session and finish_session; a lost message is sent again by the reaper.
Check(s) ==
  /\ upload \in {"publish", "done"}
  /\ sessions[s] = "new" /\ MayStart
  /\ sessions' = [sessions EXCEPT ![s] = "admitted"]
  /\ UNCHANGED <<upload, resume, skills, bill, wrk, faults>>

Send(s, from, to, kind) ==
  /\ sessions[s] = from
  /\ sessions' = [sessions EXCEPT ![s] = to]
  /\ queue' = queue \cup {Job(kind, s)}
  /\ UNCHANGED <<upload, resume, skills, bill, lock, job, pc, txn, faults>>

Create(s) == Send(s, "admitted", "waiting", "generate")
Finish(s) == Send(s, "ready", "finished", "grade")

-----------------------------------------------------------------------------
\* Tasks

\* Mutant: no uncommitted UPDATE holds the row.
LockAnyway(w) == TRUE

MayLock(w) == lock = Nobody

\* Mutant: a parse that failed is not made again.
IsSettled(r) == r.status \in {"parsed", "failed"}

IsParsed(r) == r.status = "parsed"

\* A message is taken and the resume loaded.  A parse of a parsed resume has
\* nothing to do; generation goes on to its questions; grading needs no resume.
Take(w) ==
  /\ pc[w] = "idle"
  /\ \E j \in queue :
       /\ queue' = queue \ {j}
       /\ job' = [job EXCEPT ![w] = j]
       /\ txn' = [txn EXCEPT ![w] = [NoTxn EXCEPT !.seen = resume, !.row = resume]]
       /\ Goto(w, IF j.kind = "grade" THEN "grade"
                  ELSE IF ~IsParsed(resume) THEN "flush"
                  ELSE IF j.kind = "parse" THEN "commit" ELSE "ask")
  /\ UNCHANGED <<upload, rows, bill, lock, faults>>

\* The flush of `parsing`: an UPDATE, which waits for another one's transaction.
\* What the transaction compares with from here on is what it has written.
Flush(w) ==
  /\ pc[w] = "flush"
  /\ MayLock(w)
  /\ lock' = w
  /\ txn' = [txn EXCEPT ![w].row.status = "parsing", ![w].seen.status = "parsing"]
  /\ Goto(w, "parse")
  /\ UNCHANGED <<upload, rows, bill, queue, job, faults>>

\* Mutant: the row of the ledger shares the fate of the transaction.
ChargedInTransaction(kept) ==
  IF kept THEN spent' = (IF spent < MaxSpent THEN spent + 1 ELSE spent) /\ UNCHANGED lost
  ELSE lost' = lost + 1 /\ UNCHANGED spent

\* A call was made and its row committed, whether the attempt is kept or not.
Charged(kept) ==
  /\ spent' = IF spent < MaxSpent THEN spent + 1 ELSE spent
  /\ UNCHANGED lost

Parsed(w) ==
  /\ pc[w] = "parse"
  /\ Charged(TRUE)
  /\ txn' = [txn EXCEPT ![w].row = [status |-> "parsed", reason |-> "none"],
                        ![w].deletes = skills, ![w].inserts = {w}]
  /\ Goto(w, IF job[w].kind = "parse" THEN "commit" ELSE "ask")
  /\ UNCHANGED <<upload, rows, lock, queue, job, faults>>

\* A permanent error: the resume has failed, and a session prepared from it too.
Unreadable(w) ==
  /\ pc[w] = "parse"
  /\ Charged(TRUE)
  /\ txn' = [txn EXCEPT ![w].row.status = "failed", ![w].verdict = "failed"]
  /\ Goto(w, "commit")
  /\ UNCHANGED <<upload, rows, lock, queue, job, faults>>

\* generate_questions after the resume, for good or for bad; build_report, which
\* grades without the model when it fails for good.
Asked(w) ==
  /\ pc[w] \in {"ask", "grade"}
  /\ Charged(TRUE)
  /\ \E v \in {"ready", "failed"} : txn' = [txn EXCEPT ![w].verdict = v]
  /\ Goto(w, "commit")
  /\ UNCHANGED <<upload, rows, lock, queue, job, faults>>

\* A transient error: everything but the ledger is rolled back.
Rollback(w) ==
  /\ txn' = [txn EXCEPT ![w] = NoTxn]
  /\ Release(w)

Busy(w) ==
  /\ pc[w] \in {"parse", "ask", "grade"}
  /\ Charged(FALSE)
  /\ Rollback(w)
  /\ Goto(w, "raised")
  /\ UNCHANGED <<upload, rows, queue, job, faults>>

\* Only the columns that differ from the loaded ones are written.
Written(old, seen, new) == [c \in DOMAIN old |-> IF new[c] # seen[c] THEN new[c] ELSE old[c]]

\* Mutant: the prior skills are deleted after the new ones were inserted.
DeletedLast(t) == (skills \cup t.inserts) \ t.deletes

\* What is left of the skills when the transaction commits.
Replaced(t) == (skills \ t.deletes) \cup t.inserts

SessionAfter(j, v) == IF j.kind = "grade" THEN "graded" ELSE v

Commit(w) ==
  /\ pc[w] = "commit"
  /\ LET t == txn[w]  j == job[w] IN
       /\ resume' = Written(resume, t.seen, t.row)
       /\ skills' = Replaced(t)
       /\ sessions' = IF j.of = Nobody THEN sessions
                      ELSE [sessions EXCEPT ![j.of] = SessionAfter(j, t.verdict)]
  /\ Rollback(w)
  /\ Goto(w, "idle")
  /\ UNCHANGED <<upload, bill, queue, job, faults>>

\* Mutant: one attempt too many.
MayRetryOnceMore(j) == j.tries <= MaxRetries

MayRetry(j) == j.tries < MaxRetries

\* _with_retries: another attempt later, or the end of them.
Retry(w) ==
  /\ pc[w] = "raised"
  /\ IF MayRetry(job[w])
     THEN /\ queue' = queue \cup {[job[w] EXCEPT !.tries = @ + 1]}
          /\ Goto(w, "idle")
     ELSE UNCHANGED queue /\ Goto(w, "give_up")
  /\ UNCHANGED <<upload, rows, bill, lock, job, txn, faults>>

\* Mutant: a session given up on is left as it is.
LeftAlone(s) == sessions

\* give_up_session.
GivenUp(s) == [sessions EXCEPT ![s] = "failed"]

\* give_up_session, and give_up_resume up to its guard.
GiveUp(w) ==
  /\ pc[w] = "give_up"
  /\ IF job[w].kind = "parse"
     THEN /\ txn' = [txn EXCEPT ![w].seen = resume]
          /\ Goto(w, IF IsParsed(resume) THEN "idle" ELSE "write_off")
          /\ UNCHANGED sessions
     ELSE /\ sessions' = GivenUp(job[w].of)
          /\ Goto(w, "idle")
          /\ UNCHANGED txn
  /\ UNCHANGED <<upload, resume, skills, bill, lock, queue, job, faults>>

\* give_up_resume's UPDATE waits for the row as any other does.
WriteOff(w) ==
  /\ pc[w] = "write_off"
  /\ MayLock(w)
  /\ resume' = Written(resume, txn[w].seen, [status |-> "failed", reason |-> "given"])
  /\ txn' = [txn EXCEPT ![w] = NoTxn]
  /\ Goto(w, "idle")
  /\ UNCHANGED <<upload, skills, sessions, bill, lock, queue, job, faults>>

\* An exception nobody expected, or a ledger that refuses its row, ends the task;
\* the sweep sends a session's job again, nobody a resume's.
Raises(w) ==
  /\ pc[w] \in {"parse", "ask", "grade"}
  /\ Fault
  /\ lost' \in {lost, lost + 1}
  /\ Rollback(w)
  /\ queue' = IF job[w].kind = "parse" THEN queue
              ELSE queue \cup {Job(job[w].kind, job[w].of)}
  /\ Goto(w, "idle")
  /\ UNCHANGED <<upload, rows, spent, job>>

\* A killed worker's message is delivered again.
Dies(w) ==
  /\ pc[w] # "idle"
  /\ Fault
  /\ lost' \in {lost, IF pc[w] \in {"parse", "ask", "grade"} THEN lost + 1 ELSE lost}
  /\ Rollback(w)
  /\ queue' = queue \cup {job[w]}
  /\ Goto(w, "idle")
  /\ UNCHANGED <<upload, rows, spent, job>>

Work(w) ==
  \/ Flush(w) \/ Parsed(w) \/ Unreadable(w) \/ Asked(w) \/ Busy(w)
  \/ Commit(w) \/ Retry(w) \/ GiveUp(w) \/ WriteOff(w)

Next ==
  \/ Store \/ Insert \/ Publish
  \/ \E s \in Sessions : Check(s) \/ Create(s) \/ Finish(s)
  \/ \E w \in Workers : Take(w) \/ Work(w) \/ Raises(w) \/ Dies(w)

Spec == Init /\ [][Next]_vars

\* Requests and tasks run to their end, and messages are taken.
FairSpec ==
  /\ Spec
  /\ WF_vars(Store \/ Insert \/ Publish)
  /\ \A s \in Sessions : WF_vars(Create(s))
  /\ \A w \in Workers : WF_vars(Work(w)) /\ WF_vars(Take(w))

-----------------------------------------------------------------------------
\* Properties

\* Whoever parses, and however often, the resume's skills are those of one parse
\* (parse_resume: "replace any prior skills so a re-parse is clean").
SkillsOfOneParse == Cardinality(skills) <= 1

\* A parsed resume has its skills, and `parsing` is nobody else's business.
ParsedHasSkills ==
  /\ resume.status # "parsing"
  /\ resume.status = "parsed" => skills # {}

\* Questions are only ever written for a resume some parse of which was committed,
\* also when that parse was made and undone on the way.
ReadyHasSkills == \A s \in Sessions : sessions[s] \in {"ready", "graded"} => skills # {}

\* Every paid call is in the ledger, rolled back attempts included, but for one
\* that a fault hit between the call and its row.
LedgerKeepsUp == lost <= faults

\* What holds of the committed rows whatever the tasks are doing: a resume and its
\* skills belong together, no session goes ahead of them, no paid call goes unbooked.
ResumeInv == TypeOK /\ SkillsOfOneParse /\ ParsedHasSkills /\ ReadyHasSkills /\ LedgerKeepsUp

\* A session is prepared or fails although its resume's own job was lost.
SessionsSettle ==
  \A s \in Sessions : sessions[s] = "waiting" ~> sessions[s] \in {"ready", "failed"}

\* The reason shown is that of the state shown (parse_resume: "a retry succeeded;
\* clear the old reason").
ParsedHasNoReason == resume.status = "parsed" => resume.reason = "none"

\* What pipeline.py says of everything it waits for: an uploaded resume is parsed
\* or has failed in the end.
ResumeSettles == upload = "done" ~> resume.status \in {"parsed", "failed"}

\* What budget.py says of the cap: it is overshot by one interview's grading.
OvershootIsOneGrading == spent <= Cap + MaxRetries + 1

=============================================================================
