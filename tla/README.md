# InterviewIQ in TLA+

A verification development kept beside InterviewIQ. TLA+ models cover the session
from its creation to its human review, the resume and what calls cost, the stack a
model call goes through, grading, the knowledge base and what questions cite of it,
spoken answers, and the interview page in the browser. TLC checks them on small
instances, and TLAPS proves every invariant and action property the runs check, and the
safety part of the two refinements, for any number of workers, requests, questions, recruiters,
files, lines, passages, keys, models, tabs, replies, re-runs and faults; four properties of
the session, which hold only where one runs at a time, for one worker and one request.

Paths are relative to the repository; `app/` stands for `src/backend/app/`.

## 1. The system and its components

A browser talks to a FastAPI application over PostgreSQL. Work that calls a
language model is put on a Redis queue and done by Celery workers. Every API
request and every task attempt is one database transaction at READ COMMITTED
(`app/db/session.py`, `_run` in `app/workers/tasks.py`), with two deliberate
exceptions: `create_session` and `finish_session` commit before they publish,
and the token ledger commits on its own.

| Component (code) | State it keeps | Operations | Model |
|---|---|---|---|
| session state machine (`services/session_service.py`) | `state`, `failure_reason`, `expires_at` | `can_transition`, `transition`, `is_expired`, `maybe_expire` | `SessionMachine` |
| candidate session API (`routes/sessions.py`) | session row, answers | create, read, start, submit, finish, report | `InterviewSession`; `Page` has the same routes as the server of one page. Partly: authentication and list fields are left out |
| question generation (`pipeline.py: generate_questions`) | questions, session row | lock, ask the model, write, or FAILED | `InterviewSession`; the resume in it is `Resume`, what the prompt shows is `Grounding`. Partly: no prompt text |
| grading and report (`build_report`, `evaluate_answer`) | evaluations, report, session row | one transaction, savepoints around inserts that may lose | `InterviewSession` |
| tasks, retries, broker (`workers/`) | messages, retry counts | publish after commit, late ack, redelivery, retry, give up | `InterviewSession`, `Resume`. Partly: no route dispatches `evaluate_answer_task` |
| stale-session reaper (`claim_stale_sessions`, `main.py`) | `updated_at` | claim, re-dispatch | `InterviewSession` |
| human review (`override_evaluation`, `rebuild_report`) | evaluations, report, session row | override, rebuild, complete | `Review` |
| report reading and PDF (`session_detail`, `reports.py`, `report_pdf.py`) | none | show a session, its report, its PDF | `Review`. Partly: no study links, integrity lines or layout |
| report numbers (`summarize`) | none | rollup | `Review`. Partly: the rollup only |
| resume upload and parsing (`routes/resumes.py`, `parse_resume`) | resume row, skills, stored file | upload, parse, parse again inside generation, give up | `Resume` |
| token budget and ledger (`budget.py`, `ledger.py`, `_meter`) | ledger rows | check on create, charge in tasks | `Resume` (when), `Providers` (what a row says) |
| provider stack (`providers/`) | key pool, cooldowns, breaker, cache | cache, retry, repair, model fallback, key rotation | `Providers`, which implements `ModelCall` |
| two-pass grading (`grading.py`, `scoring.py`) | none | grade, align, reconcile, re-run and median | `Grading` |
| chunking (`chunking.py`) | none | sections, blocks, windows | `Chunking` |
| knowledge base and citations (`kb_ingest.py`, `citations.py`, `rag_check.py`) | documents, chunks, cited ids | ingest, guard, resolve | `Library` |
| retrieval, job matching, grounding (`retrieval.py`, `job_match.py`, `grounding.py`) | none | match, fuse, pack, cite | `Grounding` |
| voice answers (`routes/voice.py`, `whisper.py`, `dictation.py`, `voice-recorder.tsx`) | transcripts, transcription slots | record, transcribe, keep, measure | `Voice` |
| prompt safety and integrity signals (`prompt_safety.py`, `integrity.py`) | none | search a text, assess an answer | `Grading`, `Voice`. Partly: the patterns that need more than one place of a text |
| interview page (`page.tsx`, `lib/poll.ts`, `lib/api.ts`, `lib/use-user.ts`) | what is shown, polls, tokens | poll, retry writes, recover from 409, refresh, sign out | `Page`; answer box and recorder in `Voice` |
| evaluation harness, command line | none | threshold sweep, ingest, check | Partly: `Grading` (sweep), `Library` (ingest, check) |
| accounts; migrations, tests, load test | | | not modelled (section 8) |

How they interact:

- The API publishes `generate_questions` (on create) and `build_report` (on
  finish) **after** its commit; between the two is a window in which a crash or a
  refused publish loses the job. The reaper finds sessions whose `updated_at` is old
  and publishes again, so a job may also run twice. Nothing looks for resumes.
- A worker acknowledges a message after the work (`task_acks_late`), so a crash
  redelivers work that may already be committed.
- A row is read, decided on, and written back at commit. There is no version
  column and no `SELECT ... FOR UPDATE`, SQLAlchemy writes only the columns that
  changed, and PostgreSQL makes an UPDATE wait for the row's open writer. So
  decisions are made on copies, and stale ones are written over newer rows.
- The sessions of a candidate share the resume's row, its skills and the daily
  budget. The workers share the cache of model answers; each keeps its own breaker,
  key pool and cooldowns.
- Human review starts from what `build_report` committed and runs through the
  API, concurrently with other recruiters but never with the pipeline
  (the report exists, so `build_report` returns at once). Whoever looks at the session
  or its report meanwhile reads it in several selects, between which overrides commit.
- The page learns what the server does only by polling, and sends again what it does
  not know to have arrived. All its requests share one refresh of the access token.

What makes each part correct, and what is hard to test about it, is the list of
hazards in `PROJECT.json`: each is at the line where it bites and names the
properties that guard against it, or says why none can.

## 2. Modules

| Module | What it is |
|---|---|
| `SessionMachine` | constant module: the edge table and the operators of `SessionService` on a row |
| `Interview` | abstract: the promise to the candidate, six moves and `Answer`, no transactions |
| `InterviewSession` | one session end to end: requests, workers, queue, row locks, reaper, faults; implements `Interview` |
| `InterviewSessionProofs` | its theorems, for any number of processes; then those for one worker and one request at a time, the implementation of `Interview` among them |
| `Review`, `ReviewProofs` | overrides by concurrent recruiters, what others are shown meanwhile, and its theorems |
| `ModelCall` | abstract: a call of the model settles after a bounded number of requests, in one of four ways |
| `Providers`, `ProvidersProofs` | one worker's stack around a call, and its theorems; implements `ModelCall` |
| `Resume`, `ResumeProofs` | one resume, the sessions prepared from it, the cap and the ledger, and its theorem |
| `Grading`, `GradingProofs` | one answer graded, attempt by attempt, and its theorems |
| `Chunking` | a document split into passages, as functions of its lines |
| `Library` | files, ingestions that may overlap, and the citations stored meanwhile |
| `Grounding` | from the requirements to the chunk ids of a question |
| `KnowledgeProofs` | the theorems of these three, and what they need of sequences, orders and recursions |
| `Voice`, `VoiceProofs` | tabs, their connections, clips, transcripts and what an answer's telemetry makes of them, and its theorems |
| `Page`, `PageProofs` | the interview page against the server, over a lossy network, and its theorems; uses `SessionMachine` |
| `MC*` | constants and symmetry sets for TLC |

Operators whose comment says "Mutant", or that state a rule the code does not have,
are plausible bugs, defined next to the definition they would replace; nothing in a
specification uses them. They serve to confirm that each property really depends on
the code it is about (`PROJECT.json`, "mutants"). Invariants of one module that are
about the same state are conjunctions of named parts (`ResumeInv`, `PageInv`, ...);
the parts carry the statements.

`ModelCall` is where the modules meet: its four outcomes are what `InterviewSession`
and `Resume` choose from when a task calls the model (an answer; a transient error,
`Retry` and `Busy`; a final one, `GenFail` and `Unreadable`; an exception without a
name, `TaskRaises` and `Raises`). `Chunking` says what `Library` calls the passages of
a content, and `Grounding` which passages `Library` lets a question ask for.

### `InterviewSession` against the code

| Model | Code |
|---|---|
| `row` (state, reason, deadline) | `InterviewSession.state`, `.failure_reason`, `.expires_at`; the reason by its origin, the deadline as not set, ahead, passed |
| `fresh` | `updated_at` against the reaper's cutoff |
| `gen` | how often the questions were written; a rewrite gives them new ids, so rows that refer to an older generation fail their foreign key |
| `answers`, `evals`, `reports` | the committed rows; an evaluation by its `needs_review`, a report by the answers it covers |
| `lock` | the session row updated and not committed by a task |
| `queue` | messages by kind and retry count; order between messages is not kept, which allows more than the broker does |
| `pc`, `seen`, `dirty`, `want`, `asked` | a handler's place, the row it loaded, the object to be flushed, the answer it carries and the question it found |
| `job`, `work` | the unacknowledged message; the local variables and uncommitted inserts of a `build_report` attempt |
| `GetLoad`, `StartLoad`, `SubmitLoad`, `FinishLoad` | a handler up to its last read; `Save`, `Submit`, `FinishSave` are its writes and commit; `Publish` is the dispatch after it |
| `TakeGenerate`, `GenLock`, `GenReady`, `GenFail` | `generate_questions`: guard on the row as read, the flush of PARSING that takes the row, the commit of READY or of FAILED |
| `GenBreaksOff` | a question that cites an invented label (`chunk_ids_for`): FAILED is committed with the old questions deleted and some new ones written |
| `TakeBuild`, `BuildLoad`, `BuildRead`, `ReadAnswers`, `LookUp`, `InsertEvaluation` | `build_report`'s existing-report check, the select of the session, that of its questions, and its loop; each answer is looked up, sent for grading and inserted under the unique index |
| `BuildSettles`, `BuildLoses`, `BuildRaises` | the report inserted with the transition; the IntegrityError branch; IllegalTransition or a vanished answer |
| `Retry`, `GiveUpRead`, `GiveUpWrite` | `_with_retries` and `give_up_session` |
| `TaskRaises`, `WorkerDies`, `RequestDies`, `DeadlockVictim`, `ReasonTooLong` | exceptions that are not retried, a killed worker (message redelivered), a killed API, a PostgreSQL deadlock, an error text that does not fit `failure_reason` |
| `ReapRead`, `ReapClaim`, `Publish(w, k)` | `claim_stale_sessions`, its commit and the `.delay` it leads to |
| `GrowStale`, `DeadlinePasses` | time |

Abstractions. The model's answer to a prompt is a choice: an answer, a transient
error (`Retry`), a permanent one (`GenFail`, `GenBreaksOff`, `ReasonTooLong`) or anything
unexpected (`TaskRaises`). A refused request (409, 404) is a stuttering step,
because `get_db` rolls back whatever it had changed. Which of its questions a
generation that broke off had written is left open: one that is missing is one nobody
answers or grades, and no step waits for all of them. Two statements of one
transaction are one step when nothing another process does in between can be
told apart.

### `Review` against the code

An override is `Load` (the evaluation), `FlushOverride` (its UPDATE, which waits
for another writer of that evaluation), `ReadReport`, `ReadRows` (the select of
all the session's evaluations, one's own flushed change among them),
`FlushReport` (which waits for another writer of the report) and `Commit`; it may
`Abort` anywhere. Only changed columns are written (`Written`). Scores are small
naturals and the report's overall is their sum, which tells apart what the mean
and the rounding of `summarize` would.

A reader is `OpenDetail` (`session_detail`, which goes on to `ReadAnswers`) or
`OpenReport` (`get_report`, `get_report_pdf`, `session_report_pdf`), then `ReadNumbers`
and `ReadLabel` (`was_human_reviewed`), each a select that sees what is committed by
then; `view` is what it has to show. `edited` is a history variable, of which a reader
notes whether the report it read, or its session, was an override's work.

### `Resume` against the code

| Model | Code |
|---|---|
| `upload`, `Store`, `Insert`, `Publish` | `upload_resume`: budget, size and type, text extraction and storage; the row; the message after the commit |
| `Check`, `Create`, `Finish` | `create_session` with `require_budget` and its publish, `finish_session`; that the reaper repeats a lost publish is `InterviewSession`'s |
| `Take`, `Flush` | the task's load and guard; `parse_status = PARSING` flushed, which takes the row until the transaction ends |
| `Parsed`, `Unreadable`, `Asked`, `Busy` | the model's answer in `parse_resume`, `generate_questions`, `build_report`: an answer, a final error, a transient one |
| `txn.deletes`, `txn.inserts` | the skills deleted (those visible) and inserted |
| `Commit` | changed columns only (`Written`), and the skills |
| `Charged` | the ledger's row, committed on its own |
| `Retry`, `GiveUp`, `WriteOff` | `_with_retries`, `give_up_session`, `give_up_resume` |
| `Raises`, `Dies` | an unexpected exception, a killed worker |

### `Providers` against the code

| Model | Code |
|---|---|
| `Ask`, `Hit`, `Miss` | `_complete_metered`, `CachingProvider.complete`; only temperature 0 is looked up or stored |
| `Admit`, `FailFast`, `opened`, `failures` | `CircuitBreakerProvider` |
| `Attempted` | `RetryingProvider`: only what it lists as retryable in process |
| `Opening`, `Asked(m)`, `tired` | `GeminiProvider.complete`: the chain of models, those in cooldown last |
| `Acquire`, `Exhausted`, `Limited`, `benched`, `rr` | `_execute` and `KeyPool` |
| `NextModel`, `Answers`, `Breaks` | the statuses, and `RepairingProvider`'s second question |
| `RowOf` | `_meter`: status, charge, and the model of `answered_by` |
| `KeyRests`, `ModelRests`, `ResetElapses` | the cooldowns; a time is still running or has run out |
| `ProcessDies` | a killed worker forgets all but the shared cache |

`past` is a history variable: no step reads it.

### `Grading` against the code

`First` is the temperature-0 pass with `align_coverage`, `llm_score` and the search
for injected instructions in the model's evidence; `Rerun` is a re-run, of which only
the score is kept, `RerunUnusable` one that stops them; `FirstUnusable` the fallback to the
embedding; `Conclude` is `reconcile` with the cap an injection puts on it; `Raises`
and `Again` are the task's retry, which starts over. Scores are multiples of a
`Scale`-th, chosen so that every mean is exact. A text is a sequence of the tokens the
patterns of `prompt_safety` tell apart. `Resweep` is what `sweep_coverage_threshold`
makes of stored runs. `FlatTo` and `Nth` say the flattened text and the sorted runs
without the sequence operators the provers cannot expand.

### `Chunking`, `Library`, `Grounding` against the code

`Chunking` is `chunk_markdown` as operators. `_sections` and `_blocks` are one loop over
lines with different cuts, `Runs`: what is under way (`current`) ends at a line that cuts
(`Cut`) and at the end, and is dropped when nothing is left of it (`Flush`). `Sections` cuts
at headings, `Blocks` at blank lines, each outside a fence as it tracks it (`FencesFrom` the
section's first line, as `_blocks` starts anew). `Fill` is one round of `_windows`, `Carry` its
overlap. A run is told by its first and last number, a window by its first and last block.
The state machine only writes the document, line by line. `_sections`, `_blocks` and
`_windows` are recursive functions, because that is what the proofs can unfold.

`Library`: `Start` is `ingest_kb` up to its guard, which is never asked again; `Read` one
round of its loop up to the select of the document (skipping it if the hash is the one read
and nothing is forced), `Rewrite` the rest of the round (columns that differ from those
loaded, delete, insert), `Commit` and `Fail` the transaction of one command. No lock and no
document keeps two commands apart (`cli.py:172`), so `Ingestions` of them run at once. What
the database does is what `Rewrite` may rely on: an UPDATE or DELETE waits for a row's
open writer, which `Rewrite` says of the file as a whole; a document has one row
(`models/knowledge.py:36`) and one chunk at each ordinal (`:77`), so an insert that meets
another's fails, which `Rewrite`'s guard and `Fail` say together. A forced run that sets the
hash it loaded emits no UPDATE, and then it is its DELETE that waits: it deletes
the rows it saw, and its inserts collide with those committed meanwhile (`Fail`); a DELETE
that begins after that commit replaces them.
Files have no variable: authors change them at any time, so each reading finds any
content, and the read of a file and the select of its document, between which only that
could happen, are one step. One that is missing, refused or empty is `Fail`. The order of
files, which is only that of the loop, is left open. `Ask`, `Store`, `Grade` are a question
shown its chunks, stored with their ids, and graded against what they resolve to. `alone`
is a history variable: no other ingestion has changed the tables since this one began.

`Grounding`: `Match` is `job_match.match` with its gaps, `Retrieve` one `search` (any two
ranked lists the database may return, reciprocal rank fusion, the floor), `Build` is
`build_context`, `Question` is `chunk_ids_for` on the labels of one question. A sort
(`InOrder`) is the sequence its key allows, a key that leaves ties unordered being completed
by the position Python's stable sort keeps. The round robin is one look at a passage after
the other (`Look`, `InTurn`): the n-th goes to the n-th search modulo their number and takes
its passage unless it was taken before; the first that does not fit ends the packing.

### `Voice` and `Page` against the code

`Voice`: `Record`, `Stop`, `Deliver` are `voice-recorder.tsx`, and `Drop` its `catch` and
`finally` when the connection fails: the recorder is idle, and can record again, while the
server goes on. So a request lives on a `line`, a recorder is on one line at a time, and
`Drop` puts it on a fresh one. `Refuse`, `Admit`, `Run`, `Transcribed`, `RunRaises`,
`Commit` are `transcribe_answer` and the transcriber's semaphore; `Type`, `Paste`, `Copy`,
`Erase`, `Send`, `LoadQuestion` are the answer box, in which a piece may come in, or be
taken out, anywhere. `page.keys` are the keystrokes since the question was loaded, those of
text that is gone and those that took it out included, as `countsAsKeystroke` counts. The
box cannot change between `Send`, where the page takes the text, and `Submit`, except that
a draft may still come in: that allows a few more answers than the page sends. `Submit`
measures with `DictatedChars` (the recursion of `SequenceMatcher.get_matching_blocks`, its
runs added up where they are long enough to count), and `Signals` is `assess_answer`.

| `Page` | Code |
|---|---|
| `page`, `page.op` | the page's state; the call its handler awaits |
| `polls`, `Restart`, `Effect`, `KeepWaiting` | the polling effect and its cleanup: the signal stops the loop, not the check under way, which becomes "old" |
| `PollSettles`, `PollAgain`, `PollGivesUp`, `PollAborts` | `pollUntil` and its callbacks |
| `SignedIn`, `Loaded`, `QuestionLoaded`, `Shown`, `Accepted`, `Retried`, `Failed` | the continuations of `use-user.ts`, of the load effect, of `loadQuestion`, of the handlers, `retryTransient`, `recoverFrom` |
| `Unauthorized`, `RefreshWorks`, `RefreshDrops`, `RefreshDenied` | `lib/api.ts`: one refresh awaited by all, its three ends |
| `Left` | the page is unmounted, without a user (`session-provider.tsx:42`) or for the report, and what is in its box is gone |
| `GetSession` ... `FinishSession`, `Respond` | the routes, whose answer may be lost |
| `Work`, `SecondTab`, `DeadlinePasses` | the rest of the system; each clock passes the deadline on its own |

React runs the effects of what it shows before the next event: `Rendered` guards every
handler and callback.

## 3. Runs

| Run | Instance | What it shows |
|---|---|---|
| `session_solo` | 1 worker, 1 request at a time, 2 questions, 1 retry, 1 fault | `KeepsPromise` (refinement of `Interview`), `EveryAnswerIsGraded`, `VerdictMatchesGrades`, `FailuresAreExplained`, and `NeverStuck` under fairness |
| `session_pool` | 2 workers, 1 request, 2 questions, error texts of any length | what two workers cannot break: `PreparationIsInvisible`, `GradesComeWithReport`, `QuestionsComeFirst`, `GradingIsExclusive`, `ReportIsWrittenOnce`, `NoAnswerScoredTwice` |
| `review` | 2 recruiters and 1 reader of whom 2 at once, 2 evaluations, 2 scores | `ViewsAreTrue`, `OverrideIsReported` |
| `providers` | 2 keys, 2 models, 1 prompt, 1 in-process retry, breaker at 2 | `KeepsContract` (refinement of `ModelCall`, liveness included), `LimitedMeansEveryKey`, `BusyIsRetryable`, `ProvidersInv` |
| `resume` | 2 workers, 2 sessions, 1 task retry, 1 fault | `ResumeInv`, and `SessionsSettle` under fairness |
| `grading` | 4 questions, replies of up to 3 entries, 2 re-runs, threshold 1/4 | `GradingInv`, `TrustIsAnchored`, `NoTrustAfterInjection`, `NoNeedlessReview`, `SweepKeepsTheGrade` |
| `chunking` | every document of up to 6 lines, three levels of headings, windows of 2 tokens, overlap 1 | `CutWhereAllowed`, `TrailIsAncestors` |
| `library` | 2 files, 2 contents of one and two passages, 2 models, 2 ingestions at once, 1 question of 1 source, 4 chunk ids | `LibraryInv`, `CitationsNeverLie`, `IngestIsCareful` |
| `grounding` | 2 requirements, 1 skill, 3 passages, 2 levels of similarity, top 2 | `GroundingInv`, `FusionKeepsDominance`, `BudgetIsShared` |
| `voice` | 2 tabs with a spare connection, 2 questions, 1 clip per question, 1 slot, 2 recordings | `VoiceInv`, `HonestIsNotFlagged`, `PasteIsFlagged` |
| `page` | 2 questions, 1 lost call or failed refresh, one expiry of the token | `PageInv`, `DraftsAreKept`, and `WaitsEnd` under fairness |
| `answer_lost` | 1 worker, 2 requests | expected to fail: an accepted answer missing from the report (section 6) |

`session_solo` is the installation on Render: `scripts/render-start.sh` starts the
worker with `--pool=solo`; one request at a time is what an ordinary candidate
with one tab produces. `session_pool` is the worker of `docker-compose.yml`
(`--concurrency=2`), or any installation whose worker is still busy with a
message that has been redelivered.

### Bounds

| Bound | Stands for | Why it is enough |
|---|---|---|
| `MaxRetries` (sessions, resume) | `TASK_MAX_RETRIES` | 1 gives a first attempt, a retry and a give-up; 0 (pool) lets the very first failure give up next to another worker's success |
| `MaxBacklog` | how many queued jobs the candidate and the reaper may add to | 1 already allows a job in the queue, one in each worker and a publish under way; retries and redeliveries are not bounded by it |
| `MaxFaults` | crashes, lost publishes, lost calls, unexpected exceptions | one fault, at every possible step. The pool run uses 0 to stay small: its duplicates come from the reaper and from a second finish; the proofs cover any number |
| `LongReasons` | whether a permanent error may outgrow its column | both values are run; liveness only holds without |
| `Cap`, `MaxSpent` | the daily budget, and how far spending is counted, in calls | 1 closes the door after the first charge, 2 lets tasks under way go beyond it |
| `NKeys`, `NModels`, `MaxAttempts`, `Threshold` | the configured stack | two of each have a rotation, a fallback, a key benched by the call itself, a retry inside a run of failures; a third repeats the second, and the theorems take any number |
| `MaxReply`, `Reruns` | entries of a reply, re-runs | one more entry than the longest question; 2 re-runs (the default) give medians of one, two and three runs |
| `Scale` | | divisible so that no mean is rounded; 1/4 of it is hit exactly |
| `MaxLines` | lines of a document | six hold a fence with a heading and a blank line in it, or two sections with a window each; the theorems take any length |
| `Ingestions`, `MaxIds`, `MaxSources` | commands under way at once, chunk rows ever written, sources of a question | two runs that read, write and commit the same file in any order, forced or not; four rows are two versions of the longer content, or three of the shorter and a file beside them. The theorems take any number |
| `Levels`, `Pool`, `Budget`, `MaxQuestions` | similarities, candidates, tokens, questions | below and at the floor; one passage that no list has; costs that fit or do not; one question inserted before the one that fails. The theorems take any of them |
| `MaxClips`, `Concurrency`, `MaxSpoken`, `Lines` | the voice limits, recordings, connections | one is where the cap is met by two tabs at once, or by one that drops a clip and sends another, for which there is one connection more than tabs; the theorems take any of them |
| `MaxPieces`, `MaxKeys` | what a box holds typed or pasted, and the keystrokes it has had, in answers' worth of `Chars` | one of each next to two drafts: typed, pasted, or typed and erased and then pasted; the theorems take any |
| `Drafts`, and one token expiry, in `page` | texts tried for a question | what is lost or misplaced does not depend on the text; `AccessExpires` is for the token the page was opened with |
| page: an older aborted check is forgotten; no check outlasts the wait after its own | | two polls overlap only while a check takes longer than the page takes to come to the next waiting screen; three would need one longer than a whole wait, and a check is given up by the browser before that |
| scores, evaluations, recruiters in `review` | | two flagged answers and two recruiters are what every lost update between overrides needs |
| `MaxBusy` | requests that run at once in `review` | two overrides, or an override and a reader: readers write nothing, and an override that ended before another began cannot be told from one run by the same recruiter. The theorems take any number |

Deadlock checking is off where the system really stops: an interview that nobody
continues, or that has ended; a resume whose tasks are done; a grade that is stored; a
document of full length; a library at its last chunk id; questions that are stored;
clips that are used up; a page that was left. It is on for `review` and `providers`,
where there is always something to do.

### Fairness

`InterviewSession!FairSpec` assumes of the installation, and of nobody else:

- weak fairness of every step of a task that has started (`Progress`) and of a
  request handler that has started (`Respond`): both run to their end;
- strong fairness of taking each kind of message: Redis lists are first in, first
  out, so a message does not wait for ever, although a worker may be busy with
  other ones whenever one looks;
- strong fairness of `ReapRead`: a sweep is sent every five minutes
  (`celery_app.py`, `main.py`) through the same queue;
- weak fairness of `GrowStale`: time passes.

`Providers!FairSpec`: a call under way goes on (`Proceed`); cooldowns need not end.
`Resume!FairSpec`: requests and tasks that have started run to their end, an admitted
session's message is sent (in the full system by the reaper at the latest), and
workers take messages. `Page!Fairness`: requests are answered or lost, their answers are
handled, effects run, and the worker ends what it began, which is what `NeverStuck` says of
it. Nothing is assumed of the candidate, of the provider's answers or of the clocks.
Faults may happen at most `MaxFaults` times, which is what "eventually no more crashes"
amounts to.

## 4. What the properties say

**Sessions**, for any number of workers and requests:

- `PreparationIsInvisible`: PARSING and GENERATING_QS never reach anyone else.
- `GradesComeWithReport`: a failed, retried, killed or deadlocked grading attempt
  leaves none of its grades behind.
- `QuestionsComeFirst`: a session past its preparation is one whose questions were
  written. (A second worker's generation that breaks off late may still take some away;
  the row it writes says FAILED, and a request that had loaded READY may write
  IN_PROGRESS over that.)
- `ReportIsWrittenOnce`, `NoAnswerScoredTwice`: the README's "a job that is retried
  or delivered twice can never score an answer twice".

For one worker and one request at a time only:

- `KeepsPromise`: answers only while in progress, one report over exactly the
  answers taken, and an ended interview stays ended.
- `VerdictMatchesGrades`, `FailuresAreExplained`, `EveryAnswerIsGraded`.

With more processes these depart from the code's intent (section 6). The departures are
one defect, a decision on a copy of the row written over a newer row, and one remedy
answers them all: a version column, or `SELECT ... FOR UPDATE` where the state decides.

**Review**: no session is COMPLETED over a flagged answer (`CompletedMeansCleared`, a part
of `ViewsAreTrue`) however overrides interleave, because flags only go down; its converse
`ClearedMeansCompleted` does not hold. `ViewsAreTrue` goes on to what anybody is shown:
its selects straddle commits, and it is true only because the state is read before the
answers and the report before the label. Read the other way round, either could be false.
`OverrideIsReported` says that report and state are current after an override
whose reads were still true at its commit, so that only real interference
(`Undisturbed`) can leave the report behind. An override that confirms the score it read
writes no row and so holds none: it counts as undisturbed only if it read that row the
same both times.

**Resume**: `ResumeInv` says that the skills are those of one parse, that "parsed" and
"ready" have skills behind them, and that every paid call is booked unless a fault hit
between the call and its row. It holds although two parses may both decide that there
is something to parse: the row taken by the flush makes the second one delete the first
one's skills. `SessionsSettle` holds even when the resume's own job is lost, because
generation parses again.

**Providers**: `KeepsContract` bounds the requests by attempts x 2 x models x keys, and
says that a call ends. `BusyIsRetryable`: an outage in any disguise never fails for good.
`LimitedMeansEveryKey`: "all keys are rate-limited" is only said when it is true.
`ProvidersInv`: a sampled answer is never served for a deterministic one, the breaker opens on a
run of outages only, a row is free only if nothing was sent and names the model that wrote
a paid answer.

**Grading**: `TrustIsAnchored` and `NoNeedlessReview` are the two sides of the divergence
threshold, for any number of usable re-runs; `NoTrustAfterInjection` is stated with a
reader's notion of a suspicious text, next to the patterns'; `GradingInv` says that a
reply in any order is read by its names and that what was not asked for earns nothing;
`SweepKeepsTheGrade` ties the offline sweep to the grade.

**Chunking**, **Library**, **Grounding**: no line is lost, no fence is cut, a passage exceeds the limit only
by one block and the overlap, its trail is that of its headings; stored passages are
those of whole documents however ingestions overlap, a citation never resolves to what the model was not
shown, and an ingestion that no other one overlaps leaves neither two models in the index
nor a hash that is not that of its chunks (`IngestIsCareful`; overlapping ones may, section 6); a passage that neither retriever
prefers is not preferred by their fusion, the budget goes to gaps first and in turns, and a question
cites what it names. `CitationsNeverLie` rests on ids never being given twice.

**Voice**: `HonestIsNotFlagged` and `PasteIsFlagged` are the two sides of the integrity
signals, the second in the terms of `integrity.py`: keystrokes and speech short of 40%, where
keystrokes of erased text count in the candidate's favour. `VoiceInv` bounds by how much
tabs together, and recorders that lost their connection, pass the cap, gives every slot
back and credits each transcript once.

**Page**: `DraftsAreKept` (while the page stays up, the box is emptied only once its question has an
answer; what takes the page away takes the draft with it, section 6),
`PageInv` (a waiting screen is polled or offers to wait on, whatever an aborted poll still
does; each text goes to the question it was written for; "all answered" is said only when it is
so) and `WaitsEnd`.

## 5. Proofs

All are checked by TLAPS (SMT, Zenon, and LS4 for the temporal steps).

| Theorem | Module | Argument |
|---|---|---|
| `TypeCorrect` | `InterviewSessionProofs` | `TypeOK` is inductive, one lemma per group of actions |
| `ReportWrittenOnce` | `InterviewSessionProofs` | from types: the only step that appends tests `Unreported` in the same commit (the unique index) |
| `GradesWithReport` | `InterviewSessionProofs` | inductive with `TypeOK`: evaluations are only committed by steps after which a report exists, and a report never goes |
| `ExclusiveGrading`, `AnswerScoredOnce` | `InterviewSessionProofs` | `NoAnswerScoredTwice` alone is not inductive: what stops an attempt from overwriting a grade is that its own uncommitted row excludes every other one, which is `GradingIsExclusive`; the theorem follows for each step that writes `evals` |
| `PreparationInvisible`, `QuestionsFirst` | `InterviewSessionProofs` | `PreparationInv` adds that no private copy anybody will write back is in PARSING or GENERATING_QS; `QuestionsInv` adds that no copy is past preparation unless questions exist, which survives because `gen` never goes back |
| `FailuresExplained`, `VerdictFitsGrades`, `EveryAnswerGraded`, `PromiseKept` | `InterviewSessionProofs` | under `OneAtATime` (below). `SoloInv` relates every private copy to the row: a request or task that is about to write the row has loaded it as it still is, or will change nothing; a job that waits or runs was sent in a state the session has not gone back from; and what a `build_report` attempt holds uncommitted are the grades of answers that can no longer grow in number. `PromiseKept` then takes each step to a move of `Interview` or a stutter |
| `TypeCorrect` | `ReviewProofs` | inductive; the overall is a sum over some assignment of scores, so nothing need be known of how sums are computed |
| `ViewsTrue` | `ReviewProofs` | `ClearedInv` adds that an override that read no flag, and sees its own row cleared, still sees none at its commit: flags never go up. `NamedInv`: once an override has changed anything an evaluation names its overrider, and none is ever un-named. `ViewInv` carries both from a reader's earlier select to its later one |
| `OverrideReported` | `ReviewProofs` | `HeldInv`: from its flush to its commit an override holds the row it writes, so nobody else changes it, and what it summed is what it leaves; with `ClearedInv` for the state |
| `ResumeStaysWhole` | `ResumeProofs` | `ResumeInv` is not inductive: whether a parse replaces the skills or doubles them is decided by what it had seen before its commit. `ResumeIInv` adds that a parse holds the resume's row from its flush to its commit and deletes exactly the committed skills, that a transaction without the row writes nothing of the resume, and that a job that leads to questions or grades has skills behind it |
| `LibraryIsWhole` | `KnowledgeProofs` | inductive as `Whole`, of the committed tables and of the ingestion's: a file read anew has the rows of one content under consecutive ids, every other file keeps its own, and no two ingestions hold rows of one file. The count is a bijection between ordinals and rows |
| `CitationsHold` | `KnowledgeProofs` | ids only grow, so no new row takes an id that was cited. `CitationsNeverLie` alone is not inductive: an ingestion under way may hold the row that makes a citation lie, so `Faithful` speaks of `Live`, what is committed and what any ingestion is about to commit |
| `IngestionIsCareful` | `KnowledgeProofs` | committed chunks change at `Commit` only (`OnlyCommitWrites`), and only for the files it wrote. `Careful` says of each ingestion what stays true of the tables until another one commits: for as long as it is `alone`, that the index is of its own model and what it loaded is what is stored; `CarefulOfAnother` is what a commit leaves of that to the others |
| `BudgetShared` | `KnowledgeProofs` | `GroundingIInv`: none of the properties of a prompt is inductive, because the prompt is packed once and asked about later. `Searched` says what is searched for and how far it is, `LastSearch` that the last answer is that of a search in the two lists kept, `Prompted` that the prompt is what `Pack` made of the answers. `PackFacts` is an induction over the looks: whatever was looked at is in the prompt, up to the first passage that did not fit. `SeenInFirstRound`: the first passage of each search is seen before any second one, by the uniqueness of quotient and remainder |
| `DominanceKept` | `KnowledgeProofs` | `DominantIsAhead`: the scores are exact shares of `Common`, which fall strictly with the rank (`ShareFalls`), so a passage no lower in both lists and higher in one has the higher score; `AheadOrders`: score, similarity and position order any two passages, so sorting has one result (`ListedInOrder`) and its beginning is closed upwards (`TopIsClosed`) |
| `GroundingIsSound` | `KnowledgeProofs` | the labels of a question are translated against the prompt it was asked with, which stays (`Prompted`); an unsupported requirement is one whose best skill stays below the threshold (`BestIsReached`), and the gaps list those once each (`GapsFacts`) |
| `PassagesAreCutRight` | `KnowledgeProofs` | the document is a sequence of lines, which is inductive; the rest holds of each. `CutKeeps` and `FillKeeps` are the loop invariants of `_sections` and `_blocks` and of `_windows`: what is done is in order, covers what was seen up to the run under way, and each part obeys the limit. A section begins outside a fence (`SectionIs`), so looking for fences anew finds the document's own (`FencesAgree`): a block cannot begin within one. `DocGrows` joins the sections |
| `TrailsAreRight` | `KnowledgeProofs` | `StackGrows`: while no level is skipped the stack holds one heading of each level from the first, and is what `Ancestors` says of the next line. `NoLevelSkipped` is a hypothesis of the property itself: with a skipped level the trail is wrong (section 6) |
| `LimitedIsTrue` | `ProvidersProofs` | `PassedAreUnusable`: the keys the round-robin pool has gone past since it began with a model are unusable, and there are as many as tries were spent; every one it skips was benched. The argument is the arithmetic of positions modulo the number of keys (`GoneFurther`) |
| `BusyIsWorthAnother`, `StackIsHonest` | `ProvidersProofs` | `StackInv` adds what is known of a call under way (nothing is sent, and nobody named as the writer, before the breaker admits it; the breaker is closed while it runs) and that the breaker knows no more trouble than there was |
| `CallsAreBounded` | `ProvidersProofs` | the safety half of `KeepsContract`: each step of the stack is a step of `ModelCall` or stutters. `Budget` bounds what was sent by the rounds, models and keys used up so far, and starting any of them again costs at most what it bought (`OpeningAffords`, `MostGrows`) |
| `RepliesAreRead` | `GradingProofs` | `GradingIInv` keeps a reply and its coverage together. A named concept is read at the least entry that names it (`NamedOnce`); that what was not asked for earns nothing is an induction over the concepts (`UnaskedIsWorthNothing`), one term of the sum of asked entries for each |
| `TrustAnchored`, `ReviewsHaveACause` | `GradingProofs` | the median lies between two runs, the lower with at most half of the runs above it and the upper with at most half below (`MedianFacts`); what is further off than the median is beyond one of them. Every score is a multiple of four (`WorthIsMark`, an induction over the sum), so the middle of median and embedding is exact |
| `InjectionsAreReviewed` | `GradingProofs` | what a reader sees with line breaks and what the patterns match without is the same text (`SuspiciousIsFound`): the i-th word stands at its rank (`FlatWords`, by induction over the text). `GradingIInv` adds that the kinds found are those of all the attempt has read |
| `SweepAgrees` | `GradingProofs` | `GradingIInv`: a stored grade is what its stored runs come to |
| `CapHolds` | `VoiceProofs` | `Capped` counts, among the connections that have a clip, only those with nothing under way: an admission takes one out of that count at a moment when the cap is not reached, a commit puts it back with its one clip |
| `SlotsComeBack` | `VoiceProofs` | slots and running transcriptions add up to the configured number, and a slot is only taken when there is one |
| `ClipsAndCredits` | `VoiceProofs` | `CreditIInv` next to the above: recordings under way leave room for their numbers (`Room`), each row committed or about to be has a number of its own that tells its question (`Numbered`), and an answer was credited against its own question's transcripts in order (`Answered`). `CreditIsBounded`, an induction over the text: what is matched before, at and after the first match are different drafts, so none counts twice |
| `HonestIsClean` | `VoiceProofs` | `CreditIsFull`, the same induction: drafts that are the question's own and in order are all matched, none is in the way of a later one; what remains was typed at a typist's pace, whatever the lengths |
| `PasteShows` | `VoiceProofs` | `CreditIsBounded`: the credit is at most what was said, once each, so keys and credit together stay below the share whenever keys and speech do |
| `PageStaysTrue`, `DraftsKept` | `PageProofs` | `PageIInv` adds what holds between an event and its handler: a poll that is over has no check out, and one that gave up has outlived the one it replaced; what a reply means still holds when it is read, because the server's row and answers only move on; the question is replaced only by a handler that saw it answered, and the box emptied besides only with the page |

Assumptions, all stated in the modules and evaluated by TLC on each run:
`ProcsAssumption` (finite, disjoint sets of processes, and a name for nobody),
`BoundsAssumption` (the bounds are naturals), `ReviewAssumption` (finite
sets of requests, finite non-empty evaluations, scores that are naturals), `ResumeAssumption` (finite sets,
naturals), `LibraryAssumption` (each content has a sequence of passages; natural
bounds), `GroundingAssumption` (finitely many passages; thresholds and limits that are naturals, `Common`
a multiple of every `RrfK` + rank, such as the product of them all, so that shares are exact),
`ChunkingAssumption` (headings of levels 1 to 6, told apart from the other kinds of lines; limits that are
naturals), `ProvidersAssumption` (at least one key and one model, a breaker that opens on at
least one failure), `PageAssumption` (naturals), `VoiceAssumption` (finitely many
tabs; at least one question, since a page opens on the first; a cap and slots of at least one), `GradingAssumption` (non-empty questions, texts of
the tokens, and a `Scale` that the number of steps of any question divides four times over,
which is what makes the means exact). No theorem limits the number of workers, requests,
retries, faults, files, ingestions, lines, requirements, skills, passages, keys, models, attempts, tabs, clips, pieces of an answer,
concepts, tokens or re-runs; the step of a
reason that does not fit (`ReasonTooLong`) is among those proved about.

`FailuresExplained`, `VerdictFitsGrades`, `EveryAnswerGraded` and `PromiseKept` alone have a hypothesis, `OneAtATime`: no two workers and
no two requests (there may be none). It is the installation of `session_solo`, and it cannot
be dropped: with a second request `answer_lost` refutes `EveryAnswerIsGraded`, and with a
second of either `EvaluatingDoesNotExpire` and `GivingUpSparesTheRest` (section 6) break
the promise. Questions, retries, redeliveries, crashes and lost publishes stay unbounded.

Only model-checked: liveness under fairness and ENABLED, which are out of the prover's
reach: `NeverStuck`, `SessionsSettle`, `WaitsEnd`, and that a call of `KeepsContract` ends.

The library's induction theorems have an operator for a parameter, which no installed
prover instantiates. `GradingProofs`, `VoiceProofs` and `KnowledgeProofs` induct over data
without them: that the naturals are well founded is a fact about sets, so `SetInduction` and
`PartsInduction` say it for a set, and a recursive definition is a `CHOOSE` whose existence
is proved level by level (`SumExists`, `FlatExists`; `DictatesExists`, where every text has
a level and the function is their limit; `Recursion`, once for the lines, blocks and
sections of `Chunking`, and for the `FlattenSeq` of the community modules).

## 6. Where the code and its own words disagree

The run `answer_lost` shows one (**answer lost**, `routes/sessions.py:256`): submit checks
the state on the copy it loaded. Finish, then the grader's read of that question, may
pass before its insert; the 202 is sent and the answer is never graded.

The statements below are definitions of the modules that the code does not keep. No
run checks them; each is violated when added to the instance named, and the
trace is what the code does.

| Statement | Words of the repository | Instance | What happens |
|---|---|---|---|
| `EvaluatingDoesNotExpire` | `session_service.py:24`, "EVALUATING cannot expire" | `answer_lost.cfg` | a read that loaded IN_PROGRESS and noticed the deadline (`sessions.py:54`) writes EXPIRED over EVALUATING |
| `RedeliveredGenerationIsNoOp` | `pipeline.py:250`, "Already prepared ... nothing to do" | `session_pool.cfg` | the guard is read before the lock: READY questions are written again |
| `GivingUpSparesTheRest` | `pipeline.py:665`, "A no-op if the session already moved on" | `session_pool.cfg` | `give_up_session` writes FAILED over what another delivery committed |
| `NeverStuck` | `pipeline.py:364`, "rather than leave the session stuck" | `session_solo.cfg` with `LongReasons = TRUE` | an error text longer than 500 characters (`pipeline.py:366`) cannot be recorded, and the reaper sends the job again for ever |
| `ClearedMeansCompleted` | `session_service.py:28`, "a recruiter has cleared the last flagged answer" | `review.cfg` | two last overrides at once each see the other's flag |
| `NamedRecruiterGaveScore` | `routes/recruiter.py:256` | `review.cfg` | confirming the score on one's page writes one's name over another recruiter's override |
| `OutagesAreRetryable` | `providers/base.py:24`, "connection reset" among the retryable faults | `providers.cfg` | a reset connection has no class of its own and ends the task |
| `WriterIsRecorded` | `pipeline.py:136`, "the model that actually wrote" | `providers.cfg` | an answer of a fallback model, served from the cache, is booked on the configured one |
| `ChargedWasSent` | `pipeline.py:140`, "the prompt (it was sent)" | `providers.cfg` | with every key benched nothing is sent, and the prompt is charged |
| `ParsedHasNoReason` | `pipeline.py:233`, "a retry succeeded; clear the old reason" | `resume.cfg` | a parse that loaded the row before `give_up_resume` wrote its reason does not clear it |
| `ResumeSettles` | `pipeline.py:651`, "Leaving it `pending` makes the UI spin forever" | `resume.cfg` with 1 worker, 1 session | a lost publish leaves the resume pending when no session is created |
| `OvershootIsOneGrading` | `services/budget.py:7`, "one interview's grading" | `resume.cfg` with 1 worker, `MaxRetries = 0`, `Cap = 3`, `MaxSpent = 6`, `MaxFaults = 0` | two sessions admitted together each spend a preparation and a grading |
| `EachConceptGetsItsOwn` | `prompt_safety.py:248`, "re-keyed onto *our* expected concepts" | `grading.cfg` | two concepts that differ in case or punctuation share the first entry; a misspelt one gets what stands in its place |
| `CitationsSurvive` | `citations.py:4`, "must survive a re-ingest" | `library.cfg` | a re-ingest of an edited file deletes the chunks a question cites |
| `ModelsAreNotMixed` | `kb_ingest.py:15`, "Refuses to mix embedding models" | `library.cfg` | the guard is read once: two runs under different models, the second forced or begun before the first commits, leave chunks of both |
| `HashTellsTheChunks` | `kb_ingest.py:10`, "Idempotent by content hash" | `library.cfg` | a forced run that read a file before another run commits an edit of it sets the hash it had loaded, so writes none, and puts the old content's chunks under the new hash, which later runs skip |
| `CapIsKept` | `routes/voice.py:83`, "cap what one question can take" | `voice.cfg`; also with `Tabs = {a}`, `Lines = {a, c}` | two tabs, or one whose connection drops after it sent a clip, have two clips counted before either is committed |
| `MostlyPastedIsFlagged` | `core/config.py:205`, "keystrokes account for less than this share" | `voice.cfg` | typed, erased, then all pasted: the keys of what is gone still count (`integrity.py:76` means it so) |
| `DraftsStayWithTheirQuestion` | `voice-recorder.tsx:64` | `voice.cfg` | a transcript that arrives after the next question has loaded is appended there |
| `NeverBlank` | `page.tsx:220`, "so the page shows the state the server holds" | `page.cfg` with `Count = 1` | the interview was started elsewhere, or the start's answer was lost: IN_PROGRESS is shown with no question, no finish card and no error |
| `DeadlineIsWatched` | `page.tsx:773`, "never a dead end" | `page.cfg` with `Count = 1` | the third wait, for the server to notice the deadline, gives up after two minutes and offers nothing |
| `SubmittedIsSaved` | `page.tsx:636`, "Each answer is saved the moment you submit it" | `page.cfg` with `Count = 1`, `Drafts = {1, 2}` | a submit landed and its answer was lost; the edited text is sent under the same key and dropped |
| `SignedOutMeansRefused` | `api.ts:281`, "The session is genuinely over" | `page.cfg` with `Count = 1` | a refresh answered 5xx, or a lost `/auth/me`, clears the tokens |
| `RefreshKeepsDrafts` | `use-user.ts:37`, of a silent refresh: "it would unmount the page mid-interview and lose the typed answer" | `page.cfg` | a refresh refused by any error clears the tokens (`api.ts:280`), and the page is unmounted with the text in its box |
| `SlowIsTrue` | `page.tsx:212` | `page.cfg` with `Count = 1` | an aborted poll's timeout says "slow" in the wait that follows |

Smaller ones, seen while translating and not stated as formulas: a window can exceed its limit by the
carried overlap (`chunking.py`); headings that skip a level hang under the wrong
parent; `--force` after a change of model re-embeds what is on disk and leaves
orphans' chunks of the old model (`kb_ingest.py:92`); the first passage over the budget
leaves the prompt without any; keyword hits can make a covered query uncovered
(`retrieval.py:249`), which `OnlyKeywordsHideAHit` bounds; an injected instruction echoed in
an attempt that a transient error ends is forgotten by the retry; after its reset the
breaker takes the whole threshold again (`wrappers.py:107`); a question with an invented label ends a generation
in FAILED with the old questions deleted (`pipeline.py:337`); a second tab's answer to
an answered question is dropped with a 202; a second finish is answered 200 until the
report exists, so the 409 that `page.tsx:271` expects comes only then.

## 7. Plan

Done: all modules planned. Next:

1. Larger instances: three keys, a second prompt, a second draft, a second fault on the
   page.
2. Front matter and the parts of reports that the table of section 1 calls partly modelled.

## 8. Not modelled, and why

- **Accounts and tokens**: registration is one insert under a unique index; tokens are
  stateless. What the page makes of a token that ran out is in `Page`.
- **Report reading and PDF**: study links, integrity lines, layout.
- **Migrations, load test, deployment files**: not program logic; the deployment files fix
  the numbers of workers.
- **Other commands** (`cli.py`) and metrics: offline, read-only.
- **Other vendors' providers, embeddings' use of the key pool**: a transport with no
  state of its own; embeddings are chosen as data in `Grading` and `Grounding`.
- **Prompt safety**: fencing of untrusted text and the patterns that match in one place
  are functions of a string.
- Inside the modelled parts: the text of prompts and answers, HTTP details, the form that
  opens a session, and what the database does when it is itself unavailable.
