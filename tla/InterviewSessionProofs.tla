------------------------ MODULE InterviewSessionProofs ------------------------
(***************************************************************************)
(* Theorems about InterviewSession, for any sets of workers, requests,      *)
(* questions and keys, any retry count and any number of faults.           *)
(***************************************************************************)
EXTENDS InterviewSession, TLAPS

-----------------------------------------------------------------------------
(* The row operators stay among rows.                                       *)

LEMMA MovedToType ==
  ASSUME NEW r \in Row, NEW t \in States, NEW why \in Reasons
  PROVE  MovedTo(r, t, why) \in Row
  BY DEF MovedTo, Row, Reasons

LEMMA MaybeExpireType ==
  ASSUME NEW r \in Row
  PROVE  MaybeExpire(r) \in Row
  <1>1. "EXPIRED" \in States /\ "deadline" \in Reasons
    BY DEF States, Reasons
  <1> QED BY <1>1, MovedToType DEF MaybeExpire

LEMMA FlushType ==
  ASSUME row \in Row, NEW old \in Row, NEW new \in Row
  PROVE  Flush(old, new) \in Row
  BY DEF Flush, Written, Row

LEMMA CreatedRowType == CreatedRow \in Row
  BY DEF CreatedRow, Row, States, Reasons, Deadlines

LEMMA NoAttemptType == NoAttempt \in Attempts
  BY DEF NoAttempt, Attempts, NoEvals, EvalRows

LEMMA FreshJobType ==
  ASSUME NEW k \in Kinds
  PROVE  FreshJob(k) \in Jobs
  BY BoundsAssumption DEF FreshJob, Jobs

-----------------------------------------------------------------------------
(* Type correctness.                                                        *)

LEMMA InitType == Init => TypeOK
  <1> SUFFICES ASSUME Init PROVE TypeOK
    OBVIOUS
  <1>1. CreatedRow \in Row /\ NoAttempt \in Attempts /\ NoEvals \in EvalRows
    BY CreatedRowType, NoAttemptType DEF NoEvals, EvalRows
  <1>2. FreshJob("generate") \in Jobs
    BY FreshJobType DEF Kinds
  <1>3. faults \in 0 .. MaxFaults
    BY BoundsAssumption DEF Init
  <1> QED
    BY <1>1, <1>2, <1>3 DEF Init, TypeOK

LEMMA GetLoadType ==
  ASSUME TypeOK, NEW r \in Requests, GetLoad(r)
  PROVE  TypeOK'
  <1>1. MaybeExpire(row) \in Row
    BY MaybeExpireType DEF TypeOK
  <1> QED
    BY <1>1 DEF TypeOK, GetLoad, Goto, tables, Procs

LEMMA StartLoadType ==
  ASSUME TypeOK, NEW r \in Requests, StartLoad(r)
  PROVE  TypeOK'
  <1>1. MovedTo(row, "IN_PROGRESS", "none") \in Row
    BY MovedToType DEF TypeOK, States, Reasons
  <1>2. /\ [row EXCEPT !.deadline = "none"] \in Row
        /\ [MovedTo(row, "IN_PROGRESS", "none") EXCEPT !.deadline = "ahead"] \in Row
    BY <1>1 DEF Row, Deadlines, TypeOK
  <1> QED
    BY <1>2 DEF TypeOK, StartLoad, Goto, tables, Procs

LEMMA SaveType ==
  ASSUME TypeOK, NEW r \in Requests, Save(r)
  PROVE  TypeOK'
  BY FlushType, CreatedRowType DEF TypeOK, Save, Update, Close, Goto, Procs

LEMMA SubmitLoadType ==
  ASSUME TypeOK, NEW r \in Requests, NEW a \in Answers, SubmitLoad(r, a)
  PROVE  TypeOK'
  BY DEF TypeOK, SubmitLoad, Goto, tables, Procs

LEMMA SubmitType ==
  ASSUME TypeOK, NEW r \in Requests, Submit(r)
  PROVE  TypeOK'
  BY CreatedRowType DEF TypeOK, Submit, Close, Goto, Procs

LEMMA FinishLoadType ==
  ASSUME TypeOK, NEW r \in Requests, FinishLoad(r)
  PROVE  TypeOK'
  <1>1. MovedTo(row, "EVALUATING", "none") \in Row
    BY MovedToType DEF TypeOK, States, Reasons
  <1> QED
    BY <1>1 DEF TypeOK, FinishLoad, Goto, tables, Procs

LEMMA FinishSaveType ==
  ASSUME TypeOK, NEW r \in Requests, FinishSave(r)
  PROVE  TypeOK'
  <1>1. seen[r] \in Row /\ dirty[r] \in Row /\ row \in Row
    BY DEF TypeOK, Procs
  <1>2. row' \in Row /\ fresh' \in BOOLEAN
    BY <1>1, FlushType DEF TypeOK, FinishSave, Update
  <1> QED
    BY <1>2, CreatedRowType DEF TypeOK, FinishSave, Close, Goto, Procs

LEMMA PublishType ==
  ASSUME TypeOK, NEW p \in Procs, NEW k \in Kinds, Publish(p, k)
  PROVE  TypeOK'
  BY FreshJobType DEF TypeOK, Publish, Enqueue, Goto, tables, private

LEMMA FaultType ==
  ASSUME TypeOK, Fault
  PROVE  faults' \in 0 .. MaxFaults
  BY BoundsAssumption DEF TypeOK, Fault

LEMMA TakeType ==
  ASSUME TypeOK, NEW w \in Workers, NEW j \in Jobs, Take(w, j)
  PROVE  queue' \in [Jobs -> Nat] /\ job' \in [Workers -> Jobs]
  BY DEF TypeOK, Take

LEMMA RequestDiesType ==
  ASSUME TypeOK, NEW r \in Requests, RequestDies(r)
  PROVE  TypeOK'
  BY CreatedRowType, FaultType DEF TypeOK, RequestDies, Close, tables, Procs

LEMMA TakeGenerateType ==
  ASSUME TypeOK, NEW w \in Workers, NEW j \in Jobs, TakeGenerate(w, j)
  PROVE  TypeOK'
  BY TakeType DEF TypeOK, TakeGenerate, Goto, tables, Procs

LEMMA GenLockType ==
  ASSUME TypeOK, NEW w \in Workers, GenLock(w)
  PROVE  TypeOK'
  BY DEF TypeOK, GenLock, Goto, tables, private, Procs

LEMMA GenReadyType ==
  ASSUME TypeOK, NEW w \in Workers, GenReady(w)
  PROVE  TypeOK'
  <1>1. seen[w] \in Row /\ row \in Row
    BY DEF TypeOK, Procs
  <1> DEFINE parsing == MovedTo(seen[w], "PARSING", "none")
             generating == MovedTo(parsing, "GENERATING_QS", "none")
             ready == MovedTo(generating, "READY", "none")
  <1>2. parsing \in Row
    BY <1>1, MovedToType DEF States, Reasons
  <1>3. generating \in Row
    <2> HIDE DEF parsing
    <2> QED BY <1>2, MovedToType DEF States, Reasons
  <1>4. ready \in Row
    <2> HIDE DEF generating
    <2> QED BY <1>3, MovedToType DEF States, Reasons
  <1>5. row' \in Row
    <2>1. row' = Flush(seen[w], ready)
      BY DEF GenReady
    <2> HIDE DEF ready
    <2> QED BY <1>1, <1>4, <2>1, FlushType
  <1> HIDE DEF ready
  <1> QED
    BY <1>5 DEF TypeOK, GenReady, Release, Goto, private, Procs, NoEvals, EvalRows

LEMMA FailedType ==
  ASSUME TypeOK, NEW w \in Workers
  PROVE  Failed(w) \in Row
  BY MovedToType DEF TypeOK, Failed, States, Reasons, Procs

LEMMA GenFailType ==
  ASSUME TypeOK, NEW w \in Workers, GenFail(w)
  PROVE  TypeOK'
  <1>1. row' \in Row
    BY FailedType, FlushType DEF TypeOK, GenFail, Procs
  <1> QED
    BY <1>1 DEF TypeOK, GenFail, Release, Goto, private, Procs

LEMMA GenBreaksOffType ==
  ASSUME TypeOK, NEW w \in Workers, GenBreaksOff(w)
  PROVE  TypeOK'
  <1>1. row' \in Row
    BY FailedType, FlushType DEF TypeOK, GenBreaksOff, Procs
  <1> QED
    BY <1>1 DEF TypeOK, GenBreaksOff, Release, Goto, private, Procs, NoEvals, EvalRows

LEMMA TakeBuildType ==
  ASSUME TypeOK, NEW w \in Workers, NEW j \in Jobs, TakeBuild(w, j)
  PROVE  TypeOK'
  BY TakeType DEF TypeOK, TakeBuild, Goto, tables, Procs

LEMMA BuildLoadType ==
  ASSUME TypeOK, NEW w \in Workers, BuildLoad(w)
  PROVE  TypeOK'
  BY DEF TypeOK, BuildLoad, Goto, tables, Procs

LEMMA BuildReadType ==
  ASSUME TypeOK, NEW w \in Workers, BuildRead(w)
  PROVE  TypeOK'
  <1> DEFINE next == [work[w] EXCEPT !.todo = IF gen > 0 THEN Questions ELSE {},
                                    !.gen = gen]
  <1>0. next \in Attempts
    BY DEF TypeOK, Attempts
  <1>1. work' \in [Workers -> Attempts]
    <2>1. work' = [work EXCEPT ![w] = next]
      BY DEF TypeOK, BuildRead
    <2> HIDE DEF next
    <2> QED BY <1>0, <2>1 DEF TypeOK
  <1> QED
    BY <1>1 DEF TypeOK, BuildRead, Goto, tables, Procs

LEMMA ReadAnswersType ==
  ASSUME TypeOK, NEW w \in Workers, NEW q \in Questions, ReadAnswers(w, q)
  PROVE  TypeOK'
  <1> DEFINE next == [work[w] EXCEPT !.todo = @ \ {q},
                                    !.batch = IF work[w].gen = gen
                                                THEN {a \in answers : a[1] = q} ELSE {}]
  <1>0. next \in Attempts
    BY DEF TypeOK, Attempts
  <1>1. work' \in [Workers -> Attempts]
    <2>1. work' = [work EXCEPT ![w] = next]
      BY DEF TypeOK, ReadAnswers
    <2> HIDE DEF next
    <2> QED BY <1>0, <2>1 DEF TypeOK
  <1> QED
    BY <1>1 DEF TypeOK, ReadAnswers, tables

LEMMA CountedType ==
  ASSUME NEW t \in Attempts, NEW a \in Answers, NEW g \in Grades
  PROVE  Counted(t, a, g) \in Attempts
  BY DEF Attempts, Counted

LEMMA EvaluatedType ==
  ASSUME TypeOK, NEW a \in Answers, Evaluated(a)
  PROVE  evals[a] \in Grades
  BY DEF TypeOK, EvalRows, Evaluated

LEMMA LookUpType ==
  ASSUME TypeOK, NEW w \in Workers, NEW a \in Answers, LookUp(w, a)
  PROVE  TypeOK'
  <1> DEFINE rest == [work[w] EXCEPT !.batch = @ \ {a}]
             next == IF Evaluated(a) THEN Counted(rest, a, evals[a])
                                     ELSE [rest EXCEPT !.cur = {a}]
  <1>1. rest \in Attempts /\ [rest EXCEPT !.cur = {a}] \in Attempts
    BY DEF TypeOK, Attempts
  <1>2. next \in Attempts
    BY <1>1, CountedType, EvaluatedType
  <1>3. work' = [work EXCEPT ![w] = next]
    BY DEF LookUp
  <1> HIDE DEF next
  <1>4. work' \in [Workers -> Attempts]
    BY <1>2, <1>3 DEF TypeOK
  <1> QED
    BY <1>4 DEF TypeOK, LookUp, tables

LEMMA InsertEvaluationType ==
  ASSUME TypeOK, NEW w \in Workers, NEW a \in Answers, NEW g \in Grades,
         InsertEvaluation(w, a, g)
  PROVE  TypeOK'
  <1> DEFINE rest == [work[w] EXCEPT !.cur = {}]
             next == IF Evaluated(a) THEN Counted(rest, a, evals[a])
                                     ELSE Counted([rest EXCEPT !.mine[a] = g], a, g)
  <1>1. rest \in Attempts /\ [rest EXCEPT !.mine[a] = g] \in Attempts
    <2>1. work[w] \in Attempts
      BY DEF TypeOK
    <2>2. rest \in Attempts
      BY <2>1 DEF Attempts
    <2> HIDE DEF rest
    <2>3. [rest EXCEPT !.mine[a] = g] \in Attempts
      BY <2>2 DEF Attempts, EvalRows
    <2> QED BY <2>2, <2>3
  <1>2. next \in Attempts
    BY <1>1, CountedType, EvaluatedType
  <1>3. work' = [work EXCEPT ![w] = next]
    BY DEF InsertEvaluation
  <1> HIDE DEF next
  <1>4. work' \in [Workers -> Attempts]
    BY <1>2, <1>3 DEF TypeOK
  <1> QED
    BY <1>4 DEF TypeOK, InsertEvaluation, tables

LEMMA EvalsWithType ==
  ASSUME TypeOK, NEW w \in Workers
  PROVE  EvalsWith(w) \in EvalRows
  BY DEF TypeOK, EvalsWith, EvalRows, Attempts

LEMMA ForgetType ==
  ASSUME TypeOK, NEW w \in Workers, Forget(w)
  PROVE  work' \in [Workers -> Attempts]
  BY NoAttemptType DEF TypeOK, Forget

LEMMA RollbackType ==
  ASSUME TypeOK, NEW w \in Workers, Rollback(w)
  PROVE  /\ UNCHANGED tables
         /\ lock' \in Workers \cup {Nobody}
         /\ work' \in [Workers -> Attempts]
  BY ForgetType DEF TypeOK, Rollback, Release

LEMMA VerdictType ==
  ASSUME NEW w \in Workers
  PROVE  Verdict(w) \in States
  BY DEF Verdict, States

LEMMA BuildSettlesType ==
  ASSUME TypeOK, NEW w \in Workers, BuildSettles(w)
  PROVE  TypeOK'
  <1>1. seen[w] \in Row /\ MovedTo(seen[w], Verdict(w), "none") \in Row
    BY VerdictType, MovedToType DEF TypeOK, Procs, Reasons
  <1>2. row' \in Row /\ fresh' \in BOOLEAN
    BY <1>1, FlushType DEF TypeOK, BuildSettles, Update
  <1>3. reports' \in Seq(SUBSET Answers)
    BY DEF TypeOK, BuildSettles, Attempts
  <1>4. work' \in [Workers -> Attempts]
    BY ForgetType DEF BuildSettles
  <1> QED
    BY <1>2, <1>3, <1>4, EvalsWithType DEF TypeOK, BuildSettles, Goto, Procs

LEMMA BuildLosesType ==
  ASSUME TypeOK, NEW w \in Workers, BuildLoses(w)
  PROVE  TypeOK'
  <1>1. work' \in [Workers -> Attempts]
    BY ForgetType DEF BuildLoses
  <1> QED
    BY <1>1, EvalsWithType DEF TypeOK, BuildLoses, Goto, Procs

LEMMA BuildRaisesType ==
  ASSUME TypeOK, NEW w \in Workers, BuildRaises(w)
  PROVE  TypeOK'
  BY RollbackType DEF TypeOK, BuildRaises, Goto, tables, Procs

LEMMA RetryType ==
  ASSUME TypeOK, NEW w \in Workers, Retry(w)
  PROVE  TypeOK'
  <1>1. queue' \in [Jobs -> Nat]
    <2>1. CASE job[w].tries < MaxRetries
      <3> DEFINE again == [job[w] EXCEPT !.tries = @ + 1]
      <3>1. job[w].tries + 1 \in 0 .. MaxRetries
        BY <2>1, BoundsAssumption DEF TypeOK, Jobs
      <3>2. again \in Jobs
        BY <3>1 DEF TypeOK, Jobs
      <3>3. queue' = [queue EXCEPT ![again] = @ + 1]
        BY <2>1 DEF Retry, Enqueue
      <3> HIDE DEF again
      <3> QED BY <3>2, <3>3 DEF TypeOK
    <2>2. CASE ~(job[w].tries < MaxRetries)
      BY <2>2 DEF TypeOK, Retry
    <2> QED BY <2>1, <2>2
  <1>2. pc' \in [Procs -> {"idle", "save", "finish", "submit",
                           "publish_generate", "publish_build",
                           "gen_read", "gen_hold", "build_open", "build_read",
                           "build_loop",
                           "give_up", "give_up_write", "reap", "ack"}]
    BY DEF TypeOK, Retry, Goto
  <1> QED
    BY <1>1, <1>2, RollbackType DEF TypeOK, Retry, tables

LEMMA GiveUpReadType ==
  ASSUME TypeOK, NEW w \in Workers, GiveUpRead(w)
  PROVE  TypeOK'
  BY DEF TypeOK, GiveUpRead, Goto, tables, Procs

LEMMA GiveUpWriteType ==
  ASSUME TypeOK, NEW w \in Workers, GiveUpWrite(w)
  PROVE  TypeOK'
  <1>1. row' \in Row
    BY FailedType, FlushType DEF TypeOK, GiveUpWrite, Update, Procs
  <1> QED
    BY <1>1 DEF TypeOK, GiveUpWrite, Update, Goto, private, Procs

LEMMA AckType ==
  ASSUME TypeOK, NEW w \in Workers, Ack(w)
  PROVE  TypeOK'
  BY CreatedRowType, FreshJobType DEF TypeOK, Ack, Goto, tables, Procs, Kinds

LEMMA TaskRaisesType ==
  ASSUME TypeOK, NEW w \in Workers, TaskRaises(w)
  PROVE  TypeOK'
  BY FaultType, RollbackType DEF TypeOK, TaskRaises, Goto, tables, Procs

LEMMA ReasonTooLongType ==
  ASSUME TypeOK, NEW w \in Workers, ReasonTooLong(w)
  PROVE  TypeOK'
  BY RollbackType DEF TypeOK, ReasonTooLong, Goto, tables, Procs

LEMMA WorkerDiesType ==
  ASSUME TypeOK, NEW w \in Workers, WorkerDies(w)
  PROVE  TypeOK'
  <1>1. queue' \in [Jobs -> Nat]
    BY DEF TypeOK, WorkerDies, Enqueue
  <1>2. FreshJob("generate") \in Jobs
    BY FreshJobType DEF Kinds
  <1> QED
    BY <1>1, <1>2, CreatedRowType, FaultType, RollbackType
    DEF TypeOK, WorkerDies, Goto, tables, Procs

LEMMA DeadlockVictimType ==
  ASSUME TypeOK, NEW w \in Workers, DeadlockVictim(w)
  PROVE  TypeOK'
  BY RollbackType DEF TypeOK, DeadlockVictim, Goto, tables, Procs

LEMMA ReapReadType ==
  ASSUME TypeOK, NEW w \in Workers, ReapRead(w)
  PROVE  TypeOK'
  BY DEF TypeOK, ReapRead, Goto, tables, Procs

LEMMA ReapClaimType ==
  ASSUME TypeOK, NEW w \in Workers, ReapClaim(w)
  PROVE  TypeOK'
  BY CreatedRowType DEF TypeOK, ReapClaim, Goto, Procs

LEMMA TimeType ==
  ASSUME TypeOK, GrowStale \/ DeadlinePasses
  PROVE  TypeOK'
  <1>1. CASE GrowStale
    BY <1>1 DEF TypeOK, GrowStale, private
  <1>2. CASE DeadlinePasses
    BY <1>2 DEF TypeOK, DeadlinePasses, private, Row, Deadlines
  <1> QED BY <1>1, <1>2

LEMMA NextType ==
  ASSUME TypeOK, [Next]_vars
  PROVE  TypeOK'
  <1>1. CASE UNCHANGED vars
    BY <1>1 DEF TypeOK, vars, tables, private
  <1>2. ASSUME NEW r \in Requests, Request(r) PROVE TypeOK'
    <2> r \in Procs
      BY DEF Procs
    <2> QED
      BY <1>2, GetLoadType, StartLoadType, SaveType, SubmitLoadType, SubmitType,
         FinishLoadType, FinishSaveType, PublishType, RequestDiesType DEF Request
  <1>3. ASSUME NEW w \in Workers, Generate(w) PROVE TypeOK'
    BY <1>3, TakeGenerateType, GenLockType, GenReadyType, GenFailType, GenBreaksOffType
       DEF Generate
  <1>4. ASSUME NEW w \in Workers, Build(w) PROVE TypeOK'
    BY <1>4, TakeBuildType, BuildLoadType, BuildReadType, ReadAnswersType, LookUpType,
       InsertEvaluationType, BuildSettlesType, BuildLosesType, BuildRaisesType DEF Build
  <1>5. ASSUME NEW w \in Workers, Settle(w) PROVE TypeOK'
    BY <1>5, RetryType, GiveUpReadType, GiveUpWriteType, AckType, TaskRaisesType,
       ReasonTooLongType, WorkerDiesType, DeadlockVictimType DEF Settle
  <1>6. ASSUME NEW w \in Workers, Reap(w) PROVE TypeOK'
    <2> w \in Procs
      BY DEF Procs
    <2> QED BY <1>6, ReapReadType, ReapClaimType, PublishType DEF Reap
  <1> QED
    BY <1>1, <1>2, <1>3, <1>4, <1>5, <1>6, TimeType DEF Next

\* Every variable keeps its type, whatever the constants.
THEOREM TypeCorrect == Spec => []TypeOK
  <1>1. Init => TypeOK
    BY InitType
  <1>2. TypeOK /\ [Next]_vars => TypeOK'
    BY NextType
  <1> QED
    BY <1>1, <1>2, PTL DEF Spec

-----------------------------------------------------------------------------
(* Grades and reports.                                                      *)

\* A worker's commit of new questions.
Rewrites(w) == GenReady(w) \/ GenBreaksOff(w)

\* Three kinds of commit write evaluations or reports.
LEMMA WhoGrades ==
  ASSUME [Next]_vars, evals' # evals \/ reports' # reports
  PROVE  \E w \in Workers : Rewrites(w) \/ BuildSettles(w) \/ BuildLoses(w)
  <1> SUFFICES ASSUME ~ \E w \in Workers :
                          Rewrites(w) \/ BuildSettles(w) \/ BuildLoses(w)
               PROVE  evals' = evals /\ reports' = reports
    OBVIOUS
  <1>1. CASE UNCHANGED vars
    BY <1>1 DEF vars, tables
  <1>2. ASSUME NEW r \in Requests, Request(r) PROVE evals' = evals /\ reports' = reports
    BY <1>2 DEF Request, GetLoad, StartLoad, Save, SubmitLoad, Submit, FinishLoad,
       FinishSave, Publish, RequestDies, tables
  <1>3. ASSUME NEW w \in Workers, Generate(w) PROVE evals' = evals /\ reports' = reports
    BY <1>3 DEF Generate, TakeGenerate, GenLock, GenFail, Rewrites, tables
  <1>4. ASSUME NEW w \in Workers, Build(w) PROVE evals' = evals /\ reports' = reports
    BY <1>4 DEF Build, TakeBuild, BuildLoad, BuildRead, ReadAnswers, LookUp, InsertEvaluation,
       BuildRaises, Rollback, tables
  <1>5. ASSUME NEW w \in Workers, Settle(w) PROVE evals' = evals /\ reports' = reports
    BY <1>5 DEF Settle, Retry, GiveUpRead, GiveUpWrite, Ack, TaskRaises, ReasonTooLong,
       WorkerDies, DeadlockVictim, Rollback, tables
  <1>6. ASSUME NEW w \in Workers, Reap(w) PROVE evals' = evals /\ reports' = reports
    BY <1>6 DEF Reap, ReapRead, ReapClaim, Publish, tables
  <1>7. CASE GrowStale \/ DeadlinePasses
    BY <1>7 DEF GrowStale, DeadlinePasses
  <1> QED
    BY <1>1, <1>2, <1>3, <1>4, <1>5, <1>6, <1>7 DEF Next

\* A report, once committed, is the only one and stays as it is.
THEOREM ReportWrittenOnce == Spec => ReportIsWrittenOnce
  <1>1. ASSUME [Next]_vars, reports # <<>> PROVE reports' = reports
    <2> SUFFICES ASSUME reports' # reports PROVE FALSE
      OBVIOUS
    <2>1. PICK w \in Workers : Rewrites(w) \/ BuildSettles(w) \/ BuildLoses(w)
      BY <1>1, WhoGrades
    <2>2. ~BuildSettles(w)
      BY <1>1 DEF BuildSettles, Unreported
    <2> QED
      BY <2>1, <2>2 DEF Rewrites, GenReady, GenBreaksOff, BuildLoses
  <1> QED
    BY <1>1, PTL DEF Spec, ReportIsWrittenOnce

\* No evaluation is ever committed without the report it belongs to.
THEOREM GradesWithReport == Spec => []GradesComeWithReport
  <1>1. Init => GradesComeWithReport
    BY DEF Init, GradesComeWithReport, NoEvals
  <1>2. ASSUME TypeOK, GradesComeWithReport, [Next]_vars
        PROVE  GradesComeWithReport'
    <2>1. CASE evals' = evals /\ reports' = reports
      BY <1>2, <2>1 DEF GradesComeWithReport
    <2>2. CASE evals' # evals \/ reports' # reports
      <3>1. PICK w \in Workers : Rewrites(w) \/ BuildSettles(w) \/ BuildLoses(w)
        BY <1>2, <2>2, WhoGrades
      <3>2. CASE Rewrites(w)
        BY <3>2 DEF Rewrites, GenReady, GenBreaksOff, GradesComeWithReport, NoEvals
      <3>3. CASE BuildSettles(w)
        <4>1. reports' # <<>>
          <5>1. work[w].covered \in SUBSET Answers
            BY <1>2 DEF TypeOK, Attempts
          <5>2. reports \in Seq(SUBSET Answers)
            BY <1>2 DEF TypeOK
          <5>3. Len(Append(reports, work[w].covered)) = Len(reports) + 1
            BY <5>1, <5>2
          <5>4. Len(reports) \in Nat
            BY <5>2
          <5>5. reports' = Append(reports, work[w].covered)
            BY <3>3 DEF BuildSettles
          <5> QED BY <5>3, <5>4, <5>5
        <4> QED BY <4>1 DEF GradesComeWithReport
      <3>4. CASE BuildLoses(w)
        BY <3>4 DEF BuildLoses, Unreported, GradesComeWithReport
      <3> QED BY <3>1, <3>2, <3>3, <3>4
    <2> QED BY <2>1, <2>2
  <1> QED
    BY <1>1, <1>2, TypeCorrect, PTL DEF Spec

-----------------------------------------------------------------------------
(* No answer is scored twice.                                               *)

\* What an insert does to the uncommitted evaluations.
LEMMA InsertMine ==
  ASSUME TypeOK, NEW w \in Workers, NEW a \in Answers, NEW g \in Grades,
         InsertEvaluation(w, a, g), NEW v \in Workers
  PROVE  \/ work'[v].mine = work[v].mine
         \/ /\ v = w
            /\ work'[v].mine = [work[v].mine EXCEPT ![a] = g]
            /\ evals[a] = "none"
            /\ \A u \in Workers : work[u].mine[a] = "none"
  <1> DEFINE rest == [work[w] EXCEPT !.cur = {}]
  <1>1. work[w] \in Attempts
    BY DEF TypeOK
  <1>2. CASE v # w
    BY <1>2 DEF TypeOK, InsertEvaluation
  <1>3. CASE v = w /\ Evaluated(a)
    <2>1. work'[w] = Counted(rest, a, evals[a])
      BY <1>3 DEF TypeOK, InsertEvaluation
    <2> QED BY <1>1, <1>3, <2>1 DEF Counted, Attempts
  <1>4. CASE v = w /\ ~Evaluated(a)
    <2>1. work'[w] = Counted([rest EXCEPT !.mine[a] = g], a, g)
      BY <1>4 DEF TypeOK, InsertEvaluation
    <2>2. work'[w].mine = [work[w].mine EXCEPT ![a] = g]
      BY <1>1, <2>1 DEF Counted, Attempts
    <2> QED BY <1>4, <2>2 DEF InsertEvaluation, IndexFree, Evaluated
  <1> QED BY <1>2, <1>3, <1>4

\* Any other step leaves a worker's uncommitted evaluations or drops them.
LEMMA OtherMine ==
  ASSUME TypeOK, [Next]_vars,
         ~ \E w \in Workers, a \in Answers, g \in Grades : InsertEvaluation(w, a, g),
         NEW v \in Workers
  PROVE  work'[v].mine = work[v].mine \/ work'[v].mine = NoEvals
  <1>1. CASE UNCHANGED vars
    BY <1>1 DEF vars, private
  <1>2. ASSUME NEW r \in Requests, Request(r) PROVE work' = work
    BY <1>2 DEF Request, GetLoad, StartLoad, Save, SubmitLoad, Submit, FinishLoad,
       FinishSave, Publish, RequestDies, private
  <1>3. ASSUME NEW w \in Workers, Generate(w) PROVE work' = work
    BY <1>3 DEF Generate, TakeGenerate, GenLock, GenReady, GenFail, GenBreaksOff, private
  <1>4. ASSUME NEW w \in Workers, Forget(w)
        PROVE  work'[v].mine = work[v].mine \/ work'[v].mine = NoEvals
    BY <1>4 DEF TypeOK, Forget, NoAttempt
  <1>5. ASSUME NEW w \in Workers, BuildRead(w) PROVE work'[v].mine = work[v].mine
    BY <1>5 DEF BuildRead, TypeOK, Attempts
  <1>6. ASSUME NEW w \in Workers, NEW q \in Questions, ReadAnswers(w, q)
        PROVE  work'[v].mine = work[v].mine
    BY <1>6 DEF ReadAnswers, TypeOK, Attempts
  <1>7. ASSUME NEW w \in Workers, NEW a \in Answers, LookUp(w, a)
        PROVE  work'[v].mine = work[v].mine
    <2> DEFINE rest == [work[w] EXCEPT !.batch = @ \ {a}]
    <2>1. work'[v] = IF v # w THEN work[v]
                     ELSE IF Evaluated(a) THEN Counted(rest, a, evals[a])
                                          ELSE [rest EXCEPT !.cur = {a}]
      BY <1>7 DEF LookUp, TypeOK
    <2>2. work[w] \in Attempts
      BY DEF TypeOK
    <2> QED BY <2>1, <2>2 DEF Counted, Attempts
  <1>8. ASSUME NEW w \in Workers, Build(w)
        PROVE  work'[v].mine = work[v].mine \/ work'[v].mine = NoEvals
    <2>1. CASE BuildLoad(w) \/ \E j \in Jobs : TakeBuild(w, j)
      BY <2>1 DEF BuildLoad, TakeBuild
    <2>2. CASE BuildSettles(w) \/ BuildLoses(w) \/ BuildRaises(w)
      BY <1>4, <2>2 DEF BuildSettles, BuildLoses, BuildRaises, Rollback
    <2> QED BY <1>5, <1>6, <1>7, <1>8, <2>1, <2>2 DEF Build
  <1>9. ASSUME NEW w \in Workers, Settle(w)
        PROVE  work'[v].mine = work[v].mine \/ work'[v].mine = NoEvals
    <2>1. CASE GiveUpRead(w) \/ GiveUpWrite(w) \/ Ack(w)
      BY <2>1 DEF GiveUpRead, GiveUpWrite, Ack, private
    <2>2. CASE Retry(w) \/ TaskRaises(w) \/ ReasonTooLong(w) \/ WorkerDies(w)
               \/ DeadlockVictim(w)
      BY <1>4, <2>2 DEF Retry, TaskRaises, ReasonTooLong, WorkerDies, DeadlockVictim, Rollback
    <2> QED BY <1>9, <2>1, <2>2 DEF Settle
  <1>10. ASSUME NEW w \in Workers, Reap(w) PROVE work' = work
    BY <1>10 DEF Reap, ReapRead, ReapClaim, Publish, private
  <1>11. CASE GrowStale \/ DeadlinePasses
    BY <1>11 DEF GrowStale, DeadlinePasses, private
  <1> QED
    BY <1>1, <1>2, <1>3, <1>8, <1>9, <1>10, <1>11 DEF Next

\* What a step does to the evaluation of one answer.
LEMMA EvalStep ==
  ASSUME TypeOK, [Next]_vars, NEW a \in Answers
  PROVE  \/ evals'[a] = evals[a]
         \/ evals'[a] = "none"
         \/ \E w \in Workers : /\ evals'[a] = work[w].mine[a]
                               /\ work[w].mine[a] # "none"
                               /\ work'[w].mine = NoEvals
  <1>1. CASE evals' = evals
    BY <1>1
  <1>2. CASE evals' # evals
    <2>1. PICK w \in Workers : Rewrites(w) \/ BuildSettles(w) \/ BuildLoses(w)
      BY <1>2, WhoGrades
    <2>2. CASE Rewrites(w)
      BY <2>2 DEF Rewrites, GenReady, GenBreaksOff, NoEvals
    <2>3. CASE BuildSettles(w) \/ BuildLoses(w)
      <3>1. evals' = EvalsWith(w) /\ Forget(w)
        BY <2>3 DEF BuildSettles, BuildLoses
      <3>2. work'[w].mine = NoEvals
        BY <3>1 DEF Forget, TypeOK, NoAttempt
      <3> QED BY <3>1, <3>2 DEF EvalsWith
    <2> QED BY <2>1, <2>2, <2>3
  <1> QED BY <1>1, <1>2

LEMMA ExclusiveStep ==
  ASSUME TypeOK, GradingIsExclusive, [Next]_vars
  PROVE  GradingIsExclusive'
  <1> SUFFICES ASSUME NEW v \in Workers, NEW a \in Answers,
                      work'[v].mine[a] # "none"
               PROVE  /\ evals'[a] = "none"
                      /\ \A u \in Workers : work'[u].mine[a] # "none" => u = v
    BY DEF GradingIsExclusive
  <1>1. CASE \E w \in Workers, b \in Answers, g \in Grades : InsertEvaluation(w, b, g)
    <2>1. PICK w \in Workers, b \in Answers, g \in Grades : InsertEvaluation(w, b, g)
      BY <1>1
    <2>2. evals' = evals
      BY <2>1 DEF InsertEvaluation, tables
    <2>3. \A u \in Workers :
             \/ work'[u].mine[a] = work[u].mine[a]
             \/ /\ u = w /\ a = b
                /\ evals[a] = "none"
                /\ \A x \in Workers : work[x].mine[a] = "none"
      <3> SUFFICES ASSUME NEW u \in Workers
                   PROVE  \/ work'[u].mine[a] = work[u].mine[a]
                          \/ /\ u = w /\ a = b
                             /\ evals[a] = "none"
                             /\ \A x \in Workers : work[x].mine[a] = "none"
        OBVIOUS
      <3>1. work[u].mine \in [Answers -> Grades \cup {"none"}]
        BY DEF TypeOK, Attempts, EvalRows
      <3>2. \/ work'[u].mine = work[u].mine
            \/ /\ u = w
               /\ work'[u].mine = [work[u].mine EXCEPT ![b] = g]
               /\ evals[b] = "none"
               /\ \A x \in Workers : work[x].mine[b] = "none"
        BY <2>1, InsertMine
      <3>3. CASE a # b
        BY <3>1, <3>2, <3>3
      <3>4. CASE a = b
        BY <3>2, <3>4
      <3> QED BY <3>3, <3>4
    <2> QED BY <2>2, <2>3 DEF GradingIsExclusive
  <1>2. CASE ~ \E w \in Workers, b \in Answers, g \in Grades : InsertEvaluation(w, b, g)
    <2>1. \A u \in Workers : work'[u].mine[a] # "none" => work[u].mine[a] # "none"
      BY <1>2, OtherMine DEF NoEvals
    <2>2. /\ evals[a] = "none"
          /\ \A u \in Workers : work[u].mine[a] # "none" => u = v
      BY <2>1 DEF GradingIsExclusive
    <2>3. evals'[a] = "none"
      BY <2>2, EvalStep DEF NoEvals
    <2> QED BY <2>1, <2>2, <2>3
  <1> QED BY <1>1, <1>2

\* The unique index at work: an uncommitted evaluation is its answer's only one.
THEOREM ExclusiveGrading == Spec => []GradingIsExclusive
  <1>1. Init => GradingIsExclusive
    BY DEF Init, GradingIsExclusive, NoAttempt, NoEvals
  <1> QED
    BY <1>1, ExclusiveStep, TypeCorrect, PTL DEF Spec

\* However many tasks race to grade an answer, its first committed grade stays.
THEOREM AnswerScoredOnce == Spec => NoAnswerScoredTwice
  <1>1. ASSUME TypeOK, GradingIsExclusive, [Next]_vars, NEW a \in Answers,
               evals[a] # "none", evals'[a] # "none"
        PROVE  evals'[a] = evals[a]
    BY <1>1, EvalStep DEF GradingIsExclusive
  <1>2. TypeOK /\ GradingIsExclusive /\ [Next]_vars =>
          \A a \in Answers :
            evals[a] # "none" /\ evals'[a] # "none" => evals'[a] = evals[a]
    BY <1>1
  <1> QED
    BY <1>2, TypeCorrect, ExclusiveGrading, PTL DEF Spec, NoAnswerScoredTwice

-----------------------------------------------------------------------------
(* What one step does to the columns and copies of the row's state.         *)

LEMMA MovedToState ==
  ASSUME NEW r \in Row, NEW t \in States, NEW why \in Reasons
  PROVE  MovedTo(r, t, why).state = t
  BY DEF MovedTo, Row

LEMMA MaybeExpireState ==
  ASSUME NEW r \in Row
  PROVE  MaybeExpire(r).state \in {r.state, "EXPIRED"}
  <1>1. "EXPIRED" \in States /\ "deadline" \in Reasons
    BY DEF States, Reasons
  <1> QED BY <1>1, MovedToState DEF MaybeExpire

LEMMA FlushState ==
  ASSUME NEW old, NEW new
  PROVE  Flush(old, new).state \in {row.state, new.state}
  BY DEF Flush, Written

LEMMA GenReadyState ==
  ASSUME TypeOK, NEW w \in Workers, GenReady(w)
  PROVE  row'.state \in {row.state, "READY"}
  <1>1. seen[w] \in Row
    BY DEF TypeOK, Procs
  <1> DEFINE parsing    == MovedTo(seen[w], "PARSING", "none")
             generating == MovedTo(parsing, "GENERATING_QS", "none")
  <1>2. parsing \in Row
    BY <1>1, MovedToType DEF States, Reasons
  <1>3. generating \in Row
    BY <1>2, MovedToType DEF States, Reasons
  <1>4. MovedTo(generating, "READY", "none").state = "READY"
    BY <1>3, MovedToState DEF States, Reasons
  <1>5. row' = Flush(seen[w], MovedTo(generating, "READY", "none"))
    BY DEF GenReady
  <1> QED BY <1>4, <1>5, FlushState

LEMMA FailedState ==
  ASSUME TypeOK, NEW w \in Workers, GenFail(w) \/ GenBreaksOff(w) \/ GiveUpWrite(w)
  PROVE  row'.state \in {row.state, "FAILED"}
  <1>1. seen[w] \in Row
    BY DEF TypeOK, Procs
  <1>2. Failed(w).state = "FAILED"
    BY <1>1, MovedToState DEF Failed, States, Reasons
  <1>3. row' = Flush(seen[w], Failed(w))
    BY DEF GenFail, GenBreaksOff, GiveUpWrite, Update
  <1> QED BY <1>2, <1>3, FlushState

LEMMA BuildSettlesState ==
  ASSUME TypeOK, NEW w \in Workers, BuildSettles(w)
  PROVE  row'.state \in {row.state, Verdict(w)}
  <1>1. seen[w] \in Row
    BY DEF TypeOK, Procs
  <1>2. MovedTo(seen[w], Verdict(w), "none").state = Verdict(w)
    BY <1>1, MovedToState DEF Verdict, States, Reasons
  <1>3. row' = row \/ row' = Flush(seen[w], MovedTo(seen[w], Verdict(w), "none"))
    BY DEF BuildSettles, Update
  <1> QED BY <1>2, <1>3, FlushState

LEMMA SavedState ==
  ASSUME TypeOK, NEW r \in Requests, Save(r) \/ FinishSave(r)
  PROVE  row'.state \in {row.state, dirty[r].state}
  <1>1. row' = row \/ row' = Flush(seen[r], dirty[r])
    BY DEF Save, FinishSave, Update
  <1> QED BY <1>1, FlushState

\* Whoever changes the row's state: a request that commits its copy, or a worker.
LEMMA RowStep ==
  ASSUME TypeOK, [Next]_vars
  PROVE  \/ row'.state = row.state
         \/ \E r \in Requests : row'.state = dirty[r].state
         \/ \E w \in Workers : GenReady(w) /\ row'.state = "READY"
         \/ row'.state = "FAILED"
         \/ \E w \in Workers : BuildSettles(w) /\ row'.state = Verdict(w)
  <1>1. CASE UNCHANGED vars
    BY <1>1 DEF vars, tables
  <1>2. ASSUME NEW r \in Requests, Request(r)
        PROVE  row' = row \/ row'.state \in {row.state, dirty[r].state}
    <2>1. CASE Save(r) \/ FinishSave(r)
      BY <2>1, SavedState
    <2>2. CASE GetLoad(r) \/ StartLoad(r) \/ (\E a \in Answers : SubmitLoad(r, a))
               \/ Submit(r) \/ FinishLoad(r) \/ (\E k \in Kinds : Publish(r, k))
               \/ RequestDies(r)
      BY <2>2 DEF GetLoad, StartLoad, SubmitLoad, Submit, FinishLoad, Publish,
         RequestDies, tables
    <2> QED BY <1>2, <2>1, <2>2 DEF Request
  <1>3. ASSUME NEW w \in Workers, Generate(w)
        PROVE  \/ row' = row
               \/ GenReady(w) /\ row'.state \in {row.state, "READY"}
               \/ row'.state \in {row.state, "FAILED"}
    <2>1. CASE GenReady(w)
      BY <2>1, GenReadyState
    <2>2. CASE GenFail(w) \/ GenBreaksOff(w)
      BY <2>2, FailedState
    <2>3. CASE (\E j \in Jobs : TakeGenerate(w, j)) \/ GenLock(w)
      BY <2>3 DEF TakeGenerate, GenLock, tables
    <2> QED BY <1>3, <2>1, <2>2, <2>3 DEF Generate
  <1>4. ASSUME NEW w \in Workers, Build(w)
        PROVE  \/ row' = row
               \/ BuildSettles(w) /\ row'.state \in {row.state, Verdict(w)}
    <2>1. CASE BuildSettles(w)
      BY <2>1, BuildSettlesState
    <2>2. CASE ~BuildSettles(w)
      BY <1>4, <2>2 DEF Build, TakeBuild, BuildLoad, BuildRead, ReadAnswers, LookUp,
         InsertEvaluation, BuildLoses, BuildRaises, Rollback, tables
    <2> QED BY <2>1, <2>2
  <1>5. ASSUME NEW w \in Workers, Settle(w)
        PROVE  row' = row \/ row'.state \in {row.state, "FAILED"}
    <2>1. CASE GiveUpWrite(w)
      BY <2>1, FailedState
    <2>2. CASE ~GiveUpWrite(w)
      BY <1>5, <2>2 DEF Settle, Retry, GiveUpRead, Ack, TaskRaises, ReasonTooLong,
         WorkerDies, DeadlockVictim, Rollback, tables
    <2> QED BY <2>1, <2>2
  <1>6. ASSUME NEW w \in Workers, Reap(w) PROVE row' = row
    BY <1>6 DEF Reap, ReapRead, ReapClaim, Publish, tables
  <1>7. CASE GrowStale \/ DeadlinePasses
    <2>1. row'.state = row.state
      BY <1>7 DEF GrowStale, DeadlinePasses, TypeOK, Row
    <2> QED BY <2>1
  <1> QED
    BY <1>1, <1>2, <1>3, <1>4, <1>5, <1>6, <1>7 DEF Next

\* A request's object is as it was, dropped, or what some handler made of the row.
LEMMA DirtyStep ==
  ASSUME TypeOK, [Next]_vars, NEW r \in Requests
  PROVE  \/ dirty'[r].state \in {dirty[r].state, "CREATED", row.state, "EXPIRED"}
         \/ dirty'[r].state = "IN_PROGRESS" /\ MaybeExpire(row).state = "READY"
         \/ dirty'[r].state = "EVALUATING" /\ Accepts(MaybeExpire(row).state, "EVALUATING")
  <1>0. dirty[r] \in Row /\ row \in Row
    BY DEF TypeOK
  <1>1. CASE dirty' = dirty
    BY <1>1
  <1>2. ASSUME NEW s \in Requests, Close(s)
        PROVE  dirty'[r].state \in {dirty[r].state, "CREATED"}
    BY <1>2 DEF Close, CreatedRow, TypeOK
  <1>3. ASSUME NEW s \in Requests, GetLoad(s)
        PROVE  dirty'[r].state \in {dirty[r].state, row.state, "EXPIRED"}
    <2>1. MaybeExpire(row).state \in {row.state, "EXPIRED"}
      BY <1>0, MaybeExpireState
    <2>2. dirty'[r] = IF r = s THEN MaybeExpire(row) ELSE dirty[r]
      BY <1>3 DEF GetLoad, TypeOK
    <2> QED BY <2>1, <2>2
  <1>4. ASSUME NEW s \in Requests, StartLoad(s)
        PROVE  \/ dirty'[r] = dirty[r]
               \/ dirty'[r].state = "IN_PROGRESS" /\ MaybeExpire(row).state = "READY"
    <2> DEFINE moved == MovedTo(row, "IN_PROGRESS", "none")
    <2>1. moved \in Row /\ moved.state = "IN_PROGRESS"
      BY <1>0, MovedToState, MovedToType DEF States, Reasons
    <2>2. [moved EXCEPT !.deadline = "ahead"].state = "IN_PROGRESS"
      BY <2>1 DEF Row
    <2>3. dirty'[r] = IF r = s THEN [moved EXCEPT !.deadline = "ahead"] ELSE dirty[r]
      BY <1>4 DEF StartLoad, TypeOK
    <2> QED BY <1>4, <2>2, <2>3 DEF StartLoad
  <1>5. ASSUME NEW s \in Requests, FinishLoad(s)
        PROVE  \/ dirty'[r] = dirty[r]
               \/ /\ dirty'[r].state = "EVALUATING"
                  /\ Accepts(MaybeExpire(row).state, "EVALUATING")
    <2>1. MovedTo(row, "EVALUATING", "none").state = "EVALUATING"
      BY <1>0, MovedToState DEF States, Reasons
    <2>2. dirty'[r] = IF r = s THEN MovedTo(row, "EVALUATING", "none") ELSE dirty[r]
      BY <1>5 DEF FinishLoad, TypeOK
    <2> QED BY <1>5, <2>1, <2>2 DEF FinishLoad
  <1>6. \/ dirty' = dirty
        \/ \E s \in Requests : Close(s) \/ GetLoad(s) \/ StartLoad(s) \/ FinishLoad(s)
    <2>1. CASE UNCHANGED vars
      BY <2>1 DEF vars, private
    <2>2. ASSUME NEW s \in Requests, Request(s)
          PROVE  dirty' = dirty \/ Close(s) \/ GetLoad(s) \/ StartLoad(s) \/ FinishLoad(s)
      BY <2>2 DEF Request, Save, SubmitLoad, Submit, FinishSave, Publish, RequestDies,
         private
    <2>3. ASSUME NEW w \in Workers, Generate(w) \/ Build(w) \/ Settle(w) \/ Reap(w)
          PROVE  dirty' = dirty
      <3>1. CASE Generate(w)
        BY <3>1 DEF Generate, TakeGenerate, GenLock, GenReady, GenFail, GenBreaksOff, private
      <3>2. CASE Build(w)
        BY <3>2 DEF Build, TakeBuild, BuildLoad, BuildRead, ReadAnswers, LookUp, InsertEvaluation,
           BuildSettles, BuildLoses, BuildRaises
      <3>3. CASE Settle(w)
        BY <3>3 DEF Settle, Retry, GiveUpRead, GiveUpWrite, Ack, TaskRaises, ReasonTooLong,
         WorkerDies, DeadlockVictim, private
      <3>4. CASE Reap(w)
        BY <3>4 DEF Reap, ReapRead, ReapClaim, Publish, private
      <3> QED BY <2>3, <3>1, <3>2, <3>3, <3>4
    <2>4. CASE GrowStale \/ DeadlinePasses
      BY <2>4 DEF GrowStale, DeadlinePasses, private
    <2> QED BY <2>1, <2>2, <2>3, <2>4 DEF Next
  <1> QED BY <1>1, <1>2, <1>3, <1>4, <1>5, <1>6

-----------------------------------------------------------------------------
(* PARSING and GENERATING_QS are never seen.                                *)

Unseen == {"PARSING", "GENERATING_QS"}

\* Nor does a request's object ever hold one of them, to be flushed later.
PreparationInv ==
  /\ PreparationIsInvisible
  /\ \A r \in Requests : dirty[r].state \notin Unseen

LEMMA PreparationStep ==
  ASSUME TypeOK, PreparationInv, [Next]_vars
  PROVE  PreparationInv'
  <1>1. row'.state \notin Unseen
    BY RowStep DEF PreparationInv, PreparationIsInvisible, Unseen, Verdict
  <1>2. ASSUME NEW r \in Requests PROVE dirty'[r].state \notin Unseen
    BY DirtyStep DEF PreparationInv, PreparationIsInvisible, Unseen
  <1> QED BY <1>1, <1>2 DEF PreparationInv, PreparationIsInvisible, Unseen

\* However many tasks prepare a session, retry or fail, nobody else reads it
\* half prepared.
THEOREM PreparationInvisible == Spec => []PreparationIsInvisible
  <1>1. Init => PreparationInv
    BY DEF Init, PreparationInv, PreparationIsInvisible, Unseen, CreatedRow
  <1>2. PreparationInv => PreparationIsInvisible
    BY DEF PreparationInv
  <1> QED
    BY <1>1, <1>2, PreparationStep, TypeCorrect, PTL DEF Spec

-----------------------------------------------------------------------------
(* Questions come first.                                                    *)

Prepared(s) == s \notin Preparing \cup FailureStates

\* Nor does anybody hold a copy of a prepared session, or an answer to submit,
\* before the questions have been written.
QuestionsInv ==
  /\ QuestionsComeFirst
  /\ \A p \in Procs : Prepared(seen[p].state) => gen > 0
  /\ \A r \in Requests : Prepared(dirty[r].state) => gen > 0
  /\ \A r \in Requests : want[r] # {} => gen > 0

\* How often questions were written only grows; copies are taken from the row.
LEMMA CopyStep ==
  ASSUME TypeOK, [Next]_vars
  PROVE  /\ gen' \in {gen, gen + 1}
         /\ (\E w \in Workers : GenReady(w)) => gen' = gen + 1
         /\ \A p \in Procs :
              seen'[p].state \in {seen[p].state, "CREATED", row.state}
         /\ \A r \in Requests : want'[r] \subseteq want[r] \/ gen > 0
         /\ \/ answers' \subseteq answers
            \/ \E r \in Requests : answers' \subseteq answers \cup want[r]
  <1> DEFINE SeenOK == \A p \in Procs :
                         seen'[p].state \in {seen[p].state, "CREATED", row.state}
             WantOK == \A r \in Requests : want'[r] \subseteq want[r] \/ gen > 0
             AnswersOK == \/ answers' \subseteq answers
                          \/ \E r \in Requests : answers' \subseteq answers \cup want[r]
             SeenAt(q, old) == seen' = [seen EXCEPT ![q] = old]
  <1>0. ASSUME NEW q \in Procs, NEW old,
               old.state \in {"CREATED", row.state, seen[q].state},
               SeenAt(q, old)
        PROVE  SeenOK
    BY <1>0 DEF TypeOK
  <1>a. CreatedRow.state = "CREATED"
    BY DEF CreatedRow
  <1>b. Workers \subseteq Procs /\ Requests \subseteq Procs
    BY DEF Procs
  <1>1. ASSUME UNCHANGED vars
        PROVE  gen' = gen /\ SeenOK /\ WantOK /\ AnswersOK
    BY <1>1 DEF vars, tables, private
  <1>2. ASSUME NEW r \in Requests, Request(r)
        PROVE  gen' = gen /\ SeenOK /\ WantOK /\ AnswersOK
    <2>1. gen' = gen
      BY <1>2 DEF Request, GetLoad, StartLoad, Save, SubmitLoad, Submit, FinishLoad,
         FinishSave, Publish, RequestDies, tables
    <2>2. AnswersOK
      <3>1. CASE Submit(r)
        BY <3>1 DEF Submit
      <3>2. CASE ~Submit(r)
        BY <1>2, <3>2 DEF Request, GetLoad, StartLoad, Save, SubmitLoad, FinishLoad,
           FinishSave, Publish, RequestDies, tables
      <3> QED BY <3>1, <3>2
    <2>3. SeenOK
      <3>1. CASE GetLoad(r) \/ FinishLoad(r)
        BY <1>0, <1>b, <3>1 DEF GetLoad, FinishLoad
      <3>2. CASE StartLoad(r)
        <4>1. [row EXCEPT !.deadline = "none"].state = row.state
          BY DEF TypeOK, Row
        <4> QED BY <1>0, <1>b, <3>2, <4>1 DEF StartLoad
      <3>3. CASE Save(r) \/ Submit(r) \/ FinishSave(r) \/ RequestDies(r)
        BY <1>0, <1>a, <1>b, <3>3 DEF Save, Submit, FinishSave, RequestDies, Close
      <3>4. CASE (\E a \in Answers : SubmitLoad(r, a)) \/ (\E k \in Kinds : Publish(r, k))
        BY <3>4 DEF SubmitLoad, Publish, private
      <3> QED BY <1>2, <3>1, <3>2, <3>3, <3>4 DEF Request
    <2>4. WantOK
      <3>1. CASE \E a \in Answers : SubmitLoad(r, a)
        BY <3>1 DEF SubmitLoad
      <3>2. CASE Save(r) \/ Submit(r) \/ FinishSave(r) \/ RequestDies(r)
        BY <3>2 DEF Save, Submit, FinishSave, RequestDies, Close, TypeOK
      <3>3. CASE GetLoad(r) \/ StartLoad(r) \/ FinishLoad(r)
                 \/ (\E k \in Kinds : Publish(r, k))
        BY <3>3 DEF GetLoad, StartLoad, FinishLoad, Publish, private
      <3> QED BY <1>2, <3>1, <3>2, <3>3 DEF Request
    <2> QED BY <2>1, <2>2, <2>3, <2>4
  <1>3. ASSUME NEW w \in Workers, Generate(w)
        PROVE  /\ gen' \in {gen, gen + 1}
               /\ SeenOK /\ WantOK /\ AnswersOK
    <2>1. gen' \in {gen, gen + 1} /\ WantOK /\ AnswersOK
      BY <1>3 DEF Generate, TakeGenerate, GenLock, GenReady, GenFail, GenBreaksOff, tables,
         private
    <2>2. CASE \E j \in Jobs : TakeGenerate(w, j)
      BY <1>0, <1>b, <2>1, <2>2 DEF TakeGenerate
    <2>3. CASE GenLock(w) \/ GenReady(w) \/ GenFail(w) \/ GenBreaksOff(w)
      BY <2>1, <2>3 DEF GenLock, GenReady, GenFail, GenBreaksOff, private
    <2> QED BY <1>3, <2>2, <2>3, <2>1 DEF Generate
  <1>4. ASSUME NEW w \in Workers, Build(w)
        PROVE  gen' = gen /\ SeenOK /\ WantOK /\ AnswersOK
    <2>1. gen' = gen /\ WantOK /\ AnswersOK
      BY <1>4 DEF Build, TakeBuild, BuildLoad, BuildRead, ReadAnswers, LookUp, InsertEvaluation,
         BuildSettles, BuildLoses, BuildRaises, Rollback, tables
    <2>2. SeenOK
      <3>1. CASE BuildLoad(w)
        BY <1>0, <1>b, <3>1 DEF BuildLoad
      <3>2. CASE ~BuildLoad(w)
        BY <1>4, <3>2 DEF Build, TakeBuild, BuildRead, ReadAnswers, LookUp, InsertEvaluation,
           BuildSettles, BuildLoses, BuildRaises
      <3> QED BY <3>1, <3>2
    <2> QED BY <2>1, <2>2
  <1>5. ASSUME NEW w \in Workers, Settle(w)
        PROVE  gen' = gen /\ SeenOK /\ WantOK /\ AnswersOK
    <2>1. gen' = gen /\ WantOK /\ AnswersOK
      BY <1>5 DEF Settle, Retry, GiveUpRead, GiveUpWrite, Ack, TaskRaises, ReasonTooLong,
         WorkerDies, DeadlockVictim, Rollback, tables, private
    <2>2. SeenOK
      <3>1. CASE GiveUpRead(w)
        BY <1>0, <1>b, <3>1 DEF GiveUpRead
      <3>2. CASE Ack(w) \/ WorkerDies(w)
        BY <1>0, <1>a, <1>b, <3>2 DEF Ack, WorkerDies
      <3>3. CASE Retry(w) \/ GiveUpWrite(w) \/ TaskRaises(w) \/ ReasonTooLong(w)
                 \/ DeadlockVictim(w)
        BY <3>3 DEF Retry, GiveUpWrite, TaskRaises, ReasonTooLong, DeadlockVictim, private
      <3> QED BY <1>5, <3>1, <3>2, <3>3 DEF Settle
    <2> QED BY <2>1, <2>2
  <1>6. ASSUME NEW w \in Workers, Reap(w)
        PROVE  gen' = gen /\ SeenOK /\ WantOK /\ AnswersOK
    <2>1. gen' = gen /\ WantOK /\ AnswersOK
      BY <1>6 DEF Reap, ReapRead, ReapClaim, Publish, tables, private
    <2>2. SeenOK
      <3>1. CASE ReapRead(w) \/ ReapClaim(w)
        BY <1>0, <1>a, <1>b, <3>1 DEF ReapRead, ReapClaim
      <3>2. CASE \E k \in Kinds : Publish(w, k)
        BY <3>2 DEF Publish, private
      <3> QED BY <1>6, <3>1, <3>2 DEF Reap
    <2> QED BY <2>1, <2>2
  <1>7. ASSUME GrowStale \/ DeadlinePasses
        PROVE  gen' = gen /\ SeenOK /\ WantOK /\ AnswersOK
    BY <1>7 DEF GrowStale, DeadlinePasses, private
  <1>8. (\E w \in Workers : GenReady(w)) => gen' = gen + 1
    BY DEF GenReady
  <1>9. gen' \in {gen, gen + 1} /\ SeenOK /\ WantOK /\ AnswersOK
    BY <1>1, <1>2, <1>3, <1>4, <1>5, <1>6, <1>7 DEF Next
  <1> QED BY <1>8, <1>9

LEMMA QuestionsStep ==
  ASSUME TypeOK, QuestionsInv, [Next]_vars
  PROVE  QuestionsInv'
  <1>1. gen \in Nat /\ gen' \in Nat /\ (gen > 0 => gen' > 0)
    BY CopyStep DEF TypeOK
  <1>2. ASSUME NEW p \in Procs, Prepared(seen'[p].state) PROVE gen' > 0
    BY <1>1, <1>2, CopyStep DEF QuestionsInv, QuestionsComeFirst, Prepared, Preparing
  <1>3. Prepared(MaybeExpire(row).state) => gen > 0
    BY MaybeExpireState
       DEF TypeOK, QuestionsInv, QuestionsComeFirst, Prepared, FailureStates
  <1>4. ASSUME NEW s, Accepts(s, "EVALUATING") PROVE s \in {"EVALUATING", "IN_PROGRESS"}
                                                     \/ s \notin States
    BY <1>4 DEF Accepts, CanTransition, Transitions, States
  <1>5. ASSUME NEW r \in Requests, Prepared(dirty'[r].state) PROVE gen' > 0
    <2>1. CASE dirty'[r].state \in {dirty[r].state, "CREATED", row.state, "EXPIRED"}
      BY <1>1, <1>5, <2>1 DEF QuestionsInv, QuestionsComeFirst, Prepared, Preparing,
         FailureStates
    <2>2. CASE MaybeExpire(row).state = "READY"
      BY <1>1, <1>3, <2>2 DEF Prepared, Preparing, FailureStates
    <2>3. CASE Accepts(MaybeExpire(row).state, "EVALUATING")
      <3>1. MaybeExpire(row).state \in States
        BY MaybeExpireType DEF TypeOK, Row
      <3>2. MaybeExpire(row).state \in {"EVALUATING", "IN_PROGRESS"}
        BY <1>4, <2>3, <3>1
      <3> QED BY <1>1, <1>3, <3>2 DEF Prepared, Preparing, FailureStates
    <2> QED BY <2>1, <2>2, <2>3, DirtyStep
  <1>6. ASSUME NEW r \in Requests, want'[r] # {} PROVE gen' > 0
    BY <1>1, <1>6, CopyStep DEF QuestionsInv
  <1>7. ASSUME answers' # {} PROVE gen' > 0
    BY <1>1, <1>7, CopyStep DEF QuestionsInv, QuestionsComeFirst
  <1>8. ASSUME Prepared(row'.state) PROVE gen' > 0
    <2>1. CASE row'.state = row.state
      BY <1>1, <1>8, <2>1 DEF QuestionsInv, QuestionsComeFirst, Prepared
    <2>2. CASE \E r \in Requests : row'.state = dirty[r].state
      BY <1>1, <1>8, <2>2 DEF QuestionsInv
    <2>3. CASE \E w \in Workers : GenReady(w)
      BY <1>1, <2>3, CopyStep
    <2>4. CASE row'.state = "FAILED"
      BY <1>8, <2>4 DEF Prepared, FailureStates
    <2>5. ASSUME NEW w \in Workers, BuildSettles(w) PROVE gen' > 0
      <3>1. seen[w].state \in States /\ w \in Procs
        BY DEF TypeOK, Procs, Row
      <3>2. Accepts(seen[w].state, Verdict(w))
        BY <2>5 DEF BuildSettles
      <3>3. seen[w].state \in {"EVALUATING", "COMPLETED", "NEEDS_HUMAN_REVIEW"}
        BY <3>1, <3>2 DEF Accepts, CanTransition, Transitions, States, Verdict
      <3> QED BY <1>1, <3>1, <3>3 DEF QuestionsInv, Prepared, Preparing, FailureStates
    <2> QED BY <2>1, <2>2, <2>3, <2>4, <2>5, RowStep
  <1> QED
    BY <1>2, <1>5, <1>6, <1>7, <1>8 DEF QuestionsInv, QuestionsComeFirst, Prepared

\* Nothing happens to a session before its questions are there.
THEOREM QuestionsFirst == Spec => []QuestionsComeFirst
  <1>1. Init => QuestionsInv
    BY DEF Init, QuestionsInv, QuestionsComeFirst, Prepared, CreatedRow, Preparing, Procs
  <1>2. QuestionsInv => QuestionsComeFirst
    BY DEF QuestionsInv
  <1> QED
    BY <1>1, <1>2, QuestionsStep, TypeCorrect, PTL DEF Spec

-----------------------------------------------------------------------------
(* One worker, and one request at a time: the promise to the candidate.     *)

\* The installation these theorems are about: at most one worker and one request
\* handler.  (The two of them still interleave, in as many steps as they take.)
OneAtATime ==
  /\ \A v, w \in Workers : v = w
  /\ \A r, s \in Requests : r = s

\* The states of a session that has been handed in, and of one with a report.
Handed    == {"EVALUATING", "COMPLETED", "NEEDS_HUMAN_REVIEW", "FAILED"}
Reported  == {"COMPLETED", "NEEDS_HUMAN_REVIEW"}
Unstarted == {"CREATED", "READY"}

\* What is committed.
RowInv ==
  /\ FailuresAreExplained
  /\ row.deadline # "none" \/ answers # {} => row.state \notin Unstarted
  /\ reports # <<>> <=> row.state \in Reported
  /\ EveryAnswerIsGraded
  /\ VerdictMatchesGrades
  /\ \A j \in Jobs : queue[j] > 0 /\ j.kind = "build" => row.state \in Handed

\* A request that will write starts from the row as it still is, and writes one
\* of the three moves of a candidate.
Starting(r) ==
  /\ row.state = "READY"
  /\ seen[r].state = "READY" /\ seen[r].reason = "none" /\ seen[r].deadline = "none"
  /\ dirty[r].state = "IN_PROGRESS" /\ dirty[r].reason = "none"
  /\ dirty[r].deadline = "ahead"

Leaving(r, s, why) ==
  /\ row.state = "IN_PROGRESS"
  /\ seen[r].state = "IN_PROGRESS" /\ seen[r].reason = "none"
  /\ dirty[r].state = s /\ dirty[r].reason = why /\ dirty[r].deadline = seen[r].deadline

RequestInv(r) ==
  /\ pc[r] = "save" => Starting(r) \/ Leaving(r, "EXPIRED", "deadline")
  /\ pc[r] = "finish" => \/ Leaving(r, "EVALUATING", "none")
                         \/ dirty[r] = seen[r] /\ row.state \in Handed
  /\ pc[r] = "submit" => row.state = "IN_PROGRESS" /\ \E a \in Answers : want[r] = {a}
  /\ pc[r] = "publish_build" => row.state \in Handed

\* A task that will write the row has the row as it is, and an attempt to build
\* the report has every answer counted, out, in its batch or still to be read.
Current(w) == seen[w].state = row.state /\ seen[w].reason = row.reason

Attempting(w) ==
  /\ Current(w)
  /\ row.state = "EVALUATING" =>
       answers = work[w].covered \cup work[w].batch \cup work[w].cur
                   \cup {a \in answers : a[1] \in work[w].todo}
  /\ work[w].gen = gen
  /\ \A a, b \in work[w].cur : a = b
  /\ work[w].review <=> \E a \in Answers : work[w].mine[a] = "flagged"

WorkerInv(w) ==
  /\ pc[w] \in {"gen_read", "gen_hold"} => Current(w) /\ row.state = "CREATED"
  /\ pc[w] = "give_up_write" => Current(w) /\ row.state \in {"CREATED", "EVALUATING"}
  /\ pc[w] = "reap" /\ seen[w].state # "CREATED" => row.state \in Handed
  /\ pc[w] = "publish_build" \/ job[w].kind = "build" => row.state \in Handed
  /\ pc[w] \in {"build_open", "build_read", "build_loop"} =>
       job[w].kind = "build" /\ reports = <<>>
  /\ pc[w] = "build_read" => Current(w)
  /\ IF pc[w] = "build_loop" THEN Attempting(w) ELSE work[w] = NoAttempt

SoloInv ==
  /\ RowInv
  /\ \A r \in Requests : RequestInv(r)
  /\ \A w \in Workers : WorkerInv(w)

\* With what is proved above for any number of processes.
Known ==
  /\ TypeOK
  /\ PreparationIsInvisible
  /\ QuestionsComeFirst
  /\ GradesComeWithReport
  /\ SoloInv

-----------------------------------------------------------------------------
(* What each writer of the row makes of it.                                 *)

LEMMA RowFacts ==
  ASSUME Known
  PROVE  /\ row.state \in States \ Unseen
         /\ (row.state \notin FailureStates) => row.reason = "none"
         /\ row.state \in Unstarted => row.deadline = "none" /\ answers = {}
         /\ reports = <<>> => \A a \in Answers : evals[a] = "none"
  BY DEF Known, TypeOK, Row, PreparationIsInvisible, Unseen, SoloInv, RowInv,
     FailuresAreExplained, GradesComeWithReport

LEMMA FlushColumns ==
  ASSUME NEW old, NEW new
  PROVE  /\ Flush(old, new).state = IF new.state = old.state THEN row.state ELSE new.state
         /\ Flush(old, new).reason = IF new.reason = old.reason THEN row.reason ELSE new.reason
         /\ Flush(old, new).deadline
              = IF new.deadline = old.deadline THEN row.deadline ELSE new.deadline
  BY DEF Flush, Written

LEMMA MovedColumns ==
  ASSUME NEW r \in Row, NEW t \in States, NEW why \in Reasons
  PROVE  /\ MovedTo(r, t, why).state = t
         /\ MovedTo(r, t, why).deadline = r.deadline
         /\ r.state # t =>
              MovedTo(r, t, why).reason = IF t \in FailureStates THEN why ELSE "none"
         /\ r.state = t => MovedTo(r, t, why) = r
  BY DEF MovedTo, Row

\* What a request's step makes of the row, seen from a worker.
LEMMA SaveRow ==
  ASSUME Known, NEW r \in Requests, Save(r)
  PROVE  \/ row.state = "READY" /\ row'.state = "IN_PROGRESS" /\ row'.reason = "none"
         \/ row.state = "IN_PROGRESS" /\ row'.state = "EXPIRED" /\ row'.reason = "deadline"
  <1>1. row' = Flush(seen[r], dirty[r]) /\ pc[r] = "save"
    BY DEF Save, Update, Goto
  <1>2. Starting(r) \/ Leaving(r, "EXPIRED", "deadline")
    BY <1>1 DEF Known, SoloInv, RequestInv
  <1>3. row.reason = "none"
    BY <1>2, RowFacts DEF Starting, Leaving, FailureStates
  <1> QED BY <1>1, <1>2, <1>3, FlushColumns DEF Starting, Leaving

LEMMA FinishRow ==
  ASSUME Known, NEW r \in Requests, FinishSave(r)
  PROVE  \/ row' = row /\ row.state \in Handed
         \/ row.state = "IN_PROGRESS" /\ row'.state = "EVALUATING" /\ row'.reason = "none"
  <1>1. pc[r] = "finish"
    BY DEF FinishSave, Goto
  <1>2. CASE dirty[r] = seen[r] /\ row.state \in Handed
    BY <1>2 DEF FinishSave
  <1>3. CASE Leaving(r, "EVALUATING", "none")
    <2>1. dirty[r] # seen[r]
      BY <1>3 DEF Leaving
    <2>2. row' = Flush(seen[r], dirty[r])
      BY <2>1 DEF FinishSave, Update
    <2>3. row.reason = "none"
      BY <1>3, RowFacts DEF Leaving, FailureStates
    <2> QED BY <1>3, <2>2, <2>3, FlushColumns DEF Leaving
  <1> QED BY <1>1, <1>2, <1>3 DEF Known, SoloInv, RequestInv

LEMMA ReadyRow ==
  ASSUME Known, NEW w \in Workers, GenReady(w)
  PROVE  /\ row.state = "CREATED"
         /\ row'.state = "READY" /\ row'.reason = "none" /\ row'.deadline = "none"
  <1>0. seen[w] \in Row
    BY DEF Known, TypeOK, Procs
  <1>1. Current(w) /\ row.state = "CREATED"
    BY DEF Known, SoloInv, WorkerInv, GenReady, Goto
  <1>2. row.reason = "none" /\ row.deadline = "none" /\ seen[w].state = "CREATED"
        /\ seen[w].reason = "none"
    BY <1>1, RowFacts DEF Current, FailureStates, Unstarted
  <1> DEFINE parsing    == MovedTo(seen[w], "PARSING", "none")
             generating == MovedTo(parsing, "GENERATING_QS", "none")
             ready      == MovedTo(generating, "READY", "none")
  <1>3. parsing \in Row /\ parsing.state = "PARSING" /\ parsing.deadline = seen[w].deadline
    <2>1. "PARSING" \in States /\ "none" \in Reasons
      BY DEF States, Reasons
    <2>2. parsing \in Row
      BY <1>0, <2>1, MovedToType
    <2> QED BY <1>0, <2>1, <2>2, MovedColumns
  <1> HIDE DEF parsing
  <1>4. generating \in Row /\ generating.state = "GENERATING_QS"
        /\ generating.deadline = seen[w].deadline
    BY <1>3, MovedToType, MovedColumns DEF States, Reasons
  <1> HIDE DEF generating
  <1>5. ready.state = "READY" /\ ready.deadline = seen[w].deadline /\ ready.reason = "none"
    BY <1>4, MovedColumns DEF States, Reasons, FailureStates
  <1>6. row' = Flush(seen[w], ready)
    BY DEF GenReady, ready, generating, parsing
  <1> HIDE DEF ready
  <1> QED BY <1>1, <1>2, <1>5, <1>6, FlushColumns

LEMMA FailRow ==
  ASSUME Known, NEW w \in Workers, GenFail(w) \/ GenBreaksOff(w) \/ GiveUpWrite(w)
  PROVE  /\ row.state \in {"CREATED", "EVALUATING"}
         /\ row'.state = "FAILED" /\ row'.reason = "gave_up"
  <1>0. seen[w] \in Row
    BY DEF Known, TypeOK, Procs
  <1>1. Current(w) /\ row.state \in {"CREATED", "EVALUATING"}
    BY DEF Known, SoloInv, WorkerInv, GenFail, GenBreaksOff, GiveUpWrite, Goto
  <1>2. row.reason = "none"
    BY <1>1, RowFacts DEF FailureStates
  <1>3. Failed(w).state = "FAILED" /\ Failed(w).reason = "gave_up"
    BY <1>0, <1>1, MovedColumns DEF Failed, Current, States, Reasons, FailureStates
  <1>4. row' = Flush(seen[w], Failed(w))
    BY DEF GenFail, GenBreaksOff, GiveUpWrite, Update
  <1> QED BY <1>1, <1>2, <1>3, <1>4, FlushColumns DEF Current

LEMMA SettleRow ==
  ASSUME Known, NEW w \in Workers, BuildSettles(w)
  PROVE  /\ row.state = "EVALUATING"
         /\ row'.state = Verdict(w) /\ row'.reason = "none"
  <1>0. seen[w] \in Row
    BY DEF Known, TypeOK, Procs
  <1>1. pc[w] = "build_loop" /\ reports = <<>>
    BY DEF BuildSettles, Goto, Unreported
  <1>2. Current(w) /\ row.state \in Handed
    BY <1>1 DEF Known, SoloInv, WorkerInv, Attempting
  <1>3. row.state \notin Reported
    BY <1>1 DEF Known, SoloInv, RowInv
  <1>4. Accepts(seen[w].state, Verdict(w))
    BY DEF BuildSettles
  <1>5. row.state = "EVALUATING"
    <2>1. CASE row.state = "FAILED"
      BY <1>2, <1>4, <2>1 DEF Current, Accepts, CanTransition, Transitions, Verdict, States
    <2> QED BY <1>2, <1>3, <2>1 DEF Handed, Reported
  <1>6. row.reason = "none" /\ seen[w].state = "EVALUATING" /\ seen[w].reason = "none"
    BY <1>2, <1>5, RowFacts DEF FailureStates, Current
  <1> DEFINE new == MovedTo(seen[w], Verdict(w), "none")
  <1>7. new.state = Verdict(w) /\ new.reason = "none"
    BY <1>0, <1>6, MovedColumns DEF States, Reasons, FailureStates, Verdict
  <1>8. row' = Flush(seen[w], new)
    BY <1>6 DEF BuildSettles, Update, Verdict
  <1> HIDE DEF new
  <1> QED BY <1>5, <1>6, <1>7, <1>8, FlushColumns DEF Verdict

-----------------------------------------------------------------------------
(* What a step leaves alone.                                                *)

\* The committed rows, when at most the deadline of a started session passes and
\* no build message appears out of nowhere.
RowsKept ==
  /\ row'.state = row.state /\ row'.reason = row.reason
  /\ row'.deadline = row.deadline \/ row.deadline # "none"
  /\ UNCHANGED <<answers, evals, reports>>

QueueKept ==
  \A j \in Jobs :
    queue'[j] > 0 /\ j.kind = "build" => queue[j] > 0 \/ row.state \in Handed

LEMMA RowFrame ==
  ASSUME Known, RowsKept, QueueKept
  PROVE  RowInv'
  <1>1. RowInv
    BY DEF Known, SoloInv
  <1>2. FailuresAreExplained' /\ EveryAnswerIsGraded' /\ VerdictMatchesGrades'
    BY <1>1 DEF RowInv, RowsKept, FailuresAreExplained, EveryAnswerIsGraded,
       VerdictMatchesGrades
  <1> QED BY <1>1, <1>2 DEF RowInv, RowsKept, QueueKept

\* A request, while a worker writes the row.
LEMMA RequestFrame ==
  ASSUME Known, NEW r \in Requests,
         pc'[r] = pc[r], seen'[r] = seen[r], dirty' = dirty, want' = want,
         \/ row'.state = row.state
         \/ row.state = "CREATED"
         \/ row.state = "EVALUATING" /\ row'.state \in Handed
  PROVE  RequestInv(r)'
  <1>1. RequestInv(r)
    BY DEF Known, SoloInv
  <1>2. Starting(r) => Starting(r)'
    BY DEF Starting, Handed
  <1>3. ASSUME NEW s, NEW why, Leaving(r, s, why) PROVE Leaving(r, s, why)'
    BY <1>3 DEF Leaving, Handed
  <1>4. row.state \in Handed => row'.state \in Handed
    BY DEF Handed
  <1>5. row.state = "IN_PROGRESS" => row'.state = "IN_PROGRESS"
    OBVIOUS
  <1> QED BY <1>1, <1>2, <1>3, <1>4, <1>5 DEF RequestInv

\* A worker, while a request writes the row or an answer.
LEMMA WorkerFrame ==
  ASSUME Known, NEW w \in Workers,
         pc'[w] = pc[w], seen'[w] = seen[w], job' = job, work' = work, gen' = gen,
         reports' = reports,
         \/ row'.state = row.state /\ row'.reason = row.reason /\ answers' = answers
         \/ row.state \in {"READY", "IN_PROGRESS"}
  PROVE  WorkerInv(w)'
  <1>1. WorkerInv(w)
    BY DEF Known, SoloInv
  <1>2. CASE row'.state = row.state /\ row'.reason = row.reason /\ answers' = answers
    <2>1. Current(w) => Current(w)'
      BY <1>2 DEF Current
    <2>2. Attempting(w) => Attempting(w)'
      BY <1>2, <2>1 DEF Attempting
    <2> QED BY <1>1, <1>2, <2>1, <2>2 DEF WorkerInv
  <1>3. CASE row.state \in {"READY", "IN_PROGRESS"}
    <2>1. row.state \notin Handed /\ row.state # "CREATED" /\ row.state # "EVALUATING"
      BY <1>3 DEF Handed
    <2>2. /\ pc[w] \notin {"gen_read", "gen_hold", "give_up_write", "publish_build",
                           "build_open", "build_read", "build_loop"}
          /\ ~(pc[w] = "reap" /\ seen[w].state # "CREATED")
          /\ job[w].kind # "build" /\ work[w] = NoAttempt
      BY <1>1, <2>1 DEF WorkerInv
    <2> QED BY <2>2 DEF WorkerInv
  <1> QED BY <1>2, <1>3

-----------------------------------------------------------------------------
(* The requests.                                                            *)

\* A request's step, with all it must show: its own part, and that it does not
\* disturb the worker or the rows.
LEMMA RequestShows ==
  ASSUME Known, OneAtATime, NEW r \in Requests,
         RowInv', RequestInv(r)',
         \A w \in Workers : pc'[w] = pc[w] /\ seen'[w] = seen[w],
         job' = job, work' = work, gen' = gen, reports' = reports,
         \/ row'.state = row.state /\ row'.reason = row.reason /\ answers' = answers
         \/ row.state \in {"READY", "IN_PROGRESS"}
  PROVE  SoloInv'
  <1>1. \A s \in Requests : RequestInv(s)'
    BY DEF OneAtATime
  <1>2. \A w \in Workers : WorkerInv(w)'
    BY WorkerFrame
  <1> QED BY <1>1, <1>2 DEF SoloInv

LEMMA OthersPlace ==
  ASSUME TypeOK, NEW r \in Requests, NEW w \in Workers
  PROVE  /\ r # w /\ r \in Procs /\ w \in Procs
         /\ \A x : [pc EXCEPT ![r] = x][w] = pc[w] /\ [pc EXCEPT ![r] = x][r] = x
         /\ \A x : [pc EXCEPT ![w] = x][r] = pc[r] /\ [pc EXCEPT ![w] = x][w] = x
         /\ \A x : [seen EXCEPT ![r] = x][w] = seen[w] /\ [seen EXCEPT ![r] = x][r] = x
         /\ \A x : [seen EXCEPT ![w] = x][r] = seen[r] /\ [seen EXCEPT ![w] = x][w] = x
  BY ProcsAssumption DEF TypeOK, Procs

LEMMA GetLoadSolo ==
  ASSUME Known, OneAtATime, NEW r \in Requests, GetLoad(r)
  PROVE  SoloInv'
  <1>0. TypeOK /\ row \in Row /\ r \in Procs
    BY DEF Known, TypeOK, Procs
  <1>1. row.state = "IN_PROGRESS" /\ MaybeExpire(row) = MovedTo(row, "EXPIRED", "deadline")
    <2>1. CanTransition(row.state, "EXPIRED") /\ row.deadline = "passed"
          /\ MaybeExpire(row) = MovedTo(row, "EXPIRED", "deadline")
      BY DEF GetLoad, MaybeExpire, IsExpired
    <2>2. row.state \notin Unstarted \cup Unseen /\ row.state \in States
      BY <2>1, RowFacts
    <2> QED BY <2>1, <2>2 DEF CanTransition, Transitions, States, Unstarted, Unseen
  <1>2. row.reason = "none"
    BY <1>1, RowFacts DEF FailureStates
  <1>3. /\ MaybeExpire(row).state = "EXPIRED" /\ MaybeExpire(row).reason = "deadline"
        /\ MaybeExpire(row).deadline = row.deadline
    BY <1>0, <1>1, MovedColumns DEF States, Reasons, FailureStates
  <1>4. pc'[r] = "save" /\ seen'[r] = row /\ dirty'[r] = MaybeExpire(row)
    BY <1>0 DEF GetLoad, Goto, TypeOK
  <1>5. RequestInv(r)'
    BY <1>1, <1>2, <1>3, <1>4 DEF RequestInv, Leaving, GetLoad, tables
  <1>6. RowInv'
    BY RowFrame DEF RowsKept, QueueKept, GetLoad, tables
  <1>7. \A w \in Workers : pc'[w] = pc[w] /\ seen'[w] = seen[w]
    BY <1>0, OthersPlace DEF GetLoad, Goto
  <1> QED BY <1>5, <1>6, <1>7, RequestShows DEF GetLoad, tables

LEMMA StartLoadSolo ==
  ASSUME Known, OneAtATime, NEW r \in Requests, StartLoad(r)
  PROVE  SoloInv'
  <1>0. TypeOK /\ row \in Row /\ r \in Procs
    BY DEF Known, TypeOK, Procs
  <1>1. row.state = "READY"
    BY <1>0, MaybeExpireState DEF StartLoad
  <1>2. row.reason = "none"
    BY <1>1, RowFacts DEF FailureStates
  <1> DEFINE old   == [row EXCEPT !.deadline = "none"]
             moved == MovedTo(row, "IN_PROGRESS", "none")
             new   == [moved EXCEPT !.deadline = "ahead"]
  <1>3. old.state = "READY" /\ old.reason = "none" /\ old.deadline = "none"
    BY <1>0, <1>1, <1>2 DEF Row
  <1>4. moved \in Row /\ moved.state = "IN_PROGRESS" /\ moved.reason = "none"
    <2>1. "IN_PROGRESS" \in States /\ "none" \in Reasons
      BY DEF States, Reasons
    <2>2. moved \in Row
      BY <1>0, <2>1, MovedToType
    <2> QED BY <1>0, <1>1, <2>1, <2>2, MovedColumns DEF FailureStates
  <1> HIDE DEF moved
  <1>5. new.state = "IN_PROGRESS" /\ new.reason = "none" /\ new.deadline = "ahead"
    BY <1>4 DEF Row
  <1>6. pc'[r] = "save" /\ seen'[r] = old /\ dirty'[r] = new
    BY <1>0 DEF StartLoad, Goto, TypeOK, moved
  <1> HIDE DEF old, new
  <1>7. RequestInv(r)'
    BY <1>1, <1>3, <1>5, <1>6 DEF RequestInv, Starting, StartLoad, tables
  <1>8. RowInv'
    BY RowFrame DEF RowsKept, QueueKept, StartLoad, tables
  <1>9. \A w \in Workers : pc'[w] = pc[w] /\ seen'[w] = seen[w]
    BY <1>0, OthersPlace DEF StartLoad, Goto
  <1> QED BY <1>7, <1>8, <1>9, RequestShows DEF StartLoad, tables

\* A request that is over has nothing left to write.
LEMMA IdleRequest ==
  ASSUME NEW r \in Requests, pc'[r] \in {"idle", "publish_generate"}
  PROVE  RequestInv(r)'
  BY DEF RequestInv

LEMMA CloseKeeps ==
  ASSUME TypeOK, NEW r \in Requests, Close(r), NEW w \in Workers
  PROVE  seen'[w] = seen[w]
  BY OthersPlace DEF Close

LEMMA SaveSolo ==
  ASSUME Known, OneAtATime, NEW r \in Requests, Save(r)
  PROVE  SoloInv'
  <1>0. TypeOK /\ r \in Procs
    BY DEF Known, Procs
  <1>1. \/ row.state = "READY" /\ row'.state = "IN_PROGRESS" /\ row'.reason = "none"
        \/ row.state = "IN_PROGRESS" /\ row'.state = "EXPIRED" /\ row'.reason = "deadline"
    BY SaveRow
  <1>2. row.state \notin Reported /\ row.state \notin Handed /\ row'.state \notin Reported
        /\ row'.state \notin Unstarted /\ (row'.state \in FailureStates <=> row'.reason # "none")
    BY <1>1 DEF Reported, Handed, Unstarted, FailureStates
  <1>3. RowInv'
    BY <1>2 DEF Known, SoloInv, RowInv, Save, FailuresAreExplained, EveryAnswerIsGraded,
       VerdictMatchesGrades, Reported
  <1>4. pc'[r] = "idle" /\ \A w \in Workers : pc'[w] = pc[w]
    BY <1>0, OthersPlace DEF Save, Goto, TypeOK
  <1>5. \A w \in Workers : seen'[w] = seen[w]
    BY <1>0, CloseKeeps DEF Save
  <1>6. RequestInv(r)'
    BY <1>4, IdleRequest
  <1> QED BY <1>1, <1>3, <1>4, <1>5, <1>6, RequestShows DEF Save

LEMMA SubmitLoadSolo ==
  ASSUME Known, OneAtATime, NEW r \in Requests, NEW a \in Answers, SubmitLoad(r, a)
  PROVE  SoloInv'
  <1>0. TypeOK /\ row \in Row /\ r \in Procs
    BY DEF Known, TypeOK, Procs
  <1>1. row.state = "IN_PROGRESS"
    BY <1>0, MaybeExpireState DEF SubmitLoad, MayAnswer
  <1>2. pc'[r] = "submit" /\ want'[r] = {a}
    BY <1>0 DEF SubmitLoad, Goto, TypeOK
  <1>3. RequestInv(r)'
    BY <1>1, <1>2 DEF RequestInv, SubmitLoad, tables
  <1>4. RowInv'
    BY RowFrame DEF RowsKept, QueueKept, SubmitLoad, tables
  <1>5. \A w \in Workers : pc'[w] = pc[w] /\ seen'[w] = seen[w]
    BY <1>0, OthersPlace DEF SubmitLoad, Goto
  <1> QED BY <1>3, <1>4, <1>5, RequestShows DEF SubmitLoad, tables

LEMMA SubmitSolo ==
  ASSUME Known, OneAtATime, NEW r \in Requests, Submit(r)
  PROVE  SoloInv'
  <1>0. TypeOK /\ r \in Procs
    BY DEF Known, Procs
  <1>1. row.state = "IN_PROGRESS"
    BY DEF Known, SoloInv, RequestInv, Submit, Goto
  <1>2. RowInv'
    BY <1>1 DEF Known, SoloInv, RowInv, Submit, FailuresAreExplained, EveryAnswerIsGraded,
       VerdictMatchesGrades, Unstarted
  <1>3. pc'[r] = "idle" /\ \A w \in Workers : pc'[w] = pc[w]
    BY <1>0, OthersPlace DEF Submit, Goto, TypeOK
  <1>4. \A w \in Workers : seen'[w] = seen[w]
    BY <1>0, CloseKeeps DEF Submit
  <1>5. RequestInv(r)'
    BY <1>3, IdleRequest
  <1> QED BY <1>1, <1>2, <1>3, <1>4, <1>5, RequestShows DEF Submit

LEMMA FinishLoadSolo ==
  ASSUME Known, OneAtATime, NEW r \in Requests, FinishLoad(r)
  PROVE  SoloInv'
  <1>0. TypeOK /\ row \in Row /\ r \in Procs
    BY DEF Known, TypeOK, Procs
  <1> DEFINE moved == MovedTo(row, "EVALUATING", "none")
  <1>1. row.state \in {"IN_PROGRESS", "EVALUATING"}
    <2>1. MaybeExpire(row).state \in {row.state, "EXPIRED"} /\ row.state \in States
      BY <1>0, MaybeExpireState DEF Row
    <2>2. Accepts(MaybeExpire(row).state, "EVALUATING")
      BY DEF FinishLoad
    <2>3. MaybeExpire(row).state # "EXPIRED"
      BY <2>2 DEF Accepts, CanTransition, Transitions, States
    <2> QED BY <2>1, <2>2, <2>3 DEF Accepts, CanTransition, Transitions, States
  <1>2. row.reason = "none"
    BY <1>1, RowFacts DEF FailureStates
  <1>3. /\ moved.state = "EVALUATING" /\ moved.deadline = row.deadline
        /\ row.state = "IN_PROGRESS" => moved.reason = "none"
        /\ row.state = "EVALUATING" => moved = row
    BY <1>0, MovedColumns DEF States, Reasons, FailureStates
  <1>4. pc'[r] = "finish" /\ seen'[r] = row /\ dirty'[r] = moved
    BY <1>0 DEF FinishLoad, Goto, TypeOK
  <1> HIDE DEF moved
  <1>5. RequestInv(r)'
    BY <1>1, <1>2, <1>3, <1>4 DEF RequestInv, Leaving, Handed, FinishLoad, tables
  <1>6. RowInv'
    BY RowFrame DEF RowsKept, QueueKept, FinishLoad, tables
  <1>7. \A w \in Workers : pc'[w] = pc[w] /\ seen'[w] = seen[w]
    BY <1>0, OthersPlace DEF FinishLoad, Goto
  <1> QED BY <1>5, <1>6, <1>7, RequestShows DEF FinishLoad, tables

LEMMA FinishSaveSolo ==
  ASSUME Known, OneAtATime, NEW r \in Requests, FinishSave(r)
  PROVE  SoloInv'
  <1>0. TypeOK /\ r \in Procs
    BY DEF Known, Procs
  <1>1. \/ row' = row /\ row.state \in Handed
        \/ row.state = "IN_PROGRESS" /\ row'.state = "EVALUATING" /\ row'.reason = "none"
    BY FinishRow
  <1>2. RowInv'
    <2>1. CASE row' = row
      BY <2>1, RowFrame DEF RowsKept, QueueKept, FinishSave
    <2>2. CASE row.state = "IN_PROGRESS" /\ row'.state = "EVALUATING" /\ row'.reason = "none"
      BY <2>2 DEF Known, SoloInv, RowInv, FinishSave, FailuresAreExplained,
         EveryAnswerIsGraded, VerdictMatchesGrades, Reported, Handed, Unstarted, FailureStates
    <2> QED BY <1>1, <2>1, <2>2
  <1>3. pc'[r] = "publish_build" /\ \A w \in Workers : pc'[w] = pc[w]
    BY <1>0, OthersPlace DEF FinishSave, Goto, TypeOK
  <1>4. \A w \in Workers : seen'[w] = seen[w]
    BY <1>0, CloseKeeps DEF FinishSave
  <1>5. RequestInv(r)'
    BY <1>1, <1>3 DEF RequestInv, Handed
  <1> QED BY <1>1, <1>2, <1>3, <1>4, <1>5, RequestShows DEF FinishSave

\* A published build message is one for a session that has been handed in.
LEMMA PublishQueue ==
  ASSUME Known, NEW p \in Procs, NEW k \in Kinds, Publish(p, k),
         pc[p] = "publish_build" => row.state \in Handed
  PROVE  RowInv'
  <1>1. queue' = [queue EXCEPT ![FreshJob(k)] = @ + 1] /\ FreshJob(k) \in Jobs
    BY FreshJobType DEF Publish, Enqueue
  <1>2. k = "build" => row.state \in Handed
    BY DEF Publish, Goto
  <1>3. FreshJob(k).kind = k
    BY DEF FreshJob
  <1>4. QueueKept
    <2> SUFFICES ASSUME NEW j \in Jobs, queue'[j] > 0, j.kind = "build"
                 PROVE  queue[j] > 0 \/ row.state \in Handed
      BY DEF QueueKept
    <2>1. CASE j = FreshJob(k)
      BY <1>2, <1>3, <2>1
    <2>2. CASE j # FreshJob(k)
      BY <1>1, <2>2 DEF Known, TypeOK
    <2> QED BY <2>1, <2>2
  <1> QED BY <1>4, RowFrame DEF RowsKept, Publish, tables

LEMMA RequestPublishSolo ==
  ASSUME Known, OneAtATime, NEW r \in Requests, NEW k \in Kinds, Publish(r, k)
  PROVE  SoloInv'
  <1>0. TypeOK /\ r \in Procs
    BY DEF Known, Procs
  <1>1. RowInv'
    BY <1>0, PublishQueue DEF Known, SoloInv, RequestInv
  <1>2. pc'[r] = "idle" /\ \A w \in Workers : pc'[w] = pc[w]
    BY <1>0, OthersPlace DEF Publish, Goto, TypeOK
  <1>3. RequestInv(r)'
    BY <1>2, IdleRequest
  <1> QED BY <1>1, <1>2, <1>3, RequestShows DEF Publish, tables, private

LEMMA RequestDiesSolo ==
  ASSUME Known, OneAtATime, NEW r \in Requests, RequestDies(r)
  PROVE  SoloInv'
  <1>0. TypeOK /\ r \in Procs
    BY DEF Known, Procs
  <1>1. RowInv'
    BY RowFrame DEF RowsKept, QueueKept, RequestDies, tables
  <1>2. pc'[r] = "idle" /\ \A w \in Workers : pc'[w] = pc[w]
    BY <1>0, OthersPlace DEF RequestDies, TypeOK
  <1>3. \A w \in Workers : seen'[w] = seen[w]
    BY <1>0, CloseKeeps DEF RequestDies
  <1>4. RequestInv(r)'
    BY <1>2, IdleRequest
  <1> QED BY <1>1, <1>2, <1>3, <1>4, RequestShows DEF RequestDies, tables

LEMMA RequestSolo ==
  ASSUME Known, OneAtATime, NEW r \in Requests, Request(r)
  PROVE  SoloInv'
  BY GetLoadSolo, StartLoadSolo, SaveSolo, SubmitLoadSolo, SubmitSolo, FinishLoadSolo,
     FinishSaveSolo, RequestPublishSolo, RequestDiesSolo DEF Request

-----------------------------------------------------------------------------
(* The worker.                                                              *)

\* A worker's step, with all it must show: its own part, the rows, and a row that
\* no request is about to write.
LEMMA WorkerShows ==
  ASSUME Known, OneAtATime, NEW w \in Workers,
         RowInv', WorkerInv(w)',
         \A r \in Requests : pc'[r] = pc[r] /\ seen'[r] = seen[r],
         dirty' = dirty, want' = want,
         \/ row'.state = row.state
         \/ row.state = "CREATED"
         \/ row.state = "EVALUATING" /\ row'.state \in Handed
  PROVE  SoloInv'
  <1>1. \A v \in Workers : WorkerInv(v)'
    BY DEF OneAtATime
  <1>2. \A r \in Requests : RequestInv(r)'
    BY RequestFrame
  <1> QED BY <1>1, <1>2 DEF SoloInv

LEMMA GotoKeeps ==
  ASSUME TypeOK, NEW w \in Workers, NEW from, NEW to, Goto(w, from, to)
  PROVE  /\ pc[w] = from /\ pc'[w] = to
         /\ \A r \in Requests : pc'[r] = pc[r]
  BY OthersPlace DEF Goto, TypeOK, Procs

LEMMA SeenKeeps ==
  ASSUME TypeOK, NEW w \in Workers, NEW x,
         seen' = [seen EXCEPT ![w] = x] \/ (seen' = seen /\ x = seen[w])
  PROVE  seen'[w] = x /\ \A r \in Requests : seen'[r] = seen[r]
  BY OthersPlace DEF TypeOK, Procs

\* A worker that is done with the row.
LEMMA Landed ==
  ASSUME NEW w \in Workers,
         pc'[w] \in {"idle", "ack", "give_up", "publish_generate"},
         job'[w].kind = "build" => row'.state \in Handed,
         work'[w] = NoAttempt
  PROVE  WorkerInv(w)'
  BY DEF WorkerInv

\* Taking a message.
LEMMA TakeFacts ==
  ASSUME Known, NEW w \in Workers, NEW j \in Jobs, Take(w, j)
  PROVE  /\ QueueKept
         /\ job'[w] = j
         /\ j.kind = "build" => row.state \in Handed
  <1>1. queue[j] > 0 /\ queue' = [queue EXCEPT ![j] = @ - 1] /\ queue \in [Jobs -> Nat]
    BY DEF Take, Known, TypeOK
  <1>2. QueueKept
    <2> SUFFICES ASSUME NEW i \in Jobs, queue'[i] > 0 PROVE queue[i] > 0
      BY DEF QueueKept
    <2>1. queue[i] \in Nat
      BY <1>1
    <2>2. queue'[i] = IF i = j THEN queue[j] - 1 ELSE queue[i]
      BY <1>1
    <2> QED BY <1>1, <2>1, <2>2
  <1>3. job'[w] = j
    BY DEF Take, Known, TypeOK
  <1> QED BY <1>1, <1>2, <1>3 DEF Known, SoloInv, RowInv

LEMMA TakeGenerateSolo ==
  ASSUME Known, OneAtATime, NEW w \in Workers, NEW j \in Jobs, TakeGenerate(w, j)
  PROVE  SoloInv'
  <1>0. TypeOK
    BY DEF Known
  <1>1. j.kind = "generate" /\ QueueKept /\ job'[w] = j
    BY TakeFacts DEF TakeGenerate
  <1>2. RowInv'
    BY <1>1, RowFrame DEF RowsKept, TakeGenerate, tables
  <1>3. pc[w] = "idle" /\ \A r \in Requests : pc'[r] = pc[r]
    BY <1>0, GotoKeeps DEF TakeGenerate
  <1>4. work[w] = NoAttempt /\ work' = work
    BY <1>3 DEF Known, SoloInv, WorkerInv, TakeGenerate
  <1>5. \A r \in Requests : seen'[r] = seen[r]
    BY <1>0, SeenKeeps DEF TakeGenerate
  <1>6. CASE row.state \in Preparing
    <2>1. pc'[w] = "gen_read" /\ seen'[w] = row
      BY <1>0, <1>6, GotoKeeps, SeenKeeps DEF TakeGenerate
    <2>2. row.state = "CREATED"
      BY <1>6, RowFacts DEF Preparing, Unseen
    <2>3. WorkerInv(w)'
      BY <1>1, <1>4, <2>1, <2>2 DEF WorkerInv, Current, TakeGenerate, tables
    <2> QED BY <1>2, <1>3, <1>5, <2>3, WorkerShows DEF TakeGenerate, tables
  <1>7. CASE row.state \notin Preparing
    <2>1. pc'[w] = "ack"
      BY <1>0, <1>7, GotoKeeps DEF TakeGenerate
    <2>2. WorkerInv(w)'
      BY <1>1, <1>4, <2>1, Landed
    <2> QED BY <1>2, <1>3, <1>5, <2>2, WorkerShows DEF TakeGenerate, tables
  <1> QED BY <1>6, <1>7

LEMMA GenLockSolo ==
  ASSUME Known, OneAtATime, NEW w \in Workers, GenLock(w)
  PROVE  SoloInv'
  <1>0. TypeOK /\ WorkerInv(w)
    BY DEF Known, SoloInv
  <1>1. RowInv'
    BY RowFrame DEF RowsKept, QueueKept, GenLock, tables
  <1>2. pc[w] = "gen_read" /\ pc'[w] = "gen_hold" /\ \A r \in Requests : pc'[r] = pc[r]
    BY <1>0, GotoKeeps DEF GenLock
  <1>3. WorkerInv(w)'
    BY <1>0, <1>2 DEF WorkerInv, Current, GenLock, tables, private
  <1> QED BY <1>1, <1>2, <1>3, WorkerShows DEF GenLock, tables, private

LEMMA GenReadySolo ==
  ASSUME Known, OneAtATime, NEW w \in Workers, GenReady(w)
  PROVE  SoloInv'
  <1>0. TypeOK /\ WorkerInv(w)
    BY DEF Known, SoloInv
  <1>1. /\ row.state = "CREATED"
        /\ row'.state = "READY" /\ row'.reason = "none" /\ row'.deadline = "none"
    BY ReadyRow
  <1>2. RowInv'
    BY <1>1 DEF Known, SoloInv, RowInv, GenReady, private, FailuresAreExplained,
       EveryAnswerIsGraded, VerdictMatchesGrades, Reported, Handed, FailureStates
  <1>3. pc[w] = "gen_hold" /\ pc'[w] = "ack" /\ \A r \in Requests : pc'[r] = pc[r]
    BY <1>0, GotoKeeps DEF GenReady
  <1>4. job[w].kind # "build" /\ work[w] = NoAttempt
    BY <1>0, <1>1, <1>3 DEF WorkerInv, Handed
  <1>5. WorkerInv(w)'
    BY <1>3, <1>4, Landed DEF GenReady, private
  <1> QED BY <1>1, <1>2, <1>3, <1>5, WorkerShows DEF GenReady, private

\* A session whose questions broke off half-way.
LEMMA GenBreaksOffSolo ==
  ASSUME Known, OneAtATime, NEW w \in Workers, GenBreaksOff(w)
  PROVE  SoloInv'
  <1>0. TypeOK /\ WorkerInv(w)
    BY DEF Known, SoloInv
  <1>1. row'.state = "FAILED" /\ row'.reason = "gave_up"
    BY FailRow
  <1>2. pc[w] = "gen_hold" /\ pc'[w] = "ack" /\ \A r \in Requests : pc'[r] = pc[r]
    BY <1>0, GotoKeeps DEF GenBreaksOff
  <1>3. row.state = "CREATED" /\ work[w] = NoAttempt
    BY <1>0, <1>2 DEF WorkerInv
  <1>4. reports' = reports /\ answers' = {} /\ evals' = NoEvals /\ UNCHANGED <<queue, private>>
    BY DEF GenBreaksOff
  <1>5. RowInv'
    BY <1>1, <1>3, <1>4 DEF Known, SoloInv, RowInv, FailuresAreExplained,
       EveryAnswerIsGraded, VerdictMatchesGrades, Reported, Handed, FailureStates, Unstarted
  <1>6. WorkerInv(w)'
    BY <1>1, <1>2, <1>3, <1>4, Landed DEF private, Handed
  <1> QED BY <1>1, <1>2, <1>3, <1>4, <1>5, <1>6, WorkerShows DEF private, Handed

\* A session that could not be prepared, or graded.
LEMMA FailSolo ==
  ASSUME Known, OneAtATime, NEW w \in Workers, GenFail(w) \/ GiveUpWrite(w)
  PROVE  SoloInv'
  <1>0. TypeOK /\ WorkerInv(w)
    BY DEF Known, SoloInv
  <1>1. /\ row.state \in {"CREATED", "EVALUATING"}
        /\ row'.state = "FAILED" /\ row'.reason = "gave_up"
    BY FailRow
  <1>2. UNCHANGED <<gen, answers, evals, reports, queue, private>>
    BY DEF GenFail, GiveUpWrite
  <1>3. RowInv'
    BY <1>1, <1>2 DEF Known, SoloInv, RowInv, FailuresAreExplained,
       EveryAnswerIsGraded, VerdictMatchesGrades, Reported, Handed, FailureStates, Unstarted
  <1>4. pc[w] \in {"gen_hold", "give_up_write"} /\ pc'[w] = "ack"
        /\ \A r \in Requests : pc'[r] = pc[r]
    BY <1>0, GotoKeeps DEF GenFail, GiveUpWrite
  <1>5. work[w] = NoAttempt
    BY <1>0, <1>4 DEF WorkerInv
  <1>6. WorkerInv(w)'
    BY <1>1, <1>2, <1>4, <1>5, Landed DEF private, Handed
  <1> QED BY <1>1, <1>2, <1>3, <1>4, <1>6, WorkerShows DEF private, Handed

-----------------------------------------------------------------------------
(* The worker builds a report.                                              *)

LEMMA TakeBuildSolo ==
  ASSUME Known, OneAtATime, NEW w \in Workers, NEW j \in Jobs, TakeBuild(w, j)
  PROVE  SoloInv'
  <1>0. TypeOK /\ WorkerInv(w)
    BY DEF Known, SoloInv
  <1>1. j.kind = "build" /\ QueueKept /\ job'[w] = j /\ row.state \in Handed
    BY TakeFacts DEF TakeBuild
  <1>2. RowInv'
    BY <1>1, RowFrame DEF RowsKept, TakeBuild, tables
  <1>3. /\ pc[w] = "idle" /\ pc'[w] = IF Unreported THEN "build_open" ELSE "ack"
        /\ \A r \in Requests : pc'[r] = pc[r]
    BY <1>0, GotoKeeps DEF TakeBuild
  <1>4. work'[w] = NoAttempt
    BY <1>0, <1>3 DEF WorkerInv, TakeBuild
  <1>5. WorkerInv(w)'
    BY <1>1, <1>3, <1>4 DEF WorkerInv, Unreported, TakeBuild, tables
  <1> QED BY <1>2, <1>3, <1>5, WorkerShows DEF TakeBuild, tables

LEMMA BuildLoadSolo ==
  ASSUME Known, OneAtATime, NEW w \in Workers, BuildLoad(w)
  PROVE  SoloInv'
  <1>0. TypeOK /\ WorkerInv(w)
    BY DEF Known, SoloInv
  <1>1. RowInv'
    BY RowFrame DEF RowsKept, QueueKept, BuildLoad, tables
  <1>2. /\ pc[w] = "build_open" /\ pc'[w] = "build_read"
        /\ \A r \in Requests : pc'[r] = pc[r]
    BY <1>0, GotoKeeps DEF BuildLoad
  <1>3. seen'[w] = row /\ \A r \in Requests : seen'[r] = seen[r]
    BY <1>0, SeenKeeps DEF BuildLoad
  <1>4. WorkerInv(w)'
    BY <1>0, <1>2, <1>3 DEF WorkerInv, Current, BuildLoad, tables
  <1> QED BY <1>1, <1>2, <1>3, <1>4, WorkerShows DEF BuildLoad, tables

\* The questions an attempt has before it are all of them, if there are any.
LEMMA BuildReadSolo ==
  ASSUME Known, OneAtATime, NEW w \in Workers, BuildRead(w)
  PROVE  SoloInv'
  <1>0. TypeOK /\ WorkerInv(w)
    BY DEF Known, SoloInv
  <1>1. RowInv'
    BY RowFrame DEF RowsKept, QueueKept, BuildRead, tables
  <1>2. /\ pc[w] = "build_read" /\ pc'[w] = "build_loop"
        /\ \A r \in Requests : pc'[r] = pc[r]
    BY <1>0, GotoKeeps DEF BuildRead
  <1>3. Current(w)
    BY <1>0, <1>2 DEF WorkerInv
  <1>4. work[w] = NoAttempt /\ job[w].kind = "build" /\ reports = <<>>
        /\ row.state \in Handed
    BY <1>0, <1>2 DEF WorkerInv
  <1> DEFINE todo == IF gen > 0 THEN Questions ELSE {}
  <1>5. /\ work'[w].todo = todo /\ work'[w].gen = gen
        /\ work'[w].covered = {} /\ work'[w].batch = {} /\ work'[w].cur = {}
        /\ work'[w].mine = NoEvals /\ work'[w].review = FALSE
    BY <1>0, <1>4 DEF BuildRead, TypeOK, Attempts, NoAttempt
  <1>6. row.state = "EVALUATING" => answers = {a \in answers : a[1] \in todo}
    <2>1. row.state = "EVALUATING" => gen > 0
      BY DEF Known, QuestionsComeFirst, Preparing, FailureStates
    <2>2. \A a \in answers : a[1] \in Questions
      BY <1>0 DEF TypeOK, Answers
    <2> QED BY <2>1, <2>2
  <1> HIDE DEF todo
  <1>7. Attempting(w)'
    <2>1. Current(w)'
      BY <1>3 DEF Current, BuildRead, tables
    <2>2. UNCHANGED <<row, answers, gen>>
      BY DEF BuildRead, tables
    <2>3. (work[w].review <=> \E a \in Answers : work[w].mine[a] = "flagged")'
      BY <1>5 DEF NoEvals
    <2> QED BY <1>5, <1>6, <2>1, <2>2, <2>3 DEF Attempting
  <1>8. WorkerInv(w)'
    BY <1>2, <1>4, <1>7 DEF WorkerInv, BuildRead, tables
  <1> QED BY <1>1, <1>2, <1>3, <1>8, WorkerShows DEF BuildRead, tables

\* A step of the loop: nothing but the attempt changes, and it stays one.
LEMMA LoopStep ==
  ASSUME Known, OneAtATime, NEW w \in Workers, pc[w] = "build_loop",
         UNCHANGED <<tables, queue, pc, seen, dirty, want, job>>,
         work'[w].gen = work[w].gen,
         row.state = "EVALUATING" =>
           work'[w].covered \cup work'[w].batch \cup work'[w].cur
             \cup {a \in answers : a[1] \in work'[w].todo}
           = work[w].covered \cup work[w].batch \cup work[w].cur
             \cup {a \in answers : a[1] \in work[w].todo},
         \A a, b \in work'[w].cur : a = b,
         work'[w].review <=> \E a \in Answers : work'[w].mine[a] = "flagged"
  PROVE  SoloInv'
  <1>0. TypeOK /\ WorkerInv(w)
    BY DEF Known, SoloInv
  <1>1. RowInv'
    BY RowFrame DEF RowsKept, QueueKept, tables
  <1>2. Attempting(w) /\ job[w].kind = "build" /\ reports = <<>> /\ row.state \in Handed
    BY <1>0 DEF WorkerInv
  <1>3. Attempting(w)'
    BY <1>2 DEF Attempting, Current, tables
  <1>4. WorkerInv(w)'
    BY <1>2, <1>3 DEF WorkerInv, tables
  <1> QED BY <1>1, <1>4, WorkerShows DEF tables

\* In the loop no answer has a committed evaluation yet.
LEMMA LoopFacts ==
  ASSUME Known, NEW w \in Workers, pc[w] = "build_loop"
  PROVE  /\ Attempting(w) /\ reports = <<>> /\ job[w].kind = "build"
         /\ \A a \in Answers : ~Evaluated(a)
         /\ work[w] \in Attempts /\ work \in [Workers -> Attempts]
  BY RowFacts DEF Known, SoloInv, WorkerInv, TypeOK, Evaluated

LEMMA ReadAnswersSolo ==
  ASSUME Known, OneAtATime, NEW w \in Workers, NEW q \in Questions, ReadAnswers(w, q)
  PROVE  SoloInv'
  <1>1. pc[w] = "build_loop" /\ work[w].cur = {} /\ work[w].batch = {} /\ q \in work[w].todo
    BY DEF ReadAnswers, BetweenAnswers
  <1>2. Attempting(w) /\ work[w] \in Attempts /\ work \in [Workers -> Attempts]
    BY <1>1, LoopFacts
  <1>3. /\ work'[w].todo = work[w].todo \ {q}
        /\ work'[w].batch = {a \in answers : a[1] = q}
        /\ work'[w].cur = {} /\ work'[w].covered = work[w].covered
        /\ work'[w].mine = work[w].mine /\ work'[w].review = work[w].review
        /\ work'[w].gen = work[w].gen
    BY <1>1, <1>2 DEF ReadAnswers, Attempts, Attempting
  <1>4. {a \in answers : a[1] = q} \cup {a \in answers : a[1] \in work[w].todo \ {q}}
          = {a \in answers : a[1] \in work[w].todo}
    BY <1>1
  <1>5. work'[w].covered \cup work'[w].batch \cup work'[w].cur
          \cup {a \in answers : a[1] \in work'[w].todo}
        = work[w].covered \cup work[w].batch \cup work[w].cur
          \cup {a \in answers : a[1] \in work[w].todo}
    BY <1>1, <1>3, <1>4
  <1>6. work[w].review <=> \E a \in Answers : work[w].mine[a] = "flagged"
    BY <1>2 DEF Attempting
  <1>7. UNCHANGED <<tables, queue, pc, seen, dirty, want, job>>
    BY DEF ReadAnswers
  <1> QED BY <1>1, <1>3, <1>5, <1>6, <1>7, LoopStep

LEMMA LookUpSolo ==
  ASSUME Known, OneAtATime, NEW w \in Workers, NEW a \in Answers, LookUp(w, a)
  PROVE  SoloInv'
  <1>1. pc[w] = "build_loop" /\ work[w].cur = {} /\ a \in work[w].batch
    BY DEF LookUp, BetweenAnswers
  <1>2. /\ Attempting(w) /\ work[w] \in Attempts /\ work \in [Workers -> Attempts]
        /\ ~Evaluated(a)
    BY <1>1, LoopFacts
  <1> DEFINE rest == [work[w] EXCEPT !.batch = @ \ {a}]
  <1>3. work'[w] = [rest EXCEPT !.cur = {a}]
    BY <1>2 DEF LookUp
  <1>4. /\ work'[w].todo = work[w].todo
        /\ work'[w].batch = work[w].batch \ {a}
        /\ work'[w].cur = {a} /\ work'[w].covered = work[w].covered
        /\ work'[w].mine = work[w].mine /\ work'[w].review = work[w].review
        /\ work'[w].gen = work[w].gen
    BY <1>2, <1>3 DEF Attempts
  <1>5. work'[w].covered \cup work'[w].batch \cup work'[w].cur
          \cup {b \in answers : b[1] \in work'[w].todo}
        = work[w].covered \cup work[w].batch \cup work[w].cur
          \cup {b \in answers : b[1] \in work[w].todo}
    BY <1>1, <1>4
  <1>6. work[w].review <=> \E b \in Answers : work[w].mine[b] = "flagged"
    BY <1>2 DEF Attempting
  <1>7. UNCHANGED <<tables, queue, pc, seen, dirty, want, job>>
    BY DEF LookUp
  <1> QED BY <1>1, <1>4, <1>5, <1>6, <1>7, LoopStep

LEMMA InsertEvaluationSolo ==
  ASSUME Known, OneAtATime, NEW w \in Workers, NEW a \in Answers, NEW g \in Grades,
         InsertEvaluation(w, a, g)
  PROVE  SoloInv'
  <1>1. pc[w] = "build_loop" /\ a \in work[w].cur
    BY DEF InsertEvaluation, Grading
  <1>2. /\ Attempting(w) /\ work[w] \in Attempts /\ work \in [Workers -> Attempts]
        /\ ~Evaluated(a)
    BY <1>1, LoopFacts
  <1>3. work[w].cur = {a} /\ work[w].mine[a] = "none"
    BY <1>1, <1>2 DEF Attempting, InsertEvaluation, IndexFree
  <1> DEFINE rest == [work[w] EXCEPT !.cur = {}]
             put  == [rest EXCEPT !.mine[a] = g]
  <1>4. work'[w] = Counted(put, a, g)
    BY <1>2 DEF InsertEvaluation
  <1>5. /\ put.todo = work[w].todo /\ put.batch = work[w].batch /\ put.cur = {}
        /\ put.covered = work[w].covered /\ put.review = work[w].review
        /\ put.gen = work[w].gen /\ put.mine = [work[w].mine EXCEPT ![a] = g]
        /\ put \in Attempts
    BY <1>2 DEF Attempts, EvalRows
  <1> HIDE DEF put
  <1>6. /\ work'[w].todo = work[w].todo /\ work'[w].batch = work[w].batch
        /\ work'[w].cur = {} /\ work'[w].covered = work[w].covered \cup {a}
        /\ work'[w].mine = [work[w].mine EXCEPT ![a] = g]
        /\ work'[w].gen = work[w].gen
        /\ work'[w].review = (work[w].review \/ g = "flagged")
    BY <1>4, <1>5 DEF Counted, Attempts
  <1>7. work'[w].covered \cup work'[w].batch \cup work'[w].cur
          \cup {b \in answers : b[1] \in work'[w].todo}
        = work[w].covered \cup work[w].batch \cup work[w].cur
          \cup {b \in answers : b[1] \in work[w].todo}
    BY <1>3, <1>6
  <1>8. work'[w].review <=> \E b \in Answers : work'[w].mine[b] = "flagged"
    <2>1. work[w].review <=> \E b \in Answers : work[w].mine[b] = "flagged"
      BY <1>2 DEF Attempting
    <2>2. work[w].mine \in [Answers -> Grades \cup {"none"}]
      BY <1>2 DEF Attempts, EvalRows
    <2>3. \A b \in Answers : work'[w].mine[b] = IF b = a THEN g ELSE work[w].mine[b]
      BY <1>6, <2>2
    <2>4. (\E b \in Answers : work'[w].mine[b] = "flagged")
            <=> ((\E b \in Answers : work[w].mine[b] = "flagged") \/ g = "flagged")
      BY <1>3, <2>3
    <2> QED BY <1>6, <2>1, <2>4
  <1>9. UNCHANGED <<tables, queue, pc, seen, dirty, want, job>>
    BY DEF InsertEvaluation
  <1> QED BY <1>1, <1>6, <1>7, <1>8, <1>9, LoopStep

\* The report: all the answers, and the verdict their grades ask for.
LEMMA BuildSettlesSolo ==
  ASSUME Known, OneAtATime, NEW w \in Workers, BuildSettles(w)
  PROVE  SoloInv'
  <1>0. TypeOK /\ RowInv
    BY DEF Known, SoloInv
  <1>1. /\ row.state = "EVALUATING"
        /\ row'.state = Verdict(w) /\ row'.reason = "none"
    BY SettleRow
  <1>2. /\ pc[w] = "build_loop" /\ pc'[w] = "ack"
        /\ \A r \in Requests : pc'[r] = pc[r]
    BY <1>0, GotoKeeps DEF BuildSettles
  <1>3. /\ Attempting(w) /\ reports = <<>> /\ job[w].kind = "build"
        /\ \A a \in Answers : ~Evaluated(a)
        /\ work[w] \in Attempts
    BY <1>2, LoopFacts
  <1>4. work[w].covered = answers
    BY <1>1, <1>3 DEF Attempting, BuildSettles, Graded, BetweenAnswers
  <1>5. reports' = <<answers>> /\ answers' = answers
    BY <1>3, <1>4 DEF BuildSettles
  <1>6. (\E a \in Answers : evals'[a] = "flagged")
          <=> (\E a \in Answers : work[w].mine[a] = "flagged")
    <2>1. evals' = EvalsWith(w)
      BY DEF BuildSettles
    <2>2. \A a \in Answers : evals'[a] = work[w].mine[a]
      BY <1>3, <2>1 DEF EvalsWith, Evaluated
    <2> QED BY <2>2
  <1>7. row'.state \in Reported /\ (row'.state = "NEEDS_HUMAN_REVIEW" <=> work[w].review)
    BY <1>1 DEF Verdict, Reported
  <1>8. RowInv'
    <2>1. FailuresAreExplained' /\ EveryAnswerIsGraded'
      BY <1>1, <1>5, <1>7 DEF FailuresAreExplained, EveryAnswerIsGraded, Reported,
         FailureStates
    <2>2. VerdictMatchesGrades'
      BY <1>3, <1>6, <1>7 DEF VerdictMatchesGrades, Attempting
    <2>3. row'.state \notin Unstarted /\ reports' # <<>> /\ row'.state \in Handed
      BY <1>5, <1>7 DEF Unstarted, Reported, Handed
    <2> QED BY <1>7, <2>1, <2>2, <2>3 DEF RowInv
  <1>9. work'[w] = NoAttempt
    BY <1>0 DEF BuildSettles, Forget, TypeOK
  <1>10. row'.state \in Handed
    BY <1>7 DEF Reported, Handed
  <1>11. WorkerInv(w)'
    BY <1>2, <1>9, <1>10, Landed
  <1> QED BY <1>1, <1>2, <1>8, <1>10, <1>11, WorkerShows DEF BuildSettles

-----------------------------------------------------------------------------
(* Retries, giving up, dying, and the reaper.                               *)

\* A worker's step that ends its task and leaves the rows as they are.
LEMMA LandsSolo ==
  ASSUME Known, OneAtATime, NEW w \in Workers, RowsKept, QueueKept,
         pc'[w] \in {"idle", "ack", "give_up", "publish_generate"},
         work'[w] = NoAttempt,
         job'[w] = job[w] \/ job'[w] = FreshJob("generate"),
         \A r \in Requests : pc'[r] = pc[r] /\ seen'[r] = seen[r],
         dirty' = dirty, want' = want
  PROVE  SoloInv'
  <1>1. RowInv'
    BY RowFrame
  <1>2. job'[w].kind = "build" => row'.state \in Handed
    BY DEF Known, SoloInv, WorkerInv, FreshJob, RowsKept
  <1>3. WorkerInv(w)'
    BY <1>2, Landed
  <1> QED BY <1>1, <1>3, WorkerShows DEF RowsKept

LEMMA RolledBack ==
  ASSUME Known, NEW w \in Workers, Rollback(w)
  PROVE  work'[w] = NoAttempt /\ RowsKept
  BY DEF Rollback, Forget, Known, TypeOK, RowsKept, tables

LEMMA EnqueueKept ==
  ASSUME Known, NEW i \in Jobs, Enqueue(i), i.kind = "build" => row.state \in Handed
  PROVE  QueueKept
  <1> SUFFICES ASSUME NEW j \in Jobs, queue'[j] > 0, j.kind = "build"
               PROVE  queue[j] > 0 \/ row.state \in Handed
    BY DEF QueueKept
  <1>1. CASE j # i
    BY <1>1 DEF Enqueue, Known, TypeOK
  <1> QED BY <1>1

\* The loser of a race to write the report needs a second worker.
LEMMA BuildLosesSolo ==
  ASSUME Known, NEW w \in Workers, BuildLoses(w)
  PROVE  FALSE
  BY LoopFacts DEF BuildLoses, Goto, Unreported

LEMMA BuildRaisesSolo ==
  ASSUME Known, OneAtATime, NEW w \in Workers,
         BuildRaises(w) \/ TaskRaises(w) \/ ReasonTooLong(w) \/ DeadlockVictim(w)
  PROVE  SoloInv'
  <1>1. Rollback(w) /\ UNCHANGED <<queue, seen, dirty, want, job>>
    BY DEF BuildRaises, TaskRaises, ReasonTooLong, DeadlockVictim
  <1>2. \E from : Goto(w, from, "ack")
    BY DEF BuildRaises, TaskRaises, ReasonTooLong, DeadlockVictim
  <1>3. pc'[w] = "ack" /\ \A r \in Requests : pc'[r] = pc[r]
    BY <1>2, GotoKeeps DEF Known
  <1>4. work'[w] = NoAttempt /\ RowsKept /\ QueueKept
    BY <1>1, RolledBack DEF QueueKept
  <1> QED BY <1>1, <1>3, <1>4, LandsSolo

LEMMA RetrySolo ==
  ASSUME Known, OneAtATime, NEW w \in Workers, Retry(w)
  PROVE  SoloInv'
  <1>0. TypeOK /\ job[w] \in Jobs
    BY DEF Known, TypeOK
  <1>1. Rollback(w) /\ UNCHANGED <<seen, dirty, want, job>>
    BY DEF Retry
  <1>2. work'[w] = NoAttempt /\ RowsKept
    BY <1>1, RolledBack
  <1>3. CASE job[w].tries < MaxRetries
    <2> DEFINE next == [job[w] EXCEPT !.tries = @ + 1]
    <2>1. next \in Jobs /\ next.kind = job[w].kind
      BY <1>0, <1>3, BoundsAssumption DEF Jobs
    <2>2. Enqueue(next) /\ Goto(w, pc[w], "ack")
      BY <1>3 DEF Retry
    <2> HIDE DEF next
    <2>3. QueueKept
      BY <2>1, <2>2, EnqueueKept DEF Known, SoloInv, WorkerInv
    <2>4. pc'[w] = "ack" /\ \A r \in Requests : pc'[r] = pc[r]
      BY <1>0, <2>2, GotoKeeps
    <2> QED BY <1>1, <1>2, <2>3, <2>4, LandsSolo
  <1>4. CASE ~(job[w].tries < MaxRetries)
    <2>1. queue' = queue /\ Goto(w, pc[w], "give_up")
      BY <1>4 DEF Retry
    <2>2. pc'[w] = "give_up" /\ \A r \in Requests : pc'[r] = pc[r]
      BY <1>0, <2>1, GotoKeeps
    <2>3. QueueKept
      BY <2>1 DEF QueueKept
    <2> QED BY <1>1, <1>2, <2>2, <2>3, LandsSolo
  <1> QED BY <1>3, <1>4

LEMMA WorkerDiesSolo ==
  ASSUME Known, OneAtATime, NEW w \in Workers, WorkerDies(w)
  PROVE  SoloInv'
  <1>0. TypeOK /\ job[w] \in Jobs
    BY DEF Known, TypeOK
  <1>1. work'[w] = NoAttempt /\ RowsKept
    BY RolledBack DEF WorkerDies
  <1>2. QueueKept
    <2>1. CASE Enqueue(job[w])
      BY <1>0, <2>1, EnqueueKept DEF Known, SoloInv, WorkerInv
    <2>2. CASE queue' = queue
      BY <2>2 DEF QueueKept
    <2> QED BY <2>1, <2>2 DEF WorkerDies
  <1>3. pc'[w] = "idle" /\ \A r \in Requests : pc'[r] = pc[r]
    BY <1>0, GotoKeeps DEF WorkerDies
  <1>4. \A r \in Requests : seen'[r] = seen[r]
    BY <1>0, SeenKeeps DEF WorkerDies
  <1>5. job'[w] = FreshJob("generate")
    BY <1>0 DEF WorkerDies, TypeOK
  <1> QED BY <1>1, <1>2, <1>3, <1>4, <1>5, LandsSolo DEF WorkerDies

LEMMA AckSolo ==
  ASSUME Known, OneAtATime, NEW w \in Workers, Ack(w)
  PROVE  SoloInv'
  <1>0. TypeOK
    BY DEF Known
  <1>1. pc[w] = "ack" /\ pc'[w] = "idle" /\ \A r \in Requests : pc'[r] = pc[r]
    BY <1>0, GotoKeeps DEF Ack
  <1>2. work'[w] = NoAttempt
    BY <1>1 DEF Known, SoloInv, WorkerInv, Ack
  <1>3. \A r \in Requests : seen'[r] = seen[r]
    BY <1>0, SeenKeeps DEF Ack
  <1>4. job'[w] = FreshJob("generate")
    BY <1>0 DEF Ack, TypeOK
  <1>5. RowsKept /\ QueueKept
    BY DEF Ack, RowsKept, QueueKept, tables
  <1> QED BY <1>1, <1>2, <1>3, <1>4, <1>5, LandsSolo DEF Ack

\* give_up_session fails what still waits for its questions or its report.
LEMMA GiveUpReadSolo ==
  ASSUME Known, OneAtATime, NEW w \in Workers, GiveUpRead(w)
  PROVE  SoloInv'
  <1>0. TypeOK /\ WorkerInv(w)
    BY DEF Known, SoloInv
  <1>1. /\ pc[w] = "give_up"
        /\ pc'[w] = IF Fails(row.state) THEN "give_up_write" ELSE "ack"
        /\ \A r \in Requests : pc'[r] = pc[r]
    BY <1>0, GotoKeeps DEF GiveUpRead
  <1>2. seen'[w] = row /\ \A r \in Requests : seen'[r] = seen[r]
    BY <1>0, SeenKeeps DEF GiveUpRead
  <1>3. work'[w] = NoAttempt /\ job' = job /\ RowsKept /\ QueueKept
    BY <1>0, <1>1 DEF WorkerInv, GiveUpRead, RowsKept, QueueKept, tables
  <1>4. CASE Fails(row.state)
    <2>1. row.state \in {"CREATED", "EVALUATING"}
      BY <1>4, RowFacts DEF Fails, CanTransition, Transitions, States, Unseen
    <2>2. RowInv'
      BY <1>3, RowFrame
    <2>3. WorkerInv(w)'
      BY <1>0, <1>1, <1>2, <1>3, <1>4, <2>1 DEF WorkerInv, Current, GiveUpRead, tables
    <2> QED BY <1>1, <1>2, <2>2, <2>3, WorkerShows DEF GiveUpRead, tables
  <1>5. CASE ~Fails(row.state)
    BY <1>1, <1>2, <1>3, <1>5, LandsSolo DEF GiveUpRead
  <1> QED BY <1>4, <1>5

LEMMA ReapReadSolo ==
  ASSUME Known, OneAtATime, NEW w \in Workers, ReapRead(w)
  PROVE  SoloInv'
  <1>0. TypeOK /\ WorkerInv(w)
    BY DEF Known, SoloInv
  <1>1. pc[w] = "idle" /\ pc'[w] = "reap" /\ \A r \in Requests : pc'[r] = pc[r]
    BY <1>0, GotoKeeps DEF ReapRead
  <1>2. seen'[w] = row /\ \A r \in Requests : seen'[r] = seen[r]
    BY <1>0, SeenKeeps DEF ReapRead
  <1>3. row.state # "CREATED" => row.state \in Handed
    BY DEF ReapRead, Handed
  <1>4. WorkerInv(w)'
    BY <1>0, <1>1, <1>2, <1>3 DEF WorkerInv, ReapRead, tables
  <1>5. RowInv'
    BY RowFrame DEF RowsKept, QueueKept, ReapRead, tables
  <1> QED BY <1>1, <1>2, <1>4, <1>5, WorkerShows DEF ReapRead, tables

LEMMA ReapClaimSolo ==
  ASSUME Known, OneAtATime, NEW w \in Workers, ReapClaim(w)
  PROVE  SoloInv'
  <1>0. TypeOK /\ WorkerInv(w)
    BY DEF Known, SoloInv
  <1>1. /\ pc[w] = "reap"
        /\ pc'[w] = IF seen[w].state = "CREATED" THEN "publish_generate"
                                                 ELSE "publish_build"
        /\ \A r \in Requests : pc'[r] = pc[r]
    BY <1>0, GotoKeeps DEF ReapClaim
  <1>2. \A r \in Requests : seen'[r] = seen[r]
    BY <1>0, SeenKeeps DEF ReapClaim
  <1>3. WorkerInv(w)'
    BY <1>0, <1>1 DEF WorkerInv, ReapClaim
  <1>4. RowInv'
    BY RowFrame DEF RowsKept, QueueKept, ReapClaim
  <1> QED BY <1>1, <1>2, <1>3, <1>4, WorkerShows DEF ReapClaim

LEMMA WorkerPublishSolo ==
  ASSUME Known, OneAtATime, NEW w \in Workers, NEW k \in Kinds, Publish(w, k)
  PROVE  SoloInv'
  <1>0. TypeOK /\ WorkerInv(w) /\ w \in Procs
    BY DEF Known, SoloInv, Procs
  <1>1. RowInv'
    BY <1>0, PublishQueue DEF WorkerInv
  <1>2. /\ pc[w] \in {"publish_build", "publish_generate"} /\ pc'[w] = "idle"
        /\ \A r \in Requests : pc'[r] = pc[r]
    BY <1>0, GotoKeeps DEF Publish
  <1>3. UNCHANGED <<tables, private>>
    BY DEF Publish
  <1>4. WorkerInv(w)'
    BY <1>0, <1>2, <1>3, Landed DEF WorkerInv, private, tables
  <1> QED BY <1>1, <1>2, <1>3, <1>4, WorkerShows DEF private, tables

\* Time only moves the clock's columns.
LEMMA TimeSolo ==
  ASSUME Known, GrowStale \/ DeadlinePasses
  PROVE  SoloInv'
  <1>1. RowsKept /\ QueueKept /\ UNCHANGED <<pc, private, gen, reports>>
    BY DEF GrowStale, DeadlinePasses, RowsKept, QueueKept, Known, TypeOK, Row
  <1>2. RowInv'
    BY <1>1, RowFrame
  <1>3. \A r \in Requests : RequestInv(r)'
    BY <1>1, RequestFrame DEF RowsKept, private
  <1>4. \A w \in Workers : WorkerInv(w)'
    BY <1>1, WorkerFrame DEF RowsKept, private
  <1> QED BY <1>2, <1>3, <1>4 DEF SoloInv

LEMMA StutterSolo ==
  ASSUME Known, UNCHANGED vars
  PROVE  SoloInv'
  <1>1. RowsKept /\ QueueKept /\ UNCHANGED <<pc, private, gen, reports>>
    BY DEF RowsKept, QueueKept, vars, tables
  <1>2. RowInv'
    BY <1>1, RowFrame
  <1>3. \A r \in Requests : RequestInv(r)'
    BY <1>1, RequestFrame DEF RowsKept, private
  <1>4. \A w \in Workers : WorkerInv(w)'
    BY <1>1, WorkerFrame DEF RowsKept, private
  <1> QED BY <1>2, <1>3, <1>4 DEF SoloInv

LEMMA WorkerSolo ==
  ASSUME Known, OneAtATime, NEW w \in Workers,
         Generate(w) \/ Build(w) \/ Settle(w) \/ Reap(w)
  PROVE  SoloInv'
  <1>1. CASE Generate(w)
    BY <1>1, TakeGenerateSolo, GenLockSolo, GenReadySolo, GenBreaksOffSolo, FailSolo
       DEF Generate
  <1>2. CASE Build(w)
    BY <1>2, TakeBuildSolo, BuildLoadSolo, BuildReadSolo, ReadAnswersSolo, LookUpSolo,
       InsertEvaluationSolo, BuildSettlesSolo, BuildLosesSolo, BuildRaisesSolo DEF Build
  <1>3. CASE Settle(w)
    BY <1>3, RetrySolo, GiveUpReadSolo, FailSolo, AckSolo, BuildRaisesSolo,
       WorkerDiesSolo DEF Settle
  <1>4. CASE Reap(w)
    BY <1>4, ReapReadSolo, ReapClaimSolo, WorkerPublishSolo DEF Reap
  <1> QED BY <1>1, <1>2, <1>3, <1>4

LEMMA NextSolo ==
  ASSUME Known, OneAtATime, [Next]_vars
  PROVE  SoloInv'
  BY RequestSolo, WorkerSolo, TimeSolo, StutterSolo DEF Next

LEMMA InitSolo == Init => SoloInv
  <1> SUFFICES ASSUME Init PROVE SoloInv
    OBVIOUS
  <1>1. row.state = "CREATED" /\ row.reason = "none" /\ row.deadline = "none"
    BY DEF Init, CreatedRow
  <1>2. RowInv
    BY <1>1 DEF Init, RowInv, FailuresAreExplained, EveryAnswerIsGraded,
       VerdictMatchesGrades, Reported, FailureStates
  <1>3. \A p \in Procs : pc[p] \in {"idle", "publish_generate"}
    BY DEF Init
  <1>4. \A r \in Requests : RequestInv(r)
    BY <1>3 DEF RequestInv, Procs
  <1>5. \A w \in Workers : WorkerInv(w)
    BY <1>3 DEF WorkerInv, Procs, Init, FreshJob
  <1> QED BY <1>2, <1>4, <1>5 DEF SoloInv

LEMMA SoloIsKnown ==
  ASSUME OneAtATime
  PROVE  Spec => []Known
  <1>1. Init => SoloInv
    BY InitSolo
  <1>2. TypeOK /\ PreparationIsInvisible /\ QuestionsComeFirst /\ GradesComeWithReport
          /\ SoloInv /\ [Next]_vars => SoloInv'
    BY NextSolo DEF Known
  <1>3. TypeOK /\ PreparationIsInvisible /\ QuestionsComeFirst /\ GradesComeWithReport
          /\ SoloInv => Known
    BY DEF Known
  <1> QED BY <1>1, <1>2, <1>3, TypeCorrect, PreparationInvisible, QuestionsFirst,
             GradesWithReport, PTL DEF Spec

-----------------------------------------------------------------------------
(* What it comes to.                                                        *)

\* A session shows a reason for failing exactly when it has failed: what
\* transition() writes reaches the row whole, because nobody else wrote a column
\* of it in between.
THEOREM FailuresExplained ==
  ASSUME OneAtATime
  PROVE  Spec => []FailuresAreExplained
  <1>1. Known => FailuresAreExplained
    BY DEF Known, SoloInv, RowInv
  <1> QED BY <1>1, SoloIsKnown, PTL

\* The verdict build_report leaves on the session is the one its grades ask for.
THEOREM VerdictFitsGrades ==
  ASSUME OneAtATime
  PROVE  Spec => []VerdictMatchesGrades
  <1>1. Known => VerdictMatchesGrades
    BY DEF Known, SoloInv, RowInv
  <1> QED BY <1>1, SoloIsKnown, PTL

\* No answer that submit_answer accepted is missing from the report: it was
\* committed before finish_session, and build_report reads them all after it.
THEOREM EveryAnswerGraded ==
  ASSUME OneAtATime
  PROVE  Spec => []EveryAnswerIsGraded
  <1>1. Known => EveryAnswerIsGraded
    BY DEF Known, SoloInv, RowInv
  <1> QED BY <1>1, SoloIsKnown, PTL

\* The steps the candidate does not see.
Unnoticed == row'.state = row.state /\ UNCHANGED <<answers, reports>>

LEMMA RequestKeepsPromise ==
  ASSUME Known, NEW r \in Requests, Request(r)
  PROVE  Promise!Next \/ Unnoticed
  <1>1. CASE Save(r)
    <2>1. UNCHANGED <<answers, reports>>
      BY <1>1 DEF Save
    <2>2. \/ row.state = "READY" /\ row'.state = "IN_PROGRESS"
          \/ row.state = "IN_PROGRESS" /\ row'.state = "EXPIRED"
      BY <1>1, SaveRow
    <2> QED BY <2>1, <2>2 DEF Promise!Next, Promise!Begin, Promise!Expire, Promise!Move
  <1>2. CASE Submit(r)
    <2>1. row.state = "IN_PROGRESS" /\ \E a \in Answers : want[r] = {a}
      BY <1>2 DEF Known, SoloInv, RequestInv, Submit, Goto
    <2>2. PICK a \in Answers : want[r] = {a}
      BY <2>1
    <2>3. UNCHANGED <<row, reports>> /\ (answers' = answers \/ answers' = answers \cup {a})
      BY <1>2, <2>2 DEF Submit
    <2>4. CASE answers' = answers \cup {a}
      <3>1. Promise!Answer(a)
        BY <2>1, <2>3, <2>4 DEF Promise!Answer
      <3> QED BY <3>1 DEF Promise!Next
    <2> QED BY <2>3, <2>4 DEF Unnoticed
  <1>3. CASE FinishSave(r)
    <2>1. UNCHANGED <<answers, reports>>
      BY <1>3 DEF FinishSave
    <2>2. row' = row \/ (row.state = "IN_PROGRESS" /\ row'.state = "EVALUATING")
      BY <1>3, FinishRow
    <2> QED BY <2>1, <2>2 DEF Unnoticed, Promise!Next, Promise!Finish, Promise!Move
  <1>4. CASE \/ GetLoad(r) \/ StartLoad(r) \/ FinishLoad(r) \/ RequestDies(r)
             \/ \E a \in Answers : SubmitLoad(r, a)
             \/ \E k \in Kinds : Publish(r, k)
    BY <1>4 DEF Unnoticed, tables, GetLoad, StartLoad, FinishLoad, RequestDies,
       SubmitLoad, Publish
  <1> QED BY <1>1, <1>2, <1>3, <1>4 DEF Request

LEMMA GenerateKeepsPromise ==
  ASSUME Known, NEW w \in Workers, Generate(w)
  PROVE  Promise!Next \/ Unnoticed
  <1>1. CASE GenReady(w)
    <2>1. row.state = "CREATED" /\ row'.state = "READY" /\ answers = {}
      BY <1>1, ReadyRow, RowFacts DEF Unstarted
    <2>2. UNCHANGED <<answers, reports>>
      BY <1>1, <2>1 DEF GenReady
    <2> QED BY <2>1, <2>2 DEF Promise!Next, Promise!Prepare, Promise!Move
  <1>2. CASE GenFail(w)
    <2>1. row.state \in {"CREATED", "EVALUATING"} /\ row'.state = "FAILED"
      BY <1>2, FailRow
    <2>2. UNCHANGED <<answers, reports>>
      BY <1>2 DEF GenFail
    <2> QED BY <2>1, <2>2 DEF Promise!Next, Promise!Abandon, Promise!Move
  <1>3. CASE GenBreaksOff(w)
    <2>1. pc[w] = "gen_hold" /\ row'.state = "FAILED"
      BY <1>3, FailRow DEF GenBreaksOff, Goto
    <2>2. row.state = "CREATED"
      BY <2>1 DEF Known, SoloInv, WorkerInv
    <2>3. answers = {} /\ reports' = reports /\ answers' = answers
      BY <1>3, <2>2, RowFacts DEF GenBreaksOff, Unstarted
    <2> QED BY <2>1, <2>2, <2>3 DEF Promise!Next, Promise!Abandon, Promise!Move
  <1>4. CASE GenLock(w) \/ \E j \in Jobs : TakeGenerate(w, j)
    BY <1>4 DEF Unnoticed, tables, GenLock, TakeGenerate
  <1> QED BY <1>1, <1>2, <1>3, <1>4 DEF Generate

LEMMA BuildKeepsPromise ==
  ASSUME Known, NEW w \in Workers, Build(w)
  PROVE  Promise!Next \/ Unnoticed
  <1>1. CASE BuildSettles(w)
    <2>1. /\ row.state = "EVALUATING"
          /\ row'.state \in {"COMPLETED", "NEEDS_HUMAN_REVIEW"}
      BY <1>1, SettleRow DEF Verdict
    <2>2. pc[w] = "build_loop"
      BY <1>1 DEF BuildSettles, Goto
    <2>3. Attempting(w) /\ reports = <<>>
      BY <2>2, LoopFacts
    <2>4. work[w].covered = answers
      BY <1>1, <2>1, <2>3 DEF Attempting, BuildSettles, Graded, BetweenAnswers
    <2>5. reports' = <<answers>> /\ answers' = answers
      BY <1>1, <2>3, <2>4 DEF BuildSettles
    <2> QED BY <2>1, <2>3, <2>5 DEF Promise!Next, Promise!Settle, Promise!Move
  <1>2. CASE BuildLoses(w)
    BY <1>2, BuildLosesSolo
  <1>3. CASE BuildLoad(w) \/ BuildRead(w) \/ BuildRaises(w) \/ \E j \in Jobs : TakeBuild(w, j)
    BY <1>3 DEF Unnoticed, tables, BuildLoad, BuildRead, BuildRaises, TakeBuild, Rollback
  <1>4. CASE \/ \E q \in Questions : ReadAnswers(w, q)
             \/ \E a \in Answers : LookUp(w, a)
             \/ \E a \in Answers, g \in Grades : InsertEvaluation(w, a, g)
    BY <1>4 DEF Unnoticed, tables, ReadAnswers, LookUp, InsertEvaluation
  <1> QED BY <1>1, <1>2, <1>3, <1>4 DEF Build

LEMMA SettleKeepsPromise ==
  ASSUME Known, NEW w \in Workers, Settle(w) \/ Reap(w)
  PROVE  Promise!Next \/ Unnoticed
  <1>1. CASE GiveUpWrite(w)
    <2>1. row.state \in {"CREATED", "EVALUATING"} /\ row'.state = "FAILED"
      BY <1>1, FailRow
    <2>2. UNCHANGED <<answers, reports>>
      BY <1>1 DEF GiveUpWrite
    <2> QED BY <2>1, <2>2 DEF Promise!Next, Promise!Abandon, Promise!Move
  <1>2. CASE \/ Retry(w) \/ GiveUpRead(w) \/ Ack(w) \/ TaskRaises(w) \/ ReasonTooLong(w)
             \/ WorkerDies(w) \/ DeadlockVictim(w)
    BY <1>2 DEF Unnoticed, tables, Retry, GiveUpRead, Ack, TaskRaises, ReasonTooLong,
       WorkerDies, DeadlockVictim, Rollback
  <1>3. CASE ReapRead(w) \/ ReapClaim(w) \/ \E k \in Kinds : Publish(w, k)
    BY <1>3 DEF Unnoticed, tables, ReapRead, ReapClaim, Publish
  <1> QED BY <1>1, <1>2, <1>3 DEF Settle, Reap

LEMMA StepKeepsPromise ==
  ASSUME Known, [Next]_vars
  PROVE  [Promise!Next]_(Promise!vars)
  <1>1. CASE GrowStale \/ DeadlinePasses \/ UNCHANGED vars
    BY <1>1 DEF Known, TypeOK, Row, Unnoticed, GrowStale, DeadlinePasses, vars, tables,
       Promise!vars
  <1>2. CASE (\E r \in Requests : Request(r))
             \/ \E w \in Workers : Generate(w) \/ Build(w) \/ Settle(w) \/ Reap(w)
    BY <1>2, RequestKeepsPromise, GenerateKeepsPromise, BuildKeepsPromise,
       SettleKeepsPromise DEF Unnoticed, Promise!vars
  <1> QED BY <1>1, <1>2 DEF Next

\* The candidate gets the interview the abstract module promises: every step of
\* the requests, the worker, the reaper and the faults is one of its steps or
\* changes nothing the candidate reads.
THEOREM PromiseKept ==
  ASSUME OneAtATime
  PROVE  Spec => KeepsPromise
  <1>1. Init => Promise!Init
    BY DEF Init, CreatedRow, Promise!Init
  <1>2. Known /\ [Next]_vars => [Promise!Next]_(Promise!vars)
    BY StepKeepsPromise
  <1> QED BY <1>1, <1>2, SoloIsKnown, PTL DEF Spec, KeepsPromise, Promise!Spec

=============================================================================
