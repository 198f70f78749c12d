---------------------------- MODULE ResumeProofs ----------------------------
(***************************************************************************)
(* Theorems about Resume, for any number of workers, sessions, retries and *)
(* faults, and any budget.                                                 *)
(***************************************************************************)
EXTENDS Resume, TLAPS, FiniteSetTheorems

-----------------------------------------------------------------------------
(* What each worker may rely on *)

\* A parse holds the row from its flush to its commit, and knows the skills it is to
\* delete; a transaction without the row writes nothing of the resume.
Consistent(w) ==
  LET t == txn[w] IN
  /\ lock = w =>
       /\ pc[w] \in {"parse", "ask", "commit"}
       /\ t.seen.status = "parsing"
       /\ pc[w] = "ask" => t.row.status = "parsed"
       /\ pc[w] = "commit" => t.row.status \in {"parsed", "failed"}
       /\ t.row.status = "parsed" => t.inserts = {w}
  /\ pc[w] = "parse" => lock = w
  /\ t.inserts # {} => lock = w /\ t.inserts = {w} /\ t.deletes = skills
  /\ t.inserts = {} => t.deletes = {}
  /\ pc[w] \in {"ask", "grade", "commit"} /\ lock # w => t.row = t.seen

\* A job that is to end in questions or grades has skills to rest on.
JobHasSkills(j) ==
  /\ j.kind = "parse" => j.of = Nobody
  /\ j.kind = "grade" => skills # {}

Prepared(w) ==
  LET t == txn[w] IN
  /\ JobHasSkills(job[w])
  /\ pc[w] = "grade" => job[w].kind = "grade"
  /\ pc[w] = "ask" => skills # {} \/ t.inserts # {}
  /\ pc[w] = "commit" /\ job[w].kind = "generate" =>
       /\ t.verdict \in {"ready", "failed"}
       /\ t.verdict = "ready" => skills # {} \/ t.inserts # {}

OneParse == skills = {} \/ \E w \in Workers : skills = {w}

\* ResumeInv is not inductive: whether skills are replaced or doubled is decided by
\* what the parses under way have seen.
ResumeIInv ==
  /\ TypeOK /\ LedgerKeepsUp
  /\ OneParse /\ ParsedHasSkills /\ ReadyHasSkills
  /\ \A w \in Workers : Consistent(w) /\ Prepared(w)
  /\ \A j \in queue : JobHasSkills(j)

-----------------------------------------------------------------------------
(* Lemmas *)

LEMMA NoTxnType == NoTxn \in Txns /\ ParseJob \in Jobs
  BY ResumeAssumption DEF NoTxn, Txns, NewRow, Row, Statuses, ParseJob, Job, Jobs

\* The invariant is that of the statements the runs check.
LEMMA InvOfIInv == ResumeIInv => ResumeInv
  <1> SUFFICES ASSUME ResumeIInv PROVE ResumeInv
    OBVIOUS
  <1>1. SkillsOfOneParse
    <2>1. CASE skills = {}
      BY <2>1, FS_EmptySet DEF SkillsOfOneParse
    <2>2. ASSUME NEW w \in Workers, skills = {w} PROVE SkillsOfOneParse
      BY <2>2, FS_Singleton DEF SkillsOfOneParse
    <2> QED BY <2>1, <2>2 DEF ResumeIInv, OneParse
  <1> QED BY <1>1 DEF ResumeIInv, ResumeInv

\* A step of w leaves what another worker relies on, unless it takes the row from it
\* or changes the skills under it.
LEMMA OthersConsistent ==
  ASSUME NEW v \in Workers, Consistent(v),
         txn'[v] = txn[v], pc'[v] = pc[v], lock' = v <=> lock = v,
         skills' = skills \/ lock # v
  PROVE  Consistent(v)'
  BY DEF Consistent

LEMMA OthersPrepared ==
  ASSUME NEW v \in Workers, Prepared(v),
         txn'[v] = txn[v], pc'[v] = pc[v], job'[v] = job[v],
         skills # {} => skills' # {}
  PROVE  Prepared(v)'
  BY DEF Prepared, JobHasSkills

-----------------------------------------------------------------------------
(* Requests *)

\* No request touches a transaction, the row or the skills.
LEMMA RequestStep ==
  ASSUME ResumeIInv,
         \/ Store \/ Insert \/ Publish
         \/ \E s \in Sessions : Check(s) \/ Create(s) \/ Finish(s)
  PROVE  ResumeIInv'
  <1> USE ResumeAssumption, NoTxnType DEF ResumeIInv
  <1>1. UNCHANGED <<resume, skills, lock, job, pc, txn, lost>>
    BY DEF Store, Insert, Publish, Check, Create, Finish, Send, rows, bill, wrk
  <1>2. TypeOK' /\ LedgerKeepsUp'
    <2>1. CASE Store \/ Insert
      BY <2>1 DEF Store, Insert, rows, bill, wrk, TypeOK, LedgerKeepsUp
    <2>2. CASE Publish
      BY <2>2 DEF Publish, Fault, rows, bill, TypeOK, LedgerKeepsUp
    <2>3. ASSUME NEW s \in Sessions, Check(s) PROVE TypeOK' /\ LedgerKeepsUp'
      BY <2>3 DEF Check, bill, wrk, TypeOK, LedgerKeepsUp
    <2>4. ASSUME NEW s \in Sessions, Create(s) \/ Finish(s) PROVE TypeOK' /\ LedgerKeepsUp'
      <3>1. Job("generate", s) \in Jobs /\ Job("grade", s) \in Jobs
        BY DEF Job, Jobs
      <3> QED BY <2>4, <3>1 DEF Create, Finish, Send, bill, TypeOK, LedgerKeepsUp
    <2> QED BY <2>1, <2>2, <2>3, <2>4
  <1>3. ReadyHasSkills' /\ \A j \in queue' : JobHasSkills(j)'
    <2>1. CASE Store \/ Insert
      BY <2>1 DEF Store, Insert, rows, wrk, ReadyHasSkills, JobHasSkills
    <2>2. CASE Publish
      BY <2>2 DEF Publish, rows, ReadyHasSkills, JobHasSkills, ParseJob, Job
    <2>3. ASSUME NEW s \in Sessions, Check(s)
          PROVE  ReadyHasSkills' /\ \A j \in queue' : JobHasSkills(j)'
      BY <2>3 DEF Check, wrk, TypeOK, ReadyHasSkills, JobHasSkills
    <2>4. ASSUME NEW s \in Sessions, Create(s)
          PROVE  ReadyHasSkills' /\ \A j \in queue' : JobHasSkills(j)'
      BY <2>4 DEF Create, Send, TypeOK, ReadyHasSkills, JobHasSkills, Job
    <2>5. ASSUME NEW s \in Sessions, Finish(s)
          PROVE  ReadyHasSkills' /\ \A j \in queue' : JobHasSkills(j)'
      BY <2>5 DEF Finish, Send, TypeOK, ReadyHasSkills, JobHasSkills, Job
    <2> QED BY <2>1, <2>2, <2>3, <2>4, <2>5
  <1> QED
    BY <1>1, <1>2, <1>3 DEF OneParse, ParsedHasSkills, Consistent, Prepared, JobHasSkills

-----------------------------------------------------------------------------
(* Tasks *)

LEMMA InitInv == Init => ResumeIInv
  <1> SUFFICES ASSUME Init PROVE ResumeIInv
    OBVIOUS
  <1>1. TypeOK /\ LedgerKeepsUp
    BY ResumeAssumption, NoTxnType DEF Init, TypeOK, LedgerKeepsUp, NewRow, Row, Statuses
  <1> QED
    BY <1>1, ResumeAssumption DEF Init, ResumeIInv, OneParse, ParsedHasSkills, ReadyHasSkills,
       Consistent, Prepared, JobHasSkills, NewRow, NoTxn, ParseJob, Job

\* The types of a step of w: those of what it changes of its own.
LEMMA TypesOfStep ==
  ASSUME TypeOK, NEW w \in Workers, NEW l, NEW t \in Txns,
         l \in {"idle", "flush", "parse", "ask", "grade", "commit", "raised", "give_up",
               "write_off"},
         pc' = [pc EXCEPT ![w] = l], txn' = [txn EXCEPT ![w] = t],
         upload' = upload, resume' \in Row, skills' \in SUBSET Workers,
         sessions' \in [Sessions -> {"new", "admitted", "waiting", "ready", "finished",
                                    "graded", "failed"}],
         lock' \in Workers \cup {Nobody}, queue' \in SUBSET Jobs,
         job' \in [Workers -> Jobs],
         spent' \in 0 .. MaxSpent, lost' \in 0 .. MaxFaults, faults' \in 0 .. MaxFaults
  PROVE  TypeOK'
  BY DEF TypeOK

LEMMA TakeStep ==
  ASSUME ResumeIInv, NEW w \in Workers, Take(w)
  PROVE  ResumeIInv'
  <1> USE ResumeAssumption DEF ResumeIInv
  <1>1. PICK j \in queue :
          /\ queue' = queue \ {j}
          /\ job' = [job EXCEPT ![w] = j]
          /\ txn' = [txn EXCEPT ![w] = [NoTxn EXCEPT !.seen = resume, !.row = resume]]
          /\ pc' = [pc EXCEPT ![w] = IF j.kind = "grade" THEN "grade"
                                   ELSE IF ~IsParsed(resume) THEN "flush"
                                   ELSE IF j.kind = "parse" THEN "commit" ELSE "ask"]
    BY DEF Take, Goto
  <1>2. UNCHANGED <<upload, resume, skills, sessions, spent, lost, lock, faults>> /\ pc[w] = "idle"
    BY DEF Take, rows, bill
  <1> DEFINE t == [NoTxn EXCEPT !.seen = resume, !.row = resume]
  <1>3. /\ t \in Txns /\ t.seen = resume /\ t.row = resume
        /\ t.deletes = {} /\ t.inserts = {}
    <2>1. resume \in Row
      BY DEF TypeOK
    <2>2. NoTxn.deletes = {} /\ NoTxn.inserts = {}
      BY DEF NoTxn
    <2> QED BY <2>1, <2>2, NoTxnType DEF Txns
  <1>4. txn' = [txn EXCEPT ![w] = t] /\ txn'[w] = t /\ job'[w] = j /\ j \in Jobs
    BY <1>1, <1>3 DEF TypeOK
  <1>5. TypeOK' /\ LedgerKeepsUp'
    BY <1>1, <1>2, <1>3, <1>4 DEF TypeOK, LedgerKeepsUp
  <1>6. lock # w
    BY <1>2 DEF Consistent
  <1>7. Consistent(w)' /\ Prepared(w)'
    <2>1. pc'[w] # "parse" /\ (pc'[w] = "ask" => resume.status = "parsed")
          /\ (pc'[w] = "commit" => j.kind = "parse") /\ (pc'[w] = "grade" => j.kind = "grade")
      BY <1>1 DEF TypeOK, IsParsed
    <2>2. JobHasSkills(j)
      OBVIOUS
    <2> HIDE DEF t
    <2> QED
      BY <1>2, <1>3, <1>4, <1>6, <2>1, <2>2 DEF Consistent, Prepared, JobHasSkills, ParsedHasSkills
  <1>8. ASSUME NEW v \in Workers, v # w PROVE Consistent(v)' /\ Prepared(v)'
    <2>1. txn'[v] = txn[v] /\ pc'[v] = pc[v] /\ job'[v] = job[v]
      BY <1>1, <1>4, <1>8 DEF TypeOK
    <2> QED BY <1>2, <2>1, OthersConsistent, OthersPrepared
  <1>9. \A k \in queue' : JobHasSkills(k)'
    BY <1>1, <1>2 DEF JobHasSkills
  <1> QED
    BY <1>2, <1>5, <1>7, <1>8, <1>9 DEF OneParse, ParsedHasSkills, ReadyHasSkills

\* A step by which w changes only its transaction and, at most, takes the row.
LEMMA OwnStep ==
  ASSUME ResumeIInv, NEW w \in Workers, TypeOK', LedgerKeepsUp',
         UNCHANGED <<resume, skills, sessions, job, queue>>,
         \A v \in Workers \ {w} : txn'[v] = txn[v] /\ pc'[v] = pc[v],
         \A v \in Workers \ {w} : lock' = v <=> lock = v,
         Consistent(w)', Prepared(w)'
  PROVE  ResumeIInv'
  <1>1. ASSUME NEW v \in Workers, v # w PROVE Consistent(v)' /\ Prepared(v)'
    BY <1>1, OthersConsistent, OthersPrepared DEF ResumeIInv
  <1>2. \A k \in queue' : JobHasSkills(k)'
    BY DEF ResumeIInv, JobHasSkills
  <1> QED
    BY <1>1, <1>2 DEF ResumeIInv, OneParse, ParsedHasSkills, ReadyHasSkills

LEMMA ChargedType ==
  ASSUME TypeOK, LedgerKeepsUp, NEW kept \in BOOLEAN, Charged(kept)
  PROVE  spent' \in 0 .. MaxSpent /\ lost' = lost
  BY ResumeAssumption DEF TypeOK, Charged

LEMMA FlushStep ==
  ASSUME ResumeIInv, NEW w \in Workers, Flush(w)
  PROVE  ResumeIInv'
  <1> USE ResumeAssumption DEF ResumeIInv
  <1> DEFINE old == txn[w]
             t == [old EXCEPT !.row.status = "parsing", !.seen.status = "parsing"]
  <1>1. old \in Txns
    BY DEF TypeOK
  <1>2. txn' = [txn EXCEPT ![w] = t]
    BY ZenonT(60) DEF Flush, TypeOK
  <1>3. /\ t \in Txns /\ t.seen.status = "parsing" /\ t.row.status = "parsing"
        /\ t.deletes = old.deletes /\ t.inserts = old.inserts
    BY <1>1 DEF Txns, Row, Statuses
  <1>4. /\ pc[w] = "flush" /\ pc' = [pc EXCEPT ![w] = "parse"] /\ lock = Nobody /\ lock' = w
        /\ UNCHANGED <<upload, resume, skills, sessions, spent, lost, queue, job, faults>>
    BY DEF Flush, Goto, MayLock, rows, bill
  <1>5. TypeOK' /\ LedgerKeepsUp'
    BY <1>2, <1>3, <1>4 DEF TypeOK, LedgerKeepsUp
  <1>6. txn'[w] = t /\ pc'[w] = "parse" /\ job'[w] = job[w]
    BY <1>2, <1>4 DEF TypeOK
  <1>7. Consistent(w)' /\ Prepared(w)'
    <2> HIDE DEF t
    <2> QED BY <1>3, <1>4, <1>6 DEF Consistent, Prepared, JobHasSkills
  <1>8. \A v \in Workers \ {w} : txn'[v] = txn[v] /\ pc'[v] = pc[v]
    BY <1>2, <1>4 DEF TypeOK
  <1> QED BY <1>4, <1>5, <1>7, <1>8, OwnStep

LEMMA AnswerStep ==
  ASSUME ResumeIInv, NEW w \in Workers, Parsed(w) \/ Unreadable(w) \/ Asked(w)
  PROVE  ResumeIInv'
  <1> USE ResumeAssumption DEF ResumeIInv
  <1> DEFINE old == txn[w]
  <1>1. old \in Txns
    BY DEF TypeOK
  <1>2. /\ UNCHANGED <<upload, resume, skills, sessions, lost, lock, queue, job, faults>>
        /\ spent' \in 0 .. MaxSpent
    BY ChargedType DEF Parsed, Unreadable, Asked, rows
  <1>3. CASE Parsed(w)
    <2> DEFINE t == [old EXCEPT !.row = [status |-> "parsed", reason |-> "none"],
                                !.deletes = skills, !.inserts = {w}]
    <2>1. txn' = [txn EXCEPT ![w] = t]
      BY <1>3 DEF Parsed, TypeOK
    <2>2. /\ t \in Txns /\ t.seen = old.seen /\ t.row.status = "parsed"
          /\ t.deletes = skills /\ t.inserts = {w}
      BY <1>1 DEF Txns, Row, Statuses, TypeOK
    <2>3. /\ pc[w] = "parse" /\ pc'[w] \in {"commit", "ask"}
          /\ pc'[w] = "commit" => job[w].kind = "parse"
          /\ pc' = [pc EXCEPT ![w] = pc'[w]]
      BY <1>3 DEF Parsed, Goto, TypeOK
    <2>4. TypeOK' /\ LedgerKeepsUp'
      BY <1>2, <2>1, <2>2, <2>3 DEF TypeOK, LedgerKeepsUp
    <2>5. txn'[w] = t /\ job'[w] = job[w]
      BY <1>2, <2>1 DEF TypeOK
    <2>6. Consistent(w)' /\ Prepared(w)'
      <3> HIDE DEF t
      <3> QED BY <1>2, <2>2, <2>3, <2>5 DEF Consistent, Prepared, JobHasSkills
    <2>7. \A v \in Workers \ {w} : txn'[v] = txn[v] /\ pc'[v] = pc[v]
      BY <2>1, <2>3 DEF TypeOK
    <2> QED BY <1>2, <2>4, <2>6, <2>7, OwnStep
  <1>4. CASE Unreadable(w)
    <2> DEFINE t == [old EXCEPT !.row.status = "failed", !.verdict = "failed"]
    <2>1. txn' = [txn EXCEPT ![w] = t]
      BY <1>4 DEF Unreadable, TypeOK
    <2>2. /\ t \in Txns /\ t.seen = old.seen /\ t.row.status = "failed"
          /\ t.deletes = old.deletes /\ t.inserts = old.inserts /\ t.verdict = "failed"
      BY <1>1 DEF Txns, Row, Statuses
    <2>3. pc[w] = "parse" /\ pc' = [pc EXCEPT ![w] = "commit"]
      BY <1>4 DEF Unreadable, Goto
    <2>4. TypeOK' /\ LedgerKeepsUp'
      BY <1>2, <2>1, <2>2, <2>3 DEF TypeOK, LedgerKeepsUp
    <2>5. txn'[w] = t /\ job'[w] = job[w] /\ pc'[w] = "commit"
      BY <1>2, <2>1, <2>3 DEF TypeOK
    <2>6. Consistent(w)' /\ Prepared(w)'
      <3> HIDE DEF t
      <3> QED BY <1>2, <2>2, <2>3, <2>5 DEF Consistent, Prepared, JobHasSkills
    <2>7. \A v \in Workers \ {w} : txn'[v] = txn[v] /\ pc'[v] = pc[v]
      BY <2>1, <2>3 DEF TypeOK
    <2> QED BY <1>2, <2>4, <2>6, <2>7, OwnStep
  <1>5. CASE Asked(w)
    <2>1. PICK v \in {"ready", "failed"} : txn' = [txn EXCEPT ![w].verdict = v]
      BY <1>5 DEF Asked
    <2> DEFINE t == [old EXCEPT !.verdict = v]
    <2>2. txn' = [txn EXCEPT ![w] = t]
      BY <2>1 DEF TypeOK
    <2>3. /\ t \in Txns /\ t.seen = old.seen /\ t.row = old.row
          /\ t.deletes = old.deletes /\ t.inserts = old.inserts /\ t.verdict = v
      BY <1>1 DEF Txns
    <2>4. pc[w] \in {"ask", "grade"} /\ pc' = [pc EXCEPT ![w] = "commit"]
      BY <1>5 DEF Asked, Goto
    <2>5. TypeOK' /\ LedgerKeepsUp'
      BY <1>2, <2>2, <2>3, <2>4 DEF TypeOK, LedgerKeepsUp
    <2>6. txn'[w] = t /\ job'[w] = job[w] /\ pc'[w] = "commit"
      BY <1>2, <2>2, <2>4 DEF TypeOK
    <2>7. Consistent(w)' /\ Prepared(w)'
      <3> HIDE DEF t
      <3> QED BY <1>2, <2>3, <2>4, <2>6 DEF Consistent, Prepared, JobHasSkills
    <2>8. \A u \in Workers \ {w} : txn'[u] = txn[u] /\ pc'[u] = pc[u]
      BY <2>2, <2>4 DEF TypeOK
    <2> QED BY <1>2, <2>5, <2>7, <2>8, OwnStep
  <1> QED BY <1>3, <1>4, <1>5

\* The job again, or another attempt at it.
IsLike(k, j) == k.kind = j.kind /\ k.of = j.of

\* A step that undoes w's transaction or has none, and gives the row back.
LEMMA EndStep ==
  ASSUME ResumeIInv, NEW w \in Workers, TypeOK', LedgerKeepsUp',
         UNCHANGED <<skills, job>>,
         resume'.status \in {resume.status, "failed"},
         \A s \in Sessions : sessions'[s] \in {sessions[s], "failed"},
         Release(w) \/ UNCHANGED lock, lock' # w,
         \A v \in Workers \ {w} : txn'[v] = txn[v] /\ pc'[v] = pc[v],
         pc'[w] \in {"idle", "raised", "give_up", "write_off"},
         txn'[w].inserts = {} /\ txn'[w].deletes = {},
         \A k \in queue' : k \in queue \/ IsLike(k, job[w])
  PROVE  ResumeIInv'
  <1> USE ResumeAssumption DEF ResumeIInv
  <1>1. Consistent(w)' /\ Prepared(w)'
    BY DEF Consistent, Prepared, JobHasSkills
  <1>2. ASSUME NEW v \in Workers, v # w PROVE Consistent(v)' /\ Prepared(v)'
    <2>1. lock' = v <=> lock = v
      BY <1>2 DEF Release
    <2> QED BY <1>2, <2>1, OthersConsistent, OthersPrepared
  <1>3. ParsedHasSkills' /\ ReadyHasSkills' /\ OneParse'
    BY DEF ParsedHasSkills, ReadyHasSkills, OneParse
  <1>4. \A k \in queue' : JobHasSkills(k)'
    BY DEF Prepared, JobHasSkills, IsLike
  <1> QED BY <1>1, <1>2, <1>3, <1>4

LEMMA LockFree ==
  ASSUME TypeOK, NEW w \in Workers, Release(w)
  PROVE  lock' # w /\ lock' \in Workers \cup {Nobody}
  BY ResumeAssumption DEF Release, TypeOK

\* Transient errors, the retry, and the end of retries.
LEMMA TroubleStep ==
  ASSUME ResumeIInv, NEW w \in Workers, Busy(w) \/ Retry(w) \/ GiveUp(w) \/ WriteOff(w)
  PROVE  ResumeIInv'
  <1> USE ResumeAssumption DEF ResumeIInv
  <1>1. CASE Busy(w)
    <2>1. /\ UNCHANGED <<upload, resume, skills, sessions, lost, queue, job, faults>>
          /\ spent' \in 0 .. MaxSpent
      BY <1>1, ChargedType DEF Busy, rows
    <2>2. txn' = [txn EXCEPT ![w] = NoTxn] /\ pc' = [pc EXCEPT ![w] = "raised"] /\ Release(w)
      BY <1>1 DEF Busy, Rollback, Goto
    <2>3. TypeOK' /\ LedgerKeepsUp'
      BY <2>1, <2>2, NoTxnType, LockFree DEF TypeOK, LedgerKeepsUp
    <2>4. /\ txn'[w] = NoTxn /\ pc'[w] = "raised"
          /\ \A v \in Workers \ {w} : txn'[v] = txn[v] /\ pc'[v] = pc[v]
      BY <2>2 DEF TypeOK
    <2>5. NoTxn.inserts = {} /\ NoTxn.deletes = {}
      BY DEF NoTxn
    <2> QED BY <2>1, <2>2, <2>3, <2>4, <2>5, LockFree, EndStep
  <1>2. CASE Retry(w)
    <2>1. /\ UNCHANGED <<upload, resume, skills, sessions, spent, lost, lock, job, txn, faults>>
          /\ pc[w] = "raised"
      BY <1>2 DEF Retry, rows, bill
    <2> DEFINE again == [job[w] EXCEPT !.tries = @ + 1]
    <2>2. \/ job[w].tries < MaxRetries /\ queue' = queue \cup {again} /\ pc' = [pc EXCEPT ![w] = "idle"]
          \/ queue' = queue /\ pc' = [pc EXCEPT ![w] = "give_up"]
      BY <1>2 DEF Retry, MayRetry, Goto
    <2>3. job[w] \in Jobs
      BY DEF TypeOK
    <2>4. job[w].tries < MaxRetries => again \in Jobs
      BY <2>3 DEF Jobs
    <2>5. again.kind = job[w].kind /\ again.of = job[w].of
      BY <2>3 DEF Jobs
    <2>6. TypeOK' /\ LedgerKeepsUp'
      BY <2>1, <2>2, <2>4 DEF TypeOK, LedgerKeepsUp
    <2>7. /\ txn'[w] = txn[w] /\ pc'[w] \in {"idle", "give_up"}
          /\ \A v \in Workers \ {w} : txn'[v] = txn[v] /\ pc'[v] = pc[v]
      BY <2>1, <2>2 DEF TypeOK
    <2>8. lock # w /\ txn[w].inserts = {} /\ txn[w].deletes = {}
      BY <2>1 DEF Consistent
    <2>9. \A k \in queue' : k \in queue \/ IsLike(k, job[w])
      BY <2>2, <2>5 DEF IsLike
    <2> QED BY <2>1, <2>6, <2>7, <2>8, <2>9, EndStep
  <1>3. CASE GiveUp(w)
    <2>1. /\ UNCHANGED <<upload, resume, skills, spent, lost, lock, queue, job, faults>>
          /\ pc[w] = "give_up"
      BY <1>3 DEF GiveUp, bill
    <2>2. lock # w /\ txn[w].inserts = {} /\ txn[w].deletes = {}
      BY <2>1 DEF Consistent
    <2>3. CASE job[w].kind = "parse"
      <3> DEFINE t == [txn[w] EXCEPT !.seen = resume]
      <3>1. /\ txn' = [txn EXCEPT ![w] = t] /\ UNCHANGED sessions
            /\ pc' = [pc EXCEPT ![w] = IF IsParsed(resume) THEN "idle" ELSE "write_off"]
        BY <1>3, <2>3 DEF GiveUp, Goto, TypeOK
      <3>2. t \in Txns /\ t.inserts = txn[w].inserts /\ t.deletes = txn[w].deletes
        BY DEF TypeOK, Txns
      <3>3. TypeOK' /\ LedgerKeepsUp'
        BY <2>1, <3>1, <3>2 DEF TypeOK, LedgerKeepsUp
      <3>4. /\ txn'[w] = t /\ pc'[w] \in {"idle", "write_off"}
            /\ \A v \in Workers \ {w} : txn'[v] = txn[v] /\ pc'[v] = pc[v]
        BY <3>1 DEF TypeOK
      <3> HIDE DEF t
      <3> QED BY <2>1, <2>2, <3>1, <3>2, <3>3, <3>4, EndStep
    <2>4. CASE job[w].kind # "parse"
      <3>1. /\ sessions' = [sessions EXCEPT ![job[w].of] = "failed"]
            /\ pc' = [pc EXCEPT ![w] = "idle"] /\ UNCHANGED txn
        BY <1>3, <2>4 DEF GiveUp, GivenUp, Goto
      <3>2. TypeOK' /\ LedgerKeepsUp'
        BY <2>1, <3>1 DEF TypeOK, LedgerKeepsUp
      <3>3. /\ pc'[w] = "idle" /\ \A v \in Workers \ {w} : pc'[v] = pc[v]
            /\ \A s \in Sessions : sessions'[s] \in {sessions[s], "failed"}
        BY <3>1 DEF TypeOK
      <3> QED BY <2>1, <2>2, <3>1, <3>2, <3>3, EndStep
    <2> QED BY <2>3, <2>4
  <1>4. CASE WriteOff(w)
    <2> DEFINE gone == [status |-> "failed", reason |-> "given"]
    <2>1. /\ UNCHANGED <<upload, skills, sessions, spent, lost, lock, queue, job, faults>>
          /\ pc[w] = "write_off" /\ resume' = Written(resume, txn[w].seen, gone)
          /\ txn' = [txn EXCEPT ![w] = NoTxn] /\ pc' = [pc EXCEPT ![w] = "idle"]
      BY <1>4 DEF WriteOff, Goto, bill
    <2>2. resume \in Row /\ txn[w].seen \in Row
      BY DEF TypeOK, Txns
    <2>3. resume' = [c \in {"status", "reason"} |->
                      IF gone[c] # txn[w].seen[c] THEN gone[c] ELSE resume[c]]
      BY <2>1, <2>2 DEF Written, Row
    <2>4. resume' \in Row /\ resume'.status \in {"failed", resume.status}
      BY <2>2, <2>3 DEF Row, Statuses
    <2>5. lock # w /\ NoTxn.inserts = {} /\ NoTxn.deletes = {}
      BY <2>1 DEF Consistent, NoTxn
    <2>6. TypeOK' /\ LedgerKeepsUp'
      BY <2>1, <2>4, NoTxnType DEF TypeOK, LedgerKeepsUp
    <2>7. /\ txn'[w] = NoTxn /\ pc'[w] = "idle"
          /\ \A v \in Workers \ {w} : txn'[v] = txn[v] /\ pc'[v] = pc[v]
      BY <2>1 DEF TypeOK
    <2> QED BY <2>1, <2>4, <2>5, <2>6, <2>7, EndStep
  <1> QED BY <1>1, <1>2, <1>3, <1>4

\* Exceptions nobody expected, and killed workers.
LEMMA FaultStep ==
  ASSUME ResumeIInv, NEW w \in Workers, Raises(w) \/ Dies(w)
  PROVE  ResumeIInv'
  <1> USE ResumeAssumption DEF ResumeIInv
  <1>1. /\ UNCHANGED <<upload, resume, skills, sessions, spent, job>>
        /\ faults < MaxFaults /\ faults' = faults + 1 /\ lost' \in {lost, lost + 1}
        /\ txn' = [txn EXCEPT ![w] = NoTxn] /\ pc' = [pc EXCEPT ![w] = "idle"] /\ Release(w)
    BY DEF Raises, Dies, Fault, Rollback, Goto, rows
  <1>2. job[w] \in Jobs
    BY DEF TypeOK
  <1> DEFINE first == Job(job[w].kind, job[w].of)
  <1>3. first \in Jobs /\ IsLike(first, job[w]) /\ IsLike(job[w], job[w])
    BY <1>2 DEF Job, Jobs, IsLike
  <1>4. queue' \in {queue, queue \cup {first}, queue \cup {job[w]}}
    BY DEF Raises, Dies
  <1>5. TypeOK' /\ LedgerKeepsUp'
    BY <1>1, <1>2, <1>3, <1>4, NoTxnType, LockFree DEF TypeOK, LedgerKeepsUp
  <1>6. /\ txn'[w] = NoTxn /\ pc'[w] = "idle"
        /\ \A v \in Workers \ {w} : txn'[v] = txn[v] /\ pc'[v] = pc[v]
    BY <1>1 DEF TypeOK
  <1>7. NoTxn.inserts = {} /\ NoTxn.deletes = {}
    BY DEF NoTxn
  <1>8. \A k \in queue' : k \in queue \/ IsLike(k, job[w])
    BY <1>3, <1>4
  <1> QED BY <1>1, <1>5, <1>6, <1>7, <1>8, LockFree, EndStep

\* What a commit leaves of row and skills: those of the holder's parse, or what was there.
LEMMA CommitWrites ==
  ASSUME ResumeIInv, NEW w \in Workers, Commit(w)
  PROVE  /\ resume' \in Row
         /\ \/ skills' = {w} /\ lock = w
            \/ skills' = skills
         /\ txn[w].inserts # {} => skills' = {w}
         /\ resume'.status # "parsing"
         /\ resume'.status = "parsed" => skills' # {}
  <1> USE ResumeAssumption DEF ResumeIInv
  <1> DEFINE t == txn[w]
  <1>1. /\ pc[w] = "commit" /\ resume' = Written(resume, t.seen, t.row)
        /\ skills' = (skills \ t.deletes) \cup t.inserts
    BY DEF Commit, Replaced
  <1>2. resume \in Row /\ t.seen \in Row /\ t.row \in Row
    BY DEF TypeOK, Txns
  <1>3. resume' = [c \in {"status", "reason"} |-> IF t.row[c] # t.seen[c] THEN t.row[c] ELSE resume[c]]
    BY <1>1, <1>2 DEF Written, Row
  <1>4. /\ resume' \in Row
        /\ resume'.status = IF t.row.status # t.seen.status THEN t.row.status ELSE resume.status
    BY <1>2, <1>3 DEF Row, Statuses
  <1>5. CASE lock = w
    <2>1. /\ t.seen.status = "parsing" /\ t.row.status \in {"parsed", "failed"}
          /\ t.row.status = "parsed" => t.inserts = {w}
          /\ t.inserts # {} => t.inserts = {w} /\ t.deletes = skills
          /\ t.inserts = {} => t.deletes = {}
      BY <1>1, <1>5 DEF Consistent
    <2>2. skills' = {w} \/ (skills' = skills /\ t.inserts = {})
      BY <1>1, <2>1
    <2> QED BY <1>4, <1>5, <2>1, <2>2 DEF ParsedHasSkills
  <1>6. CASE lock # w
    <2>1. t.inserts = {} /\ t.deletes = {} /\ t.row = t.seen
      BY <1>1, <1>6 DEF Consistent
    <2> QED BY <1>1, <1>4, <2>1 DEF ParsedHasSkills
  <1> QED BY <1>5, <1>6

LEMMA CommitStep ==
  ASSUME ResumeIInv, NEW w \in Workers, Commit(w)
  PROVE  ResumeIInv'
  <1> USE ResumeAssumption DEF ResumeIInv
  <1> DEFINE t == txn[w]  j == job[w]
  <1>1. /\ pc[w] = "commit"
        /\ sessions' = IF j.of = Nobody THEN sessions
                       ELSE [sessions EXCEPT ![j.of] = SessionAfter(j, t.verdict)]
        /\ txn' = [txn EXCEPT ![w] = NoTxn] /\ pc' = [pc EXCEPT ![w] = "idle"] /\ Release(w)
        /\ UNCHANGED <<upload, spent, lost, queue, job, faults>>
    BY DEF Commit, Rollback, Goto, bill
  <1>2. j \in Jobs
    BY DEF TypeOK
  <1>3. skills' = {w} \/ skills' = skills
    BY CommitWrites
  <1>4. j.of = Nobody \/ SessionAfter(j, t.verdict) \in {"ready", "failed", "graded"}
    BY <1>1, <1>2 DEF Prepared, JobHasSkills, Jobs, SessionAfter
  <1>5. j.of # Nobody /\ SessionAfter(j, t.verdict) # "failed" => skills' # {}
    BY <1>1, <1>2, <1>3, <1>4, CommitWrites DEF Prepared, JobHasSkills, Jobs, SessionAfter
  <1>6. TypeOK' /\ LedgerKeepsUp'
    <2>1. sessions' \in [Sessions -> {"new", "admitted", "waiting", "ready", "finished",
                                     "graded", "failed"}]
      BY <1>1, <1>4 DEF TypeOK
    <2>2. skills' \in SUBSET Workers /\ resume' \in Row
      BY <1>3, CommitWrites DEF TypeOK
    <2> QED BY <1>1, <2>1, <2>2, NoTxnType, LockFree DEF TypeOK, LedgerKeepsUp
  <1>7. /\ txn'[w] = NoTxn /\ pc'[w] = "idle" /\ job'[w] = j
        /\ \A v \in Workers \ {w} : txn'[v] = txn[v] /\ pc'[v] = pc[v] /\ job'[v] = job[v]
    BY <1>1 DEF TypeOK
  <1>8. NoTxn.inserts = {} /\ NoTxn.deletes = {}
    BY DEF NoTxn
  <1>9. Consistent(w)' /\ Prepared(w)'
    BY <1>1, <1>3, <1>7, <1>8, LockFree DEF Consistent, Prepared, JobHasSkills
  <1>10. ASSUME NEW v \in Workers, v # w PROVE Consistent(v)' /\ Prepared(v)'
    <2>1. lock' = v <=> lock = v
      BY <1>1, <1>10 DEF Release
    <2>2. skills' = skills \/ lock # v
      BY <1>10, CommitWrites
    <2> QED BY <1>1, <1>3, <1>7, <1>10, <2>1, <2>2, OthersConsistent, OthersPrepared
  <1>11. ReadyHasSkills' /\ ParsedHasSkills' /\ OneParse'
    <2>1. ReadyHasSkills'
      BY <1>1, <1>3, <1>5 DEF ReadyHasSkills, TypeOK
    <2>2. ParsedHasSkills'
      BY CommitWrites DEF ParsedHasSkills
    <2> QED BY <1>3, <2>1, <2>2 DEF OneParse
  <1>12. \A k \in queue' : JobHasSkills(k)'
    BY <1>1, <1>3 DEF JobHasSkills
  <1> QED BY <1>6, <1>9, <1>10, <1>11, <1>12

LEMMA Step ==
  ASSUME ResumeIInv, [Next]_vars
  PROVE  ResumeIInv'
  <1>1. CASE UNCHANGED vars
    BY <1>1 DEF vars, rows, bill, wrk, ResumeIInv, TypeOK, LedgerKeepsUp, OneParse,
       ParsedHasSkills, ReadyHasSkills, Consistent, Prepared, JobHasSkills
  <1>2. CASE Next
    BY <1>2, RequestStep, TakeStep, FlushStep, AnswerStep, TroubleStep, CommitStep, FaultStep
       DEF Next, Work
  <1> QED BY <1>1, <1>2

-----------------------------------------------------------------------------
(* Theorems *)

\* However many workers parse the resume at once, in its own task or in a session's,
\* and whatever fails: the committed skills are those of one parse, a parsed resume and
\* a ready session have skills behind them, and no more paid calls are missing from the
\* ledger than there were faults (parse_resume, generate_questions, _meter).
THEOREM ResumeStaysWhole == Spec => []ResumeInv
  <1>1. ResumeIInv /\ [Next]_vars => ResumeIInv'
    BY Step
  <1> QED BY InitInv, InvOfIInv, <1>1, PTL DEF Spec

=============================================================================
