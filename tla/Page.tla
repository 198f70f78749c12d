-------------------------------- MODULE Page --------------------------------
(***************************************************************************)
(* The interview page against the API: its handlers and the polls of its   *)
(* waiting screens, the retries of lib/poll.ts and the silent refresh of   *)
(* lib/api.ts, over a network that loses requests and responses.           *)
(*                                                                         *)
(* A page has three requests under way at most: its handler's ("op"), its  *)
(* poll's ("poll"), and the one an aborted poll still had out ("old"),     *)
(* which nothing cancels.  The rest of the system, other pages included,   *)
(* moves the session row on its own.                                       *)
(***************************************************************************)
EXTENDS SessionMachine, Naturals

CONSTANTS Count,    \* questions 1 .. Count
          Drafts,   \* bound: texts tried for a question
          MaxFaults \* bound: lost calls and failed refreshes

ASSUME PageAssumption == Count \in Nat /\ MaxFaults \in Nat

VARIABLES
  row,     \* the session's row
  answers, \* the text stored for each question
  page,    \* what the page shows, and the call its handler awaits
  polls,   \* the live poll and the last one aborted
  req,     \* requests under way
  auth,    \* the access token, and the refresh in flight
  faults

server == <<row, answers>>
vars   == <<server, page, polls, req, auth, faults>>

Questions == 1 .. Count
Empty     == <<>>
TextsFor(q) == {<<q, n>> : n \in Drafts}
Texts     == UNION {TextsFor(q) : q \in Questions}
NoQuestion == 0
Channels  == {"op", "poll", "old"}
Phases    == {"none", "preparing", "grading", "deadline"}
Ops       == {"idle", "me", "load", "next", "start", "submit", "reread", "finish", "recover"}

Reply(code) == [code |-> code, state |-> "CREATED", q |-> NoQuestion]
Replies == [code : {"none", "ok", "404", "409", "401", "down"}, state : States,
            q : Questions \cup {NoQuestion}]
Quiet   == [at |-> "idle", stale |-> FALSE, reply |-> Reply("none")]
Sent    == [at |-> "out", stale |-> auth.access = "stale", reply |-> Reply("none")]
NoPoll  == [phase |-> "none", live |-> FALSE, troubled |-> FALSE]

TypeOK ==
  /\ row \in Row
  /\ answers \in [Questions -> Texts \cup {Empty}]
  /\ page \in [view : States \cup {"none"}, q : Questions \cup {NoQuestion},
               box : Texts \cup {Empty}, out : BOOLEAN, error : BOOLEAN, passed : BOOLEAN,
               health : {"ok", "reconnecting", "slow"}, op : Ops,
               left : {"no", "report", "refused", "outage"}]
  /\ polls \in [{"poll", "old"} -> [phase : Phases, live : BOOLEAN, troubled : BOOLEAN]]
  /\ req \in [Channels -> [at : {"idle", "out", "refresh", "back"},
                           stale : BOOLEAN, reply : Replies]]
  /\ auth \in [access : {"good", "stale", "fresh"}, refreshing : BOOLEAN]
  /\ faults \in 0 .. MaxFaults

\* The page is opened on a session in any state, by a browser with tokens.
Init ==
  /\ row \in {[state |-> s, reason |-> "none", deadline |-> IF s = "IN_PROGRESS" THEN "ahead" ELSE "none"]
                : s \in {"CREATED", "READY", "IN_PROGRESS"}}
  /\ answers = [q \in Questions |-> Empty]
  /\ page = [view |-> "none", q |-> NoQuestion, box |-> Empty, out |-> FALSE, error |-> FALSE,
             passed |-> FALSE, health |-> "ok", op |-> "me", left |-> "no"]
  /\ polls = [c \in {"poll", "old"} |-> NoPoll]
  /\ auth = [access |-> "good", refreshing |-> FALSE]
  /\ req = [c \in Channels |-> IF c = "op" THEN Sent ELSE Quiet]
  /\ faults = 0

Here  == page.left = "no"

\* waitPhaseOf: what the page waits for.
Phase ==
  CASE page.view \in Preparing                  -> "preparing"
    [] page.view = "EVALUATING"                 -> "grading"
    [] page.view = "IN_PROGRESS" /\ page.passed -> "deadline"
    [] OTHER                                    -> "none"

\* React has run the effects of what the page shows: it does before the next event.
Rendered == Here /\ polls["poll"].phase = Phase

\* The page is unmounted, and what was being written there is gone with it.
Left(p, why) == [p EXCEPT !.left = why, !.box = Empty]

Fault == faults < MaxFaults /\ faults' = faults + 1

-----------------------------------------------------------------------------
(* The server: the routes of a session *)

\* What a request asks for, and whether it gets as far as its route.
Asks(c) == IF c # "op" \/ page.op \in {"load", "reread", "recover"} THEN "session" ELSE page.op

Arrives(c, route) ==
  Here /\ req[c].at = "out" /\ ~req[c].stale /\ Asks(c) = route

\* The response comes back, or is lost on the way.
Respond(c, code, q) ==
  \/ /\ req' = [req EXCEPT ![c].at = "back",
                           ![c].reply = IF code = "ok" THEN [code |-> code, state |-> row'.state, q |-> q]
                                        ELSE Reply(code)]
     /\ UNCHANGED faults
  \/ /\ Fault
     /\ req' = [req EXCEPT ![c].at = "back", ![c].reply = Reply("down")]

Unanswered == {q \in Questions : answers[q] = Empty}
FirstOf(S) == CHOOSE q \in S : \A r \in S : q <= r

\* _load_owned_session: what a route sees of the row.  A route that raises rolls
\* the expiry back.
Owned == MaybeExpire(row)

GetSession(c) ==
  /\ Arrives(c, "session")
  /\ row' = Owned
  /\ Respond(c, "ok", NoQuestion)
  /\ UNCHANGED <<answers, page, polls, auth>>

Me(c) ==
  /\ Arrives(c, "me")
  /\ row' = row
  /\ Respond(c, "ok", NoQuestion)
  /\ UNCHANGED <<answers, page, polls, auth>>

Begun(r) == [MovedTo(r, "IN_PROGRESS", "none") EXCEPT !.deadline = "ahead"]

StartSession(c) ==
  /\ Arrives(c, "start")
  /\ \/ Owned.state = "READY" /\ row' = Begun(Owned) /\ Respond(c, "ok", NoQuestion)
     \/ Owned.state # "READY" /\ row' = row /\ Respond(c, "409", NoQuestion)
  /\ UNCHANGED <<answers, page, polls, auth>>

NextQuestion(c) ==
  /\ Arrives(c, "next")
  /\ row' = row
  /\ CASE Owned.state # "IN_PROGRESS" -> Respond(c, "409", NoQuestion)
       [] Unanswered = {}             -> Respond(c, "404", NoQuestion)
       [] OTHER                       -> Respond(c, "ok", FirstOf(Unanswered))
  /\ UNCHANGED <<answers, page, polls, auth>>

\* One answer per question and key, and the key is the question's.
Stored(q, text) == IF answers[q] = Empty THEN [answers EXCEPT ![q] = text] ELSE answers

SubmitAnswer(c) ==
  /\ Arrives(c, "submit")
  /\ row' = row
  /\ \/ Owned.state = "IN_PROGRESS" /\ answers' = Stored(page.q, page.box) /\ Respond(c, "ok", NoQuestion)
     \/ Owned.state # "IN_PROGRESS" /\ UNCHANGED answers /\ Respond(c, "409", NoQuestion)
  /\ UNCHANGED <<page, polls, auth>>

\* A second finish re-enters EVALUATING: only a report answers it with 409.
FinishSession(c) ==
  /\ Arrives(c, "finish")
  /\ \/ /\ Accepts(Owned.state, "EVALUATING")
        /\ row' = MovedTo(Owned, "EVALUATING", "none") /\ Respond(c, "ok", NoQuestion)
     \/ /\ ~Accepts(Owned.state, "EVALUATING")
        /\ row' = row /\ Respond(c, "409", NoQuestion)
  /\ UNCHANGED <<answers, page, polls, auth>>

Serve(c) == \/ GetSession(c) \/ Me(c) \/ StartSession(c) \/ NextQuestion(c)
            \/ SubmitAnswer(c) \/ FinishSession(c)

\* A network drop or a 5xx before the route did anything.
Down(c) ==
  /\ Here /\ req[c].at = "out"
  /\ Fault
  /\ req' = [req EXCEPT ![c].at = "back", ![c].reply = Reply("down")]
  /\ UNCHANGED <<server, page, polls, auth>>

-----------------------------------------------------------------------------
(* The rest of the system *)

\* A worker ends a preparation or a grading.
Work ==
  /\ Here /\ row.state \in Preparing \cup {"EVALUATING"}
  /\ \E s \in IF row.state = "EVALUATING" THEN Transitions["EVALUATING"] ELSE {"READY", "FAILED"} :
        row' = MovedTo(row, s, "gave_up")
  /\ UNCHANGED <<answers, page, polls, req, auth, faults>>

\* Another page of the candidate.  Its answers are left to module InterviewSession.
SecondTab ==
  /\ Here
  /\ \/ row.state = "READY" /\ row' = Begun(row)
     \/ Owned.state = "IN_PROGRESS" /\ row' = MovedTo(row, "EVALUATING", "none")
  /\ UNCHANGED <<answers, page, polls, req, auth, faults>>

\* Each clock passes the deadline on its own: they drift.
DeadlinePasses ==
  /\ Here
  /\ \/ /\ row.state = "IN_PROGRESS" /\ row.deadline = "ahead"
        /\ row' = [row EXCEPT !.deadline = "passed"]
        /\ page' = page
     \/ /\ page.view = "IN_PROGRESS" /\ ~page.passed
        /\ page' = [page EXCEPT !.passed = TRUE] /\ row' = row
  /\ UNCHANGED <<answers, polls, req, auth, faults>>

-----------------------------------------------------------------------------
(* lib/api.ts: the silent refresh *)

\* The access token runs out, also for what is on its way.  Bound: only the one the
\* page was opened with.
AccessExpires ==
  /\ Here /\ auth.access = "good"
  /\ auth' = [auth EXCEPT !.access = "stale"]
  /\ req' = [c \in Channels |-> [req[c] EXCEPT !.stale = (req[c].at = "out")]]
  /\ UNCHANGED <<server, page, polls, faults>>

\* A 401 joins the refresh in flight, or begins one.
Unauthorized(c) ==
  /\ Here /\ req[c].at = "out" /\ req[c].stale
  /\ req' = [req EXCEPT ![c].at = "refresh"]
  /\ auth' = [auth EXCEPT !.refreshing = TRUE]
  /\ UNCHANGED <<server, page, polls, faults>>

\* Who awaits the refresh in flight, and what its failure tells them.
Joined == {c \in Channels : req[c].at = "refresh"}

Rejected(code) ==
  [c \in Channels |-> IF c \in Joined THEN [req[c] EXCEPT !.at = "back", !.reply = Reply(code)]
                     ELSE req[c]]

RefreshWorks ==
  /\ Here /\ auth.refreshing
  /\ auth' = [access |-> "fresh", refreshing |-> FALSE]
  /\ req' = [c \in Channels |-> IF c \in Joined THEN [req[c] EXCEPT !.at = "out", !.stale = FALSE]
                              ELSE req[c]]
  /\ UNCHANGED <<server, page, polls, faults>>

\* The connection drops: everyone's error is the network's, and retryable; the next
\* 401 begins another refresh.
RefreshDrops ==
  /\ Here /\ auth.refreshing /\ Fault
  /\ auth' = [auth EXCEPT !.refreshing = FALSE]
  /\ req' = Rejected("down")
  /\ UNCHANGED <<server, page, polls>>

\* Any other answer clears the tokens, and the layout leaves for /login without the page.
RefreshDenied ==
  /\ Here /\ auth.refreshing /\ Fault
  /\ auth' = [auth EXCEPT !.refreshing = FALSE]
  /\ req' = Rejected("401")
  /\ \E why \in {"refused", "outage"} : page' = Left(page, why)
  /\ UNCHANGED <<server, polls>>

RefreshEnds == RefreshWorks \/ RefreshDrops \/ RefreshDenied

-----------------------------------------------------------------------------
(* The handlers of the page *)

Answer == req["op"].reply
Returned(ops, codes) ==
  Rendered /\ req["op"].at = "back" /\ page.op \in ops /\ Answer.code \in codes

\* The page as it is now, awaiting the call op.
Await(p, op) ==
  /\ page' = [p EXCEPT !.op = op]
  /\ req' = [req EXCEPT !["op"] = IF op = "idle" THEN Quiet ELSE Sent]
  /\ UNCHANGED <<server, polls, auth, faults>>

Showing(s)   == [page EXCEPT !.view = s]
WithError    == [page EXCEPT !.error = TRUE]
WithoutError == [page EXCEPT !.error = FALSE]

\* useUser: the page is there once /auth/me has answered; any failure clears the tokens.
SignedIn ==
  \/ Returned({"me"}, {"ok"}) /\ Await(page, "load")
  \/ Returned({"me"}, {"down"}) /\ Await(Left(page, "outage"), "idle")

Loaded ==
  \/ /\ Returned({"load"}, {"ok"})
     /\ Await(Showing(Answer.state), IF Answer.state = "IN_PROGRESS" THEN "next" ELSE "idle")
  \/ Returned({"load"}, {"down"}) /\ Await(WithError, "idle")

\* Mutant: the answer box keeps its text.
AskedOver(q) == [page EXCEPT !.q = q, !.out = FALSE]
Asked(q) == [page EXCEPT !.q = q, !.out = FALSE, !.box = Empty]

\* loadQuestion
QuestionLoaded ==
  \/ Returned({"next"}, {"ok"}) /\ Await(Asked(Answer.q), "idle")
  \/ Returned({"next"}, {"404"}) /\ Await([page EXCEPT !.q = NoQuestion, !.out = TRUE], "idle")
  \/ Returned({"next"}, {"409", "down"}) /\ Await(WithError, "idle")

Shown ==
  \/ Returned({"start", "reread"}, {"ok"}) /\ Await(Showing(Answer.state), "next")
  \/ Returned({"finish", "recover"}, {"ok"}) /\ Await(Showing(Answer.state), "idle")

Accepted == Returned({"submit"}, {"ok"}) /\ Await(page, "reread")

\* retryTransient, until its time is up.
Retried == Returned({"submit", "reread", "finish"}, {"down"}) /\ Await(page, page.op)

\* Mutant: what went wrong with an answer is noted, and the next question loaded.
GoOn    == "next"
StayPut == "idle"

\* recoverFrom
Failed ==
  \/ Returned({"start", "submit", "finish"}, {"409"}) /\ Await(page, "recover")
  \/ Returned({"start", "submit", "reread", "finish", "recover"}, {"down"}) /\ Await(WithError, StayPut)

Handle == \/ SignedIn \/ Loaded \/ QuestionLoaded \/ Shown \/ Accepted \/ Retried \/ Failed

\* What the candidate may do: nothing while a handler is busy.
Free(s) == Rendered /\ page.view = s /\ page.op = "idle"

Type ==
  /\ Free("IN_PROGRESS") /\ page.q # NoQuestion
  /\ \E text \in TextsFor(page.q) : Await([page EXCEPT !.box = text], "idle")

Send   == Free("IN_PROGRESS") /\ page.q # NoQuestion /\ page.box # Empty /\ Await(WithoutError, "submit")
Finish == Free("IN_PROGRESS") /\ (page.q # NoQuestion \/ page.out) /\ Await(WithoutError, "finish")
Begin  == Free("READY") /\ Await(WithoutError, "start")

-----------------------------------------------------------------------------
(* The polls of the waiting screens *)

\* Mutant: a report is what a grading ends in.
SettledByReport(phase, s) ==
  CASE phase = "preparing" -> s \notin Preparing
    [] phase = "grading"   -> s \in {"COMPLETED", "NEEDS_HUMAN_REVIEW"}
    [] OTHER               -> s # "IN_PROGRESS"

\* WAITS
Settled(phase, s) ==
  CASE phase = "preparing" -> s \notin Preparing
    [] phase = "grading"   -> s # "EVALUATING"
    [] OTHER               -> s # "IN_PROGRESS"

Watched == {"preparing", "grading"}

\* The effect's cleanup and its next run.  The signal stops the aborted poll from
\* checking again, not the check it has out, unless it was asleep.
\* Bound: a check aborted earlier and still out is forgotten.
Restart(p) ==
  LET next == [phase |-> Phase, live |-> Phase # "none", troubled |-> FALSE]
      call == IF Phase = "none" THEN Quiet ELSE Sent IN
  /\ \/ /\ req["poll"].at \in {"idle", "out"}
        /\ polls' = [polls EXCEPT !["poll"] = next]
        /\ req' = [req EXCEPT !["poll"] = call]
     \/ /\ req["poll"].at # "idle"
        /\ polls' = [polls EXCEPT !["poll"] = next, !["old"] = polls["poll"]]
        /\ req' = [req EXCEPT !["poll"] = call, !["old"] = req["poll"]]
  /\ page' = p
  /\ UNCHANGED <<server, auth, faults>>

Effect == Here /\ ~Rendered /\ Restart(page)

KeepWaiting ==
  /\ Rendered /\ Phase \in Watched /\ page.health = "slow"
  /\ Restart([page EXCEPT !.health = "ok"])

Checked(c, codes) == Rendered /\ req[c].at = "back" /\ req[c].reply.code \in codes

\* The line under the screen after a check.
Health(c, p) ==
  [p EXCEPT !.health = IF req[c].reply.code = "down" THEN "reconnecting"
                       ELSE IF polls[c].troubled THEN "ok" ELSE @]

Arrived(c, s) ==
  LET p == [Health(c, page) EXCEPT !.view = s] IN
  IF s \in {"COMPLETED", "NEEDS_HUMAN_REVIEW"} THEN Left(p, "report") ELSE p

Enough(c) == req[c].reply.code = "ok" /\ Settled(polls[c].phase, req[c].reply.state)

Over(c) == polls' = [polls EXCEPT ![c].live = FALSE] /\ req' = [req EXCEPT ![c] = Quiet]

PollSettles(c) ==
  /\ Checked(c, {"ok"}) /\ Enough(c)
  /\ page' = Arrived(c, req[c].reply.state)
  /\ Over(c)
  /\ UNCHANGED <<server, auth, faults>>

\* A check that failed is one to repeat, unless the server refused it.
Retryable == {"ok", "down"}

PollAgain ==
  /\ Checked("poll", Retryable) /\ ~Enough("poll")
  /\ page' = Health("poll", page)
  /\ polls' = [polls EXCEPT !["poll"].troubled = req["poll"].reply.code = "down"]
  /\ req' = [req EXCEPT !["poll"] = Sent]
  /\ UNCHANGED <<server, auth, faults>>

\* PollTimeout.  No check outlasts the wait that follows its own.
PollGivesUp(c) ==
  /\ Checked(c, Retryable) /\ ~Enough(c)
  /\ c = "poll" => req["old"].at = "idle"
  /\ page' = [Health(c, page) EXCEPT !.health = "slow"]
  /\ Over(c)
  /\ UNCHANGED <<server, auth, faults>>

\* The aborted poll finds out that it was.
PollAborts ==
  /\ Checked("old", Retryable) /\ ~Enough("old")
  /\ page' = Health("old", page)
  /\ Over("old")
  /\ UNCHANGED <<server, auth, faults>>

Poll(c) == PollSettles(c) \/ PollGivesUp(c)

-----------------------------------------------------------------------------

Candidate == Type \/ Send \/ Finish \/ Begin \/ KeepWaiting
Calls     == \E c \in Channels : Serve(c) \/ Down(c) \/ Unauthorized(c)
Watching  == Effect \/ PollAgain \/ PollAborts \/ \E c \in {"poll", "old"} : Poll(c)
World     == Work \/ SecondTab \/ DeadlinePasses \/ AccessExpires

Next == Candidate \/ Handle \/ Watching \/ Calls \/ RefreshEnds \/ World

\* Requests are answered and their answers handled, effects run, the worker ends
\* what it began.  Nothing makes the candidate do anything.
Fairness ==
  /\ \A c \in Channels : WF_vars(Serve(c)) /\ WF_vars(Unauthorized(c))
  /\ WF_vars(RefreshEnds) /\ WF_vars(Handle) /\ WF_vars(Effect) /\ WF_vars(Work)
  /\ WF_vars(PollAgain \/ Poll("poll")) /\ WF_vars(PollAborts \/ Poll("old"))

Spec == Init /\ [][Next]_vars /\ Fairness

-----------------------------------------------------------------------------
(* Properties *)

\* A waiting screen is never left alone: while the page shows a preparation or a
\* grading, something is polling for its end, or "Keep waiting" is on offer, whatever
\* an aborted poll still does to the page.
SomeoneWatches ==
  Rendered /\ Phase \in Watched
    => polls["poll"].live \/ page.health = "slow"

\* What is stored for a question was written for it: neither a
\* resent request nor a page that has moved on puts one question's text in another.
AnswersAreTheirQuestions ==
  /\ \A q \in Questions : answers[q] \in TextsFor(q) \cup {Empty}
  /\ page.q # NoQuestion => page.box \in TextsFor(page.q) \cup {Empty}

\* The finish card is shown only of an interview whose every question is answered.
OutIsTrue == page.out => Unanswered = {}

\* What holds of the page at any moment: types, a watched wait, each text with its
\* question, no end announced early.
PageInv == TypeOK /\ SomeoneWatches /\ AnswersAreTheirQuestions /\ OutIsTrue

\* While the page is up, its answer box is emptied only once its question has an answer:
\* no failed, lost or refused call loses what was being written, short of one that
\* takes the page away.
DraftsAreKept ==
  [][page.q # NoQuestion /\ page.box # Empty /\ page'.box = Empty
       => answers[page.q] # Empty \/ ~Here']_vars

\* A wait ends: a page that shows a preparation or a grading comes to show what it ended
\* in, offers to keep waiting, or is left.
WaitsEnd ==
  \A phase \in Watched :
    Here /\ Phase = phase ~> ~Here \/ Phase # phase \/ page.health = "slow"

-----------------------------------------------------------------------------
(* Statements of the sources that the code does not keep *)

\* recoverFrom: "the page shows the state the server holds".  An interview under way
\* is shown by a question, by the finish card, or with an error.
NeverBlank ==
  Here /\ page.view = "IN_PROGRESS" /\ page.op = "idle"
    => page.q # NoQuestion \/ page.out \/ page.error

\* WaitNotice: "a way to resume -- never a dead end", of the third wait too.
DeadlineIsWatched ==
  Rendered /\ Phase = "deadline" => polls["poll"].live

\* "Each answer is saved the moment you submit it": the submitted text is the stored one.
SubmittedIsSaved ==
  [][page.op = "submit" /\ page'.op = "reread" => answers[page.q] = page.box]_vars

\* "The session is genuinely over" when the tokens are cleared.
SignedOutMeansRefused == page.left # "outage"

\* A refresh must not "unmount the page mid-interview and lose the typed answer".
RefreshKeepsDrafts ==
  [][auth.refreshing /\ page.q # NoQuestion /\ page.box # Empty /\ page'.box = Empty
       => answers[page.q] # Empty]_vars

\* The line under a waiting screen is about this wait.
SlowIsTrue ==
  Rendered /\ Phase \in Watched /\ polls["poll"].live
    => page.health # "slow"

=============================================================================
