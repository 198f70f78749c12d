----------------------------- MODULE PageProofs -----------------------------
(***************************************************************************)
(* Theorems about Page, for any number of questions, drafts and faults.    *)
(***************************************************************************)
EXTENDS Page, TLAPS, NaturalsInduction, WellFoundedInduction

-----------------------------------------------------------------------------
(* The inductive invariant *)

\* The interview has begun, and will not be prepared again.
UnderWay(r) == r.state \notin Preparing \cup {"READY"}

\* A dead poll has no check out.  One that gave up has outlived the one before it, so
\* nothing takes "Keep waiting" away.
WaitIsWatched ==
  /\ ~polls["poll"].live => req["poll"].at = "idle"
  /\ Rendered /\ Phase \in Watched
       => polls["poll"].live \/ (page.health = "slow" /\ req["old"].at = "idle")

\* What a reply to the handler's call still means when it is read.
Says(code) ==
  /\ code = "ok" /\ page.op = "next" => UnderWay(row)
  /\ code = "ok" /\ page.op = "start" => page.q = NoQuestion
  /\ code = "ok" /\ page.op = "submit" => answers[page.q] # Empty
  /\ code = "404" /\ page.op = "next" => Unanswered = {}

ReplySays == req["op"].at = "back" => Says(req["op"].reply.code)

\* A question is only ever replaced by the next one when it has its answer.
HandlersKeepDrafts ==
  /\ page.op \in {"me", "load"} => page.q = NoQuestion
  /\ page.q # NoQuestion => UnderWay(row)
  /\ page.op = "submit" => page.q # NoQuestion /\ (Here => page.box # Empty)
  /\ page.op \in {"next", "reread"} /\ page.q # NoQuestion /\ page.box # Empty
       => answers[page.q] # Empty
  /\ ReplySays

PageIInv ==
  /\ TypeOK /\ WaitIsWatched /\ AnswersAreTheirQuestions /\ OutIsTrue /\ HandlersKeepDrafts

-----------------------------------------------------------------------------
(* Helpers *)

Requests == [at : {"idle", "out", "refresh", "back"}, stale : BOOLEAN, reply : Replies]
Pages ==
  [view : States \cup {"none"}, q : Questions \cup {NoQuestion},
   box : Texts \cup {Empty}, out : BOOLEAN, error : BOOLEAN, passed : BOOLEAN,
   health : {"ok", "reconnecting", "slow"}, op : Ops,
   left : {"no", "report", "refused", "outage"}]
Polls == [phase : Phases, live : BOOLEAN, troubled : BOOLEAN]

LEMMA Types ==
  TypeOK <=> /\ row \in Row /\ answers \in [Questions -> Texts \cup {Empty}]
             /\ page \in Pages /\ polls \in [{"poll", "old"} -> Polls]
             /\ req \in [Channels -> Requests]
             /\ auth \in [access : {"good", "stale", "fresh"}, refreshing : BOOLEAN]
             /\ faults \in 0 .. MaxFaults
  BY DEF TypeOK, Pages, Polls, Requests

LEMMA TextTypes ==
  ASSUME NEW q \in Questions
  PROVE  TextsFor(q) \subseteq Texts /\ Empty \notin TextsFor(q)
  <1>1. TextsFor(q) \subseteq Texts
    BY DEF Texts
  <1>2. \A t \in TextsFor(q) : t # Empty
    BY DEF TextsFor, Empty
  <1> QED BY <1>1, <1>2

LEMMA RequestTypes ==
  TypeOK => Quiet \in Requests /\ Sent \in Requests /\ Quiet.at = "idle" /\ Sent.at = "out"
  BY DEF TypeOK, Quiet, Sent, Reply, Replies, Requests, States

LEMMA FirstOfType ==
  ASSUME NEW S \in SUBSET Questions, S # {}
  PROVE  FirstOf(S) \in S
  <1> DEFINE less == {p \in Nat \X Nat : p[1] < p[2]}
  <1>1. S \subseteq Nat
    BY PageAssumption DEF Questions
  <1>2. IsWellFoundedOn(less, Nat)
    BY NatLessThanWellFounded DEF OpToRel
  <1>3. PICK q \in S : \A r \in S : ~(<<r, q>> \in less)
    BY <1>1, <1>2, WFMin
  <1>4. ASSUME NEW r \in S PROVE q <= r
    <2>1. r \in Nat /\ q \in Nat /\ ~(<<r, q>> \in less)
      BY <1>1, <1>3
    <2>2. ~(r < q)
      BY <2>1
    <2> QED BY <2>1, <2>2
  <1> QED BY <1>4 DEF FirstOf

LEMMA RowTypes ==
  ASSUME NEW r \in Row, NEW t \in States, NEW why \in Reasons
  PROVE  /\ MovedTo(r, t, why) \in Row /\ MovedTo(r, t, why).state = t
         /\ MaybeExpire(r) \in Row
         /\ MaybeExpire(r).state \in {r.state, "EXPIRED"}
  <1>1. MovedTo(r, t, why) \in Row /\ MovedTo(r, t, why).state = t
    BY DEF MovedTo, Row, Reasons
  <1>2. MovedTo(r, "EXPIRED", "deadline") \in Row /\ MovedTo(r, "EXPIRED", "deadline").state = "EXPIRED"
    BY DEF MovedTo, Row, Reasons, States
  <1> QED BY <1>1, <1>2 DEF MaybeExpire

LEMMA BegunType ==
  ASSUME NEW r \in Row
  PROVE  Begun(r) \in Row /\ UnderWay(Begun(r))
  <1>1. "IN_PROGRESS" \in States /\ "none" \in Reasons
    BY DEF States, Reasons
  <1>2. MovedTo(r, "IN_PROGRESS", "none") \in Row
        /\ MovedTo(r, "IN_PROGRESS", "none").state = "IN_PROGRESS"
    BY <1>1, RowTypes
  <1> QED BY <1>2 DEF Begun, Row, Deadlines, UnderWay, Preparing

\* What no step undoes.
Grows ==
  /\ UnderWay(row) => UnderWay(row')
  /\ \A q \in Questions : answers[q] # Empty => answers'[q] # Empty

LEMMA InitInv == Init => PageIInv
  <1> SUFFICES ASSUME Init PROVE PageIInv
    OBVIOUS
  <1>1. row \in Row
    BY DEF Init, Row, States, Reasons, Deadlines
  <1>2. answers \in [Questions -> Texts \cup {Empty}] /\ faults \in 0 .. MaxFaults
    BY PageAssumption DEF Init
  <1>3. page \in Pages
    BY DEF Init, Pages, Ops
  <1>4. polls \in [{"poll", "old"} -> Polls]
    BY DEF Init, Polls, NoPoll, Phases
  <1>5. auth \in [access : {"good", "stale", "fresh"}, refreshing : BOOLEAN]
    BY DEF Init
  <1>6. Sent \in Requests /\ Quiet \in Requests /\ Quiet.at = "idle" /\ Sent.at = "out"
    BY <1>5 DEF Sent, Quiet, Reply, Replies, Requests, States
  <1>7. req \in [Channels -> Requests] /\ req["poll"].at = "idle" /\ req["op"].at = "out"
    BY <1>6 DEF Init, Channels
  <1>8. TypeOK
    BY <1>1, <1>2, <1>3, <1>4, <1>5, <1>7, Types
  <1>9. WaitIsWatched
    BY <1>7 DEF Init, WaitIsWatched, Phase, Watched, Preparing
  <1>10. AnswersAreTheirQuestions /\ OutIsTrue
    BY DEF Init, AnswersAreTheirQuestions, OutIsTrue
  <1>11. HandlersKeepDrafts
    BY <1>7 DEF Init, HandlersKeepDrafts, ReplySays
  <1> QED BY <1>8, <1>9, <1>10, <1>11 DEF PageIInv

-----------------------------------------------------------------------------
(* Requests: the page and its polls stay as they are *)

\* A step of the server or the network, if what it answers is so.
LEMMA CallKeeps ==
  ASSUME PageIInv, UNCHANGED <<page, polls>>, Grows,
         row' \in Row, AnswersAreTheirQuestions',
         answers' \in [Questions -> Texts \cup {Empty}],
         req' \in [Channels -> Requests],
         auth' \in [access : {"good", "stale", "fresh"}, refreshing : BOOLEAN],
         faults' \in 0 .. MaxFaults,
         \A c \in Channels : req'[c].at = "idle" <=> req[c].at = "idle",
         \/ req'["op"].at = "back" => req["op"].at = "back" /\ req'["op"].reply = req["op"].reply
         \/ ReplySays'
  PROVE  PageIInv'
  <1>1. TypeOK'
    BY Types DEF PageIInv, TypeOK, Pages, Polls, Requests
  <1>2. WaitIsWatched'
    BY DEF PageIInv, WaitIsWatched, Rendered, Here, Phase, Channels
  <1>3. Unanswered' \subseteq Unanswered
    BY DEF Grows, Unanswered
  <1>4. OutIsTrue'
    BY <1>3 DEF PageIInv, OutIsTrue
  <1>5. page.q \in Questions \cup {NoQuestion}
    BY DEF PageIInv, TypeOK
  <1>6. page.op = "submit" => page.q \in Questions
    BY <1>5 DEF PageIInv, HandlersKeepDrafts
  <1>7. ReplySays'
    <2>1. CASE req'["op"].at = "back" => req["op"].at = "back" /\ req'["op"].reply = req["op"].reply
      BY <1>3, <1>6, <2>1 DEF PageIInv, HandlersKeepDrafts, ReplySays, Says, Grows
    <2> QED BY <2>1
  <1>8. HandlersKeepDrafts'
    BY <1>5, <1>7 DEF PageIInv, HandlersKeepDrafts, Grows, Here
  <1> QED BY <1>1, <1>2, <1>4, <1>8 DEF PageIInv

LEMMA Responds ==
  ASSUME TypeOK, row' \in Row, NEW c \in Channels, NEW code \in {"ok", "404", "409"},
         NEW q \in Questions \cup {NoQuestion}, req[c].at = "out", Respond(c, code, q)
  PROVE  /\ req' \in [Channels -> Requests] /\ faults' \in 0 .. MaxFaults
         /\ \A d \in Channels : d # c => req'[d] = req[d]
         /\ req'[c].at = "back" /\ req'[c].reply.code \in {code, "down"}
         /\ \A d \in Channels : req'[d].at = "idle" <=> req[d].at = "idle"
  <1> DEFINE good == IF code = "ok" THEN [code |-> code, state |-> row'.state, q |-> q] ELSE Reply(code)
  <1>1. req \in [Channels -> Requests] /\ faults \in 0 .. MaxFaults
    BY Types
  <1>2. good \in Replies /\ good.code = code
    BY DEF Replies, Reply, Row, States
  <1>3. Reply("down") \in Replies /\ Reply("down").code = "down"
    BY DEF Replies, Reply, States
  <1>4. faults' \in 0 .. MaxFaults
    BY <1>1, PageAssumption DEF Respond, Fault
  <1>5. \E r \in {good, Reply("down")} : req' = [req EXCEPT ![c].at = "back", ![c].reply = r]
    BY DEF Respond
  <1>6. PICK r \in Replies : /\ req' = [req EXCEPT ![c].at = "back", ![c].reply = r]
                             /\ r.code \in {code, "down"}
    BY <1>2, <1>3, <1>5
  <1> QED BY <1>1, <1>4, <1>6 DEF Requests

LEMMA OwnedType ==
  TypeOK => Owned \in Row /\ Owned.state \in {row.state, "EXPIRED"}
  <1>1. "EXPIRED" \in States /\ "deadline" \in Reasons
    BY DEF States, Reasons
  <1> QED BY <1>1, RowTypes DEF TypeOK, Owned

LEMMA GetSessionStep ==
  ASSUME PageIInv, NEW c \in Channels, GetSession(c)
  PROVE  PageIInv'
  <1>1. /\ UNCHANGED <<answers, page, polls, auth>> /\ row' = Owned
        /\ Respond(c, "ok", NoQuestion) /\ req[c].at = "out"
        /\ c = "op" => page.op \in {"load", "reread", "recover"}
    BY DEF GetSession, Arrives, Asks, PageIInv, TypeOK, Ops
  <1>2. row' \in Row /\ Grows
    BY <1>1, OwnedType DEF PageIInv, Grows, UnderWay, Preparing
  <1>3. /\ req' \in [Channels -> Requests] /\ faults' \in 0 .. MaxFaults
        /\ \A d \in Channels : d # c => req'[d] = req[d]
        /\ \A d \in Channels : req'[d].at = "idle" <=> req[d].at = "idle"
    BY <1>1, <1>2, Responds DEF PageIInv
  <1>4. c = "op" => ReplySays'
    BY <1>1 DEF ReplySays, Says
  <1>5. c # "op" => req'["op"] = req["op"]
    BY <1>3 DEF Channels
  <1> QED
    BY <1>1, <1>2, <1>3, <1>4, <1>5, CallKeeps DEF PageIInv, TypeOK, AnswersAreTheirQuestions

\* A route of the handler's call: what it answers, and what it does to the row.
LEMMA HandlerCall ==
  ASSUME PageIInv, UNCHANGED <<page, polls, auth>>, req["op"].at = "out", row' \in Row, Grows,
         answers' \in [Questions -> Texts \cup {Empty}], AnswersAreTheirQuestions',
         NEW code \in {"ok", "404", "409"}, NEW q \in Questions \cup {NoQuestion},
         Respond("op", code, q), Says(code)'
  PROVE  PageIInv'
  <1>1. /\ req' \in [Channels -> Requests] /\ faults' \in 0 .. MaxFaults
        /\ req'["op"].reply.code \in {code, "down"}
        /\ \A d \in Channels : req'[d].at = "idle" <=> req[d].at = "idle"
    BY Responds DEF PageIInv, Channels
  <1>2. ReplySays'
    BY <1>1 DEF ReplySays, Says
  <1> QED BY <1>1, <1>2, CallKeeps DEF PageIInv, TypeOK

LEMMA ServeStep ==
  ASSUME PageIInv, NEW c \in Channels, Serve(c)
  PROVE  PageIInv'
  <1> USE DEF NoQuestion
  <1>1. TypeOK /\ AnswersAreTheirQuestions /\ row \in Row
        /\ answers \in [Questions -> Texts \cup {Empty}]
    BY Types DEF PageIInv
  <1>2. Owned \in Row /\ Owned.state \in {row.state, "EXPIRED"}
    BY <1>1, OwnedType
  <1>3. ASSUME NEW route \in {"me", "start", "next", "submit", "finish"}, Arrives(c, route)
        PROVE  c = "op" /\ page.op = route /\ req["op"].at = "out"
    BY <1>3 DEF Arrives, Asks
  <1>4. ASSUME UNCHANGED <<answers, page>>
        PROVE  AnswersAreTheirQuestions' /\ answers' \in [Questions -> Texts \cup {Empty}]
    BY <1>1, <1>4 DEF AnswersAreTheirQuestions
  <1>6. CASE Me(c)
    <2>1. c = "op" /\ page.op = "me" /\ req["op"].at = "out" /\ row' = row
          /\ UNCHANGED <<answers, page, polls, auth>> /\ Respond("op", "ok", NoQuestion)
      BY <1>3, <1>6 DEF Me
    <2>2. Says("ok")' /\ Grows
      BY <2>1 DEF Says, Grows
    <2> QED BY <1>1, <2>1, <2>2, <1>4, HandlerCall
  <1>7. CASE StartSession(c)
    <2>1. /\ c = "op" /\ page.op = "start" /\ req["op"].at = "out"
          /\ UNCHANGED <<answers, page, polls, auth>>
          /\ \/ Owned.state = "READY" /\ row' = Begun(Owned) /\ Respond("op", "ok", NoQuestion)
             \/ row' = row /\ Respond("op", "409", NoQuestion)
      BY <1>3, <1>7 DEF StartSession
    <2>2. CASE Owned.state = "READY" /\ row' = Begun(Owned) /\ Respond("op", "ok", NoQuestion)
      <3>1. row' \in Row /\ UnderWay(row')
        BY <1>2, <2>2, BegunType
      <3>2. page.q = NoQuestion
        BY <1>2, <2>2 DEF PageIInv, HandlersKeepDrafts, UnderWay
      <3>3. Says("ok")' /\ Grows
        BY <2>1, <3>1, <3>2 DEF Says, Grows
      <3> QED BY <1>1, <2>1, <2>2, <3>1, <3>3, <1>4, HandlerCall
    <2>3. CASE row' = row /\ Respond("op", "409", NoQuestion)
      <3>1. Says("409")' /\ Grows
        BY <2>1, <2>3 DEF Says, Grows
      <3> QED BY <1>1, <2>1, <2>3, <3>1, <1>4, HandlerCall
    <2> QED BY <2>1, <2>2, <2>3
  <1>8. CASE NextQuestion(c)
    <2>1. /\ c = "op" /\ page.op = "next" /\ req["op"].at = "out"
          /\ UNCHANGED <<answers, page, polls, auth>> /\ row' = row
          /\ \/ Respond("op", "409", NoQuestion)
             \/ Unanswered = {} /\ Respond("op", "404", NoQuestion)
             \/ /\ Owned.state = "IN_PROGRESS" /\ Unanswered # {}
                /\ Respond("op", "ok", FirstOf(Unanswered))
      BY <1>3, <1>8 DEF NextQuestion
    <2>2. Grows
      BY <2>1 DEF Grows
    <2>3. CASE Respond("op", "409", NoQuestion)
      <3>1. Says("409")'
        BY DEF Says
      <3> QED BY <1>1, <2>1, <2>2, <2>3, <3>1, <1>4, HandlerCall
    <2>4. CASE Unanswered = {} /\ Respond("op", "404", NoQuestion)
      <3>1. Says("404")'
        BY <2>1, <2>4 DEF Says, Unanswered
      <3> QED BY <1>1, <2>1, <2>2, <2>4, <3>1, <1>4, HandlerCall
    <2>5. CASE /\ Owned.state = "IN_PROGRESS" /\ Unanswered # {}
               /\ Respond("op", "ok", FirstOf(Unanswered))
      <3>1. Says("ok")'
        BY <1>2, <2>1, <2>5 DEF Says, UnderWay, Preparing
      <3>2. FirstOf(Unanswered) \in Questions
        BY <2>5, FirstOfType DEF Unanswered
      <3> QED BY <1>1, <2>1, <2>2, <2>5, <3>1, <3>2, <1>4, HandlerCall
    <2> QED BY <2>1, <2>3, <2>4, <2>5
  <1>9. CASE FinishSession(c)
    <2>1. /\ c = "op" /\ page.op = "finish" /\ req["op"].at = "out"
          /\ UNCHANGED <<answers, page, polls, auth>>
          /\ \/ /\ Accepts(Owned.state, "EVALUATING")
                /\ row' = MovedTo(Owned, "EVALUATING", "none") /\ Respond("op", "ok", NoQuestion)
             \/ row' = row /\ Respond("op", "409", NoQuestion)
      BY <1>3, <1>9 DEF FinishSession
    <2>2. row' \in Row /\ Grows
      <3>1. MovedTo(Owned, "EVALUATING", "none") \in Row
            /\ MovedTo(Owned, "EVALUATING", "none").state = "EVALUATING"
        BY <1>2, RowTypes DEF States, Reasons
      <3> QED BY <1>1, <2>1, <3>1 DEF Grows, UnderWay, Preparing
    <2>3. Says("ok")' /\ Says("409")'
      BY <2>1 DEF Says
    <2> QED BY <2>1, <2>2, <2>3, <1>1, <1>4, HandlerCall
  <1>10. CASE SubmitAnswer(c)
    <2>1. /\ c = "op" /\ page.op = "submit" /\ req["op"].at = "out" /\ Here
          /\ UNCHANGED <<page, polls, auth>> /\ row' = row
          /\ \/ answers' = Stored(page.q, page.box) /\ Respond("op", "ok", NoQuestion)
             \/ answers' = answers /\ Respond("op", "409", NoQuestion)
      BY <1>3, <1>10 DEF SubmitAnswer, Arrives
    <2>2. page.q \in Questions /\ page.box \in TextsFor(page.q) /\ page.box # Empty
      BY <1>1, <2>1 DEF PageIInv, HandlersKeepDrafts, AnswersAreTheirQuestions, TypeOK
    <2>3. CASE answers' = answers /\ Respond("op", "409", NoQuestion)
      <3>1. Says("409")' /\ Grows
        BY <2>1, <2>3 DEF Says, Grows
      <3> QED BY <1>1, <2>1, <2>3, <3>1, <1>4, HandlerCall
    <2>4. CASE answers' = Stored(page.q, page.box) /\ Respond("op", "ok", NoQuestion)
      <3>1. page.box \in Texts
        BY <2>2, TextTypes
      <3>2. \A q \in Questions :
              answers'[q] = IF q = page.q /\ answers[q] = Empty THEN page.box ELSE answers[q]
        BY <1>1, <2>4 DEF Stored
      <3>3. answers' \in [Questions -> Texts \cup {Empty}]
        BY <1>1, <2>2, <2>4, <3>1 DEF Stored
      <3>4. AnswersAreTheirQuestions'
        BY <1>1, <2>1, <2>2, <3>2 DEF AnswersAreTheirQuestions
      <3>5. Grows
        BY <2>1, <2>2, <3>2 DEF Grows
      <3>6. Says("ok")'
        BY <2>1, <2>2, <3>2 DEF Says
      <3> QED BY <1>1, <2>1, <2>4, <3>3, <3>4, <3>5, <3>6, HandlerCall
    <2> QED BY <2>1, <2>3, <2>4
  <1> QED BY <1>6, <1>7, <1>8, <1>9, <1>10, GetSessionStep DEF Serve

LEMMA NetworkStep ==
  ASSUME PageIInv, \/ \E c \in Channels : Down(c) \/ Unauthorized(c)
                   \/ RefreshWorks \/ RefreshDrops \/ AccessExpires
  PROVE  PageIInv'
  <1>1. TypeOK /\ AnswersAreTheirQuestions /\ req \in [Channels -> Requests]
        /\ faults \in 0 .. MaxFaults
        /\ auth \in [access : {"good", "stale", "fresh"}, refreshing : BOOLEAN]
    BY Types DEF PageIInv
  <1>2. Reply("down") \in Replies /\ Reply("down").code = "down"
    BY DEF Reply, Replies, States
  <1>3. /\ UNCHANGED <<server, page, polls>> /\ faults' \in 0 .. MaxFaults
        /\ auth' \in [access : {"good", "stale", "fresh"}, refreshing : BOOLEAN]
    <2>1. UNCHANGED <<server, page, polls>>
      BY DEF Down, Unauthorized, RefreshWorks, RefreshDrops, AccessExpires
    <2>2. faults' = faults \/ (faults < MaxFaults /\ faults' = faults + 1)
      BY DEF Down, Unauthorized, RefreshWorks, RefreshDrops, AccessExpires, Fault
    <2>3. faults' \in 0 .. MaxFaults
      BY <1>1, <2>2, PageAssumption
    <2>4. \/ auth' = auth \/ auth' = [auth EXCEPT !.refreshing = TRUE]
          \/ auth' = [access |-> "fresh", refreshing |-> FALSE]
          \/ auth' = [auth EXCEPT !.refreshing = FALSE] \/ auth' = [auth EXCEPT !.access = "stale"]
      BY DEF Down, Unauthorized, RefreshWorks, RefreshDrops, AccessExpires
    <2>5. auth' \in [access : {"good", "stale", "fresh"}, refreshing : BOOLEAN]
      <3>1. CASE auth' = auth \/ auth' = [auth EXCEPT !.access = "stale"]
        BY <1>1, <3>1
      <3>2. CASE auth' = [auth EXCEPT !.refreshing = TRUE] \/ auth' = [auth EXCEPT !.refreshing = FALSE]
        BY <1>1, <3>2
      <3>3. CASE auth' = [access |-> "fresh", refreshing |-> FALSE]
        BY <3>3
      <3> QED BY <2>4, <3>1, <3>2, <3>3
    <2> QED BY <2>1, <2>3, <2>5
  <1>4. row' = row /\ answers' = answers /\ Grows
    BY <1>3 DEF server, Grows
  <1>5. /\ req' \in [Channels -> Requests]
        /\ \A c \in Channels : req'[c].at = "idle" <=> req[c].at = "idle"
        /\ \/ req'["op"].at = "back" => req["op"].at = "back" /\ req'["op"].reply = req["op"].reply
           \/ req'["op"].reply.code = "down"
    <2>1. ASSUME NEW c \in Channels, Down(c) PROVE <1>5!:
      BY <1>1, <1>2, <2>1 DEF Down, Requests, Channels
    <2>2. ASSUME NEW c \in Channels, Unauthorized(c) PROVE <1>5!:
      BY <1>1, <2>2 DEF Unauthorized, Requests, Channels
    <2>3. CASE RefreshWorks
      BY <1>1, <2>3, ZenonT(60) DEF RefreshWorks, Joined, Requests, Channels
    <2>4. CASE RefreshDrops
      BY <1>1, <1>2, <2>4, ZenonT(60) DEF RefreshDrops, Rejected, Joined, Requests, Channels
    <2>5. CASE AccessExpires
      BY <1>1, <2>5, ZenonT(60) DEF AccessExpires, Requests, Channels
    <2> QED BY <2>1, <2>2, <2>3, <2>4, <2>5
  <1>6. req'["op"].reply.code = "down" => ReplySays'
    BY DEF ReplySays, Says
  <1> QED
    BY <1>1, <1>3, <1>4, <1>5, <1>6, CallKeeps DEF TypeOK, AnswersAreTheirQuestions

\* The page is left: what waits for it is no more.
LEMMA DeniedStep ==
  ASSUME PageIInv, RefreshDenied
  PROVE  PageIInv'
  <1>1. /\ row' = row /\ answers' = answers /\ polls' = polls /\ faults' = faults + 1 /\ faults < MaxFaults
        /\ auth' = [auth EXCEPT !.refreshing = FALSE] /\ req' = Rejected("401")
        /\ \E why \in {"refused", "outage"} : page' = Left(page, why)
    BY DEF RefreshDenied, Fault, server
  <1>2. PICK why \in {"refused", "outage"} : page' = Left(page, why)
    BY <1>1
  <1>3. /\ row \in Row /\ answers \in [Questions -> Texts \cup {Empty}]
        /\ page \in Pages /\ polls \in [{"poll", "old"} -> Polls] /\ req \in [Channels -> Requests]
        /\ auth \in [access : {"good", "stale", "fresh"}, refreshing : BOOLEAN]
        /\ faults \in 0 .. MaxFaults
    BY Types DEF PageIInv
  <1>4. /\ page' \in Pages /\ page'.left # "no" /\ page'.q = page.q /\ page'.box = Empty
        /\ page'.op = page.op /\ page'.out = page.out
    BY <1>2, <1>3 DEF Pages, Left
  <1>5. Reply("401") \in Replies /\ Reply("401").code = "401"
    BY DEF Reply, Replies, States
  <1>6. /\ req' \in [Channels -> Requests]
        /\ \A c \in Channels : req'[c].at = "idle" => req[c].at = "idle"
        /\ \A c \in Channels : req[c].at = "idle" => req'[c].at = "idle"
        /\ \/ req'["op"].at = "back" => req["op"].at = "back" /\ req'["op"].reply = req["op"].reply
           \/ req'["op"].reply.code = "401"
    <2>1. \A c \in Channels :
            req'[c] = IF req[c].at = "refresh"
                      THEN [req[c] EXCEPT !.at = "back", !.reply = Reply("401")] ELSE req[c]
      BY <1>1 DEF Rejected, Joined
    <2>2. req' \in [Channels -> Requests]
      <3>1. req' = [c \in Channels |-> req'[c]]
        BY <1>1 DEF Rejected
      <3>2. \A c \in Channels : req'[c] \in Requests
        BY <1>3, <1>5, <2>1, ZenonT(60) DEF Requests
      <3> QED BY <3>1, <3>2
    <2>3. ASSUME NEW c \in Channels
          PROVE  /\ req'[c].at = "idle" <=> req[c].at = "idle"
                 /\ req[c].at = "refresh" => req'[c].reply.code = "401"
      BY <1>3, <1>5, <2>1 DEF Requests
    <2> QED BY <2>1, <2>2, <2>3 DEF Channels
  <1>7. TypeOK'
    <2>1. faults' \in 0 .. MaxFaults
      BY <1>1, <1>3, PageAssumption
    <2>2. auth' \in [access : {"good", "stale", "fresh"}, refreshing : BOOLEAN]
      BY <1>1, <1>3
    <2> QED BY <1>1, <1>3, <1>4, <1>6, <2>1, <2>2 DEF TypeOK, Pages, Polls, Requests
  <1>8. WaitIsWatched'
    BY <1>1, <1>4, <1>6 DEF PageIInv, WaitIsWatched, Rendered, Here, Channels
  <1>9. AnswersAreTheirQuestions' /\ OutIsTrue'
    BY <1>1, <1>4 DEF PageIInv, AnswersAreTheirQuestions, OutIsTrue, Unanswered
  <1>10. ReplySays'
    BY <1>1, <1>4, <1>6 DEF PageIInv, HandlersKeepDrafts, ReplySays, Says, Unanswered
  <1>11. HandlersKeepDrafts'
    BY <1>1, <1>4, <1>10 DEF PageIInv, HandlersKeepDrafts, Here
  <1> QED BY <1>7, <1>8, <1>9, <1>11 DEF PageIInv

\* A worker, another page, the clocks.
LEMMA WorldStep ==
  ASSUME PageIInv, Work \/ SecondTab \/ DeadlinePasses
  PROVE  PageIInv'
  <1>1. UNCHANGED <<answers, polls, req, auth, faults>>
    BY DEF Work, SecondTab, DeadlinePasses
  <1>2. /\ row \in Row /\ answers \in [Questions -> Texts \cup {Empty}]
        /\ page \in Pages /\ polls \in [{"poll", "old"} -> Polls] /\ req \in [Channels -> Requests]
        /\ auth \in [access : {"good", "stale", "fresh"}, refreshing : BOOLEAN]
        /\ faults \in 0 .. MaxFaults
    BY Types DEF PageIInv
  <1>3. row' \in Row /\ (UnderWay(row) => UnderWay(row'))
    <2>1. CASE Work
      <3>1. PICK t \in IF row.state = "EVALUATING" THEN Transitions["EVALUATING"] ELSE {"READY", "FAILED"} :
                   row' = MovedTo(row, t, "gave_up")
        BY <2>1 DEF Work
      <3>2. row.state \in Preparing \/ (row.state = "EVALUATING" /\ t \in {"COMPLETED", "NEEDS_HUMAN_REVIEW", "FAILED"})
        BY <2>1, <3>1 DEF Work, Transitions, States
      <3>3. t \in States /\ "gave_up" \in Reasons
        BY <3>1, <3>2 DEF States, Reasons, Preparing
      <3>4. row' \in Row /\ row'.state = t
        BY <1>2, <3>1, <3>3, RowTypes
      <3> QED BY <3>2, <3>4 DEF UnderWay, Preparing
    <2>2. CASE SecondTab
      <3>1. CASE row' = Begun(row)
        BY <1>2, <3>1, BegunType
      <3>2. CASE row' = MovedTo(row, "EVALUATING", "none")
        <4>1. "EVALUATING" \in States /\ "none" \in Reasons
          BY DEF States, Reasons
        <4>2. row' \in Row /\ row'.state = "EVALUATING"
          BY <1>2, <3>2, <4>1, RowTypes
        <4> QED BY <4>2 DEF UnderWay, Preparing
      <3> QED BY <2>2, <3>1, <3>2 DEF SecondTab
    <2>3. CASE DeadlinePasses
      BY <1>2, <2>3 DEF DeadlinePasses, Row, Deadlines, UnderWay
    <2> QED BY <2>1, <2>2, <2>3
  <1>4. /\ page' \in Pages /\ page'.q = page.q /\ page'.box = page.box /\ page'.op = page.op
        /\ page'.out = page.out /\ page'.left = page.left
        /\ page' = page \/ (page'.view = "IN_PROGRESS" /\ page'.passed)
    <2>1. CASE page' = page
      BY <1>2, <2>1
    <2>2. CASE page.view = "IN_PROGRESS" /\ page' = [page EXCEPT !.passed = TRUE]
      BY <1>2, <2>2 DEF Pages
    <2>3. page' = page \/ (page.view = "IN_PROGRESS" /\ page' = [page EXCEPT !.passed = TRUE])
      BY DEF Work, SecondTab, DeadlinePasses
    <2> QED BY <2>1, <2>2, <2>3
  <1>5. TypeOK'
    BY <1>1, <1>2, <1>3, <1>4 DEF TypeOK, Pages, Polls, Requests
  <1>6. WaitIsWatched'
    <2>1. CASE page' = page
      BY <1>1, <2>1 DEF PageIInv, WaitIsWatched, Rendered, Here, Phase
    <2>2. CASE page'.view = "IN_PROGRESS" /\ page'.passed
      <3>1. Phase' = "deadline"
        BY <2>2 DEF Phase, Preparing
      <3> QED BY <1>1, <3>1 DEF PageIInv, WaitIsWatched, Watched
    <2> QED BY <1>4, <2>1, <2>2
  <1>7. AnswersAreTheirQuestions' /\ OutIsTrue'
    BY <1>1, <1>4 DEF PageIInv, AnswersAreTheirQuestions, OutIsTrue, Unanswered
  <1>8. ReplySays'
    BY <1>1, <1>3, <1>4 DEF PageIInv, HandlersKeepDrafts, ReplySays, Says, Unanswered
  <1>9. HandlersKeepDrafts'
    BY <1>1, <1>3, <1>4, <1>8 DEF PageIInv, HandlersKeepDrafts, Here
  <1> QED BY <1>5, <1>6, <1>7, <1>9 DEF PageIInv

-----------------------------------------------------------------------------
(* Handlers: the server and the polls stay as they are *)

LEMMA Awaits ==
  ASSUME PageIInv, Rendered, NEW p \in Pages, NEW op \in Ops, Await(p, op),
         p.health = page.health,
         p.q # NoQuestion => p.box \in TextsFor(p.q) \cup {Empty},
         p.out => Unanswered = {},
         op \in {"me", "load"} => p.q = NoQuestion,
         p.q # NoQuestion => UnderWay(row),
         op = "submit" => p.q # NoQuestion /\ p.box # Empty,
         op \in {"next", "reread"} /\ p.q # NoQuestion /\ p.box # Empty => answers[p.q] # Empty
  PROVE  PageIInv'
  <1>1. /\ page' = [p EXCEPT !.op = op] /\ UNCHANGED <<row, answers, polls, auth, faults>>
        /\ req' = [req EXCEPT !["op"] = IF op = "idle" THEN Quiet ELSE Sent]
    BY DEF Await, server
  <1>2. /\ page' \in Pages /\ page'.op = op /\ page'.q = p.q /\ page'.box = p.box
        /\ page'.out = p.out /\ page'.health = p.health
    BY <1>1 DEF Pages
  <1>3. /\ Quiet \in Requests /\ Sent \in Requests /\ Quiet.at = "idle" /\ Sent.at = "out"
        /\ req \in [Channels -> Requests]
    BY Types, RequestTypes DEF PageIInv
  <1>4. /\ req' \in [Channels -> Requests] /\ req'["poll"] = req["poll"] /\ req'["old"] = req["old"]
        /\ req'["op"].at # "back"
    BY <1>1, <1>3 DEF Channels
  <1>5. TypeOK'
    BY <1>1, <1>2, <1>4 DEF PageIInv, TypeOK, Pages, Requests
  <1>6. WaitIsWatched'
    BY <1>1, <1>2, <1>4 DEF PageIInv, WaitIsWatched, Rendered
  <1>7. AnswersAreTheirQuestions' /\ OutIsTrue'
    BY <1>1, <1>2 DEF PageIInv, AnswersAreTheirQuestions, OutIsTrue, Unanswered
  <1>8. HandlersKeepDrafts'
    BY <1>1, <1>2, <1>4 DEF HandlersKeepDrafts, ReplySays
  <1> QED BY <1>5, <1>6, <1>7, <1>8 DEF PageIInv

\* The page as it is, waiting for another call.
LEMMA AwaitsMore ==
  ASSUME PageIInv, Rendered, NEW p \in Pages, NEW op \in Ops, Await(p, op),
         p.health = page.health, p.q = page.q, p.box = page.box, p.out = page.out,
         op \in {"me", "load"} => p.q = NoQuestion,
         op = "submit" => p.q # NoQuestion /\ p.box # Empty,
         op \in {"next", "reread"} /\ p.q # NoQuestion /\ p.box # Empty => answers[p.q] # Empty
  PROVE  PageIInv'
  BY Awaits DEF PageIInv, AnswersAreTheirQuestions, OutIsTrue, HandlersKeepDrafts

LEMMA HandleStep ==
  ASSUME PageIInv, Handle
  PROVE  PageIInv'
  <1> USE DEF NoQuestion
  <1>1. /\ page \in Pages /\ req["op"].reply \in Replies /\ Rendered /\ req["op"].at = "back"
    BY Types DEF PageIInv, Handle, SignedIn, Loaded, QuestionLoaded, Shown, Accepted, Retried,
       Failed, Returned, Requests, Channels
  <1>2. Says(Answer.code) /\ Answer.state \in States /\ Answer.q \in Questions \cup {NoQuestion}
    BY <1>1 DEF PageIInv, HandlersKeepDrafts, ReplySays, Answer, Replies
  <1>3. ASSUME NEW v \in States
        PROVE  /\ Showing(v) \in Pages /\ Showing(v).health = page.health /\ Showing(v).q = page.q
               /\ Showing(v).box = page.box /\ Showing(v).out = page.out
    BY <1>1 DEF Showing, Pages
  <1>4. /\ WithError \in Pages /\ WithError.health = page.health /\ WithError.q = page.q
        /\ WithError.box = page.box /\ WithError.out = page.out
    BY <1>1 DEF WithError, Pages
  <1>5. {"idle", "me", "load", "next", "start", "submit", "reread", "finish", "recover"} \subseteq Ops
    BY DEF Ops
  <1>6. CASE SignedIn
    <2>1. page.q = NoQuestion /\ page.op = "me"
      BY <1>6 DEF SignedIn, Returned, PageIInv, HandlersKeepDrafts
    <2>2. CASE Await(page, "load")
      BY <1>1, <1>5, <2>1, <2>2, AwaitsMore
    <2>3. CASE Await(Left(page, "outage"), "idle")
      <3> DEFINE p == Left(page, "outage")
      <3>1. p \in Pages /\ p.health = page.health /\ p.q = NoQuestion /\ p.out = page.out
        BY <1>1, <2>1 DEF Pages, Left
      <3> HIDE DEF p
      <3>2. Await(p, "idle")
        BY <2>3 DEF p
      <3> QED BY <1>1, <1>5, <3>1, <3>2, Awaits DEF PageIInv, OutIsTrue
    <2> QED BY <1>6, <2>2, <2>3 DEF SignedIn
  <1>7. CASE Loaded
    <2>1. page.q = NoQuestion
      BY <1>7 DEF Loaded, Returned, PageIInv, HandlersKeepDrafts
    <2>2. \/ \E op \in {"next", "idle"} : Await(Showing(Answer.state), op)
          \/ Await(WithError, "idle")
      BY <1>7 DEF Loaded
    <2> QED BY <1>1, <1>2, <1>3, <1>4, <1>5, <2>1, <2>2, AwaitsMore
  <1>8. CASE QuestionLoaded
    <2>1. CASE Returned({"next"}, {"ok"}) /\ Await(Asked(Answer.q), "idle")
      <3>1. UnderWay(row)
        BY <1>2, <2>1 DEF Returned, Says
      <3>2. /\ Asked(Answer.q) \in Pages /\ Asked(Answer.q).health = page.health
            /\ Asked(Answer.q).box = Empty /\ ~Asked(Answer.q).out
        BY <1>1, <1>2 DEF Asked, Pages
      <3> QED BY <1>1, <1>5, <2>1, <3>1, <3>2, Awaits
    <2>2. CASE Returned({"next"}, {"404"}) /\ Await([page EXCEPT !.q = NoQuestion, !.out = TRUE], "idle")
      <3> DEFINE p == [page EXCEPT !.q = NoQuestion, !.out = TRUE]
      <3>1. Unanswered = {}
        BY <1>2, <2>2 DEF Returned, Says
      <3>2. p \in Pages /\ p.health = page.health /\ p.q = NoQuestion
        BY <1>1 DEF Pages
      <3> HIDE DEF p
      <3>3. Await(p, "idle")
        BY <2>2 DEF p
      <3> QED BY <1>1, <1>5, <3>1, <3>2, <3>3, Awaits
    <2>3. CASE Await(WithError, "idle")
      BY <1>1, <1>4, <1>5, <2>3, AwaitsMore
    <2> QED BY <1>8, <2>1, <2>2, <2>3 DEF QuestionLoaded
  <1>9. CASE Shown
    <2>1. CASE Returned({"start", "reread"}, {"ok"}) /\ Await(Showing(Answer.state), "next")
      <3>1. page.q # NoQuestion /\ page.box # Empty => answers[page.q] # Empty
        BY <1>2, <2>1 DEF Returned, Says, PageIInv, HandlersKeepDrafts
      <3> QED BY <1>1, <1>2, <1>3, <1>5, <2>1, <3>1, AwaitsMore
    <2>2. CASE Await(Showing(Answer.state), "idle")
      BY <1>1, <1>2, <1>3, <1>5, <2>2, AwaitsMore
    <2> QED BY <1>9, <2>1, <2>2 DEF Shown
  <1>10. CASE Accepted
    <2>1. answers[page.q] # Empty /\ Await(page, "reread")
      BY <1>2, <1>10 DEF Accepted, Returned, Says
    <2> QED BY <1>1, <1>5, <2>1, AwaitsMore
  <1>11. CASE Retried
    <2>1. page.op \in {"submit", "reread", "finish"} /\ Await(page, page.op)
      BY <1>11 DEF Retried, Returned
    <2> QED BY <1>1, <1>5, <2>1, AwaitsMore DEF PageIInv, HandlersKeepDrafts, Rendered
  <1>12. CASE Failed
    <2>1. Await(page, "recover") \/ Await(WithError, "idle")
      BY <1>12 DEF Failed, StayPut
    <2> QED BY <1>1, <1>4, <1>5, <2>1, AwaitsMore
  <1> QED BY <1>6, <1>7, <1>8, <1>9, <1>10, <1>11, <1>12 DEF Handle

LEMMA CandidateStep ==
  ASSUME PageIInv, Type \/ Send \/ Finish \/ Begin
  PROVE  PageIInv'
  <1>1. page \in Pages /\ Rendered
    BY Types DEF PageIInv, Type, Send, Finish, Begin, Free
  <1>2. {"idle", "submit", "finish", "start"} \subseteq Ops
    BY DEF Ops
  <1>3. CASE Type
    <2>1. PICK text \in TextsFor(page.q) : Await([page EXCEPT !.box = text], "idle")
      BY <1>3 DEF Type
    <2>2. page.q \in Questions /\ page.q # NoQuestion
      BY <1>1, <1>3 DEF Type, Pages
    <2> DEFINE p == [page EXCEPT !.box = text]
    <2>3. /\ p \in Pages /\ p.health = page.health /\ p.q = page.q /\ p.out = page.out /\ p.box = text
      BY <1>1, <2>2, TextTypes DEF Pages
    <2>4. Await(p, "idle")
      BY <2>1
    <2> HIDE DEF p
    <2> QED
      BY <1>1, <1>2, <2>2, <2>3, <2>4, Awaits DEF PageIInv, OutIsTrue, HandlersKeepDrafts
  <1>4. CASE Send \/ Finish \/ Begin
    <2>1. /\ WithoutError \in Pages /\ WithoutError.health = page.health /\ WithoutError.q = page.q
          /\ WithoutError.box = page.box /\ WithoutError.out = page.out
      BY <1>1 DEF WithoutError, Pages
    <2>2. \/ Await(WithoutError, "submit") /\ page.q # NoQuestion /\ page.box # Empty
          \/ Await(WithoutError, "finish") \/ Await(WithoutError, "start")
      BY <1>4 DEF Send, Finish, Begin
    <2> QED BY <1>1, <1>2, <2>1, <2>2, AwaitsMore
  <1> QED BY <1>3, <1>4

-----------------------------------------------------------------------------
(* Polls: the handler's call and the question stay as they are *)

LEMMA PollKeeps ==
  ASSUME PageIInv, UNCHANGED <<server, auth, faults>>, page' \in Pages,
         polls' \in [{"poll", "old"} -> Polls], req' \in [Channels -> Requests],
         req'["op"] = req["op"], page'.q = page.q,
         (page'.box = page.box /\ Here) \/ (page'.box = Empty /\ ~Here'),
         page'.op = page.op, page'.out = page.out, WaitIsWatched'
  PROVE  PageIInv'
  <1>1. row' = row /\ answers' = answers /\ auth' = auth /\ faults' = faults
    BY DEF server
  <1>2. TypeOK'
    BY <1>1 DEF PageIInv, TypeOK, Pages, Polls, Requests
  <1>3. AnswersAreTheirQuestions' /\ OutIsTrue' /\ HandlersKeepDrafts'
    BY <1>1 DEF PageIInv, AnswersAreTheirQuestions, OutIsTrue, HandlersKeepDrafts, ReplySays,
       Says, Unanswered
  <1> QED BY <1>2, <1>3 DEF PageIInv

LEMMA Typed ==
  PageIInv => /\ page \in Pages /\ polls \in [{"poll", "old"} -> Polls]
              /\ req \in [Channels -> Requests]
  BY Types DEF PageIInv

LEMMA PhaseType == Phase \in Phases
  BY DEF Phase, Phases

\* An effect's new poll is live.
LEMMA RestartStep ==
  ASSUME PageIInv, Here, NEW p \in Pages, Restart(p), p.view = page.view, p.passed = page.passed,
         p.q = page.q, p.box = page.box, p.op = page.op, p.out = page.out
  PROVE  PageIInv'
  <1> DEFINE next == [phase |-> Phase, live |-> Phase # "none", troubled |-> FALSE]
             call == IF Phase = "none" THEN Quiet ELSE Sent
  <1>1. page \in Pages /\ polls \in [{"poll", "old"} -> Polls] /\ req \in [Channels -> Requests]
    BY Typed
  <1>2. next \in Polls /\ next.live = (Phase # "none")
    BY PhaseType DEF Polls
  <1>3. call \in Requests /\ (Phase = "none" => call.at = "idle")
    BY RequestTypes DEF PageIInv
  <1>4. /\ page' = p /\ UNCHANGED <<server, auth, faults>>
        /\ \/ polls' = [polls EXCEPT !["poll"] = next] /\ req' = [req EXCEPT !["poll"] = call]
           \/ /\ polls' = [polls EXCEPT !["poll"] = next, !["old"] = polls["poll"]]
              /\ req' = [req EXCEPT !["poll"] = call, !["old"] = req["poll"]]
    BY DEF Restart
  <1> HIDE DEF next, call
  <1>5. /\ polls' \in [{"poll", "old"} -> Polls] /\ polls'["poll"] = next
        /\ req' \in [Channels -> Requests] /\ req'["poll"] = call /\ req'["op"] = req["op"]
    BY <1>1, <1>2, <1>3, <1>4 DEF Channels
  <1>6. Phase' = Phase
    BY <1>4 DEF Phase
  <1>7. WaitIsWatched'
    BY <1>2, <1>3, <1>5, <1>6 DEF WaitIsWatched, Watched
  <1> QED BY <1>4, <1>5, <1>7, PollKeeps

LEMMA HealthType ==
  ASSUME PageIInv, NEW c \in {"poll", "old"}, NEW p \in Pages
  PROVE  /\ Health(c, p) \in Pages
         /\ Health(c, p).view = p.view /\ Health(c, p).passed = p.passed
         /\ Health(c, p).q = p.q /\ Health(c, p).box = p.box
         /\ Health(c, p).op = p.op /\ Health(c, p).out = p.out /\ Health(c, p).left = p.left
         /\ req[c].reply.code # "down" /\ ~polls[c].troubled => Health(c, p).health = p.health
  BY DEF Health, Pages

LEMMA OverType ==
  ASSUME PageIInv, NEW c \in {"poll", "old"}, Over(c)
  PROVE  /\ polls' \in [{"poll", "old"} -> Polls] /\ req' \in [Channels -> Requests]
         /\ req'["op"] = req["op"] /\ req'[c].at = "idle" /\ ~polls'[c].live
         /\ polls'["poll"].phase = polls["poll"].phase
         /\ \A d \in {"poll", "old"} \ {c} : polls'[d] = polls[d] /\ req'[d] = req[d]
  <1>1. polls \in [{"poll", "old"} -> Polls] /\ req \in [Channels -> Requests]
    BY Typed
  <1>2. Quiet \in Requests /\ Quiet.at = "idle"
    BY RequestTypes DEF PageIInv
  <1> QED BY <1>1, <1>2 DEF Over, Polls, Channels

\* What ends a wait is not the wait: the poll that found it may die.
LEMMA SettleStep ==
  ASSUME PageIInv, NEW c \in {"poll", "old"}, PollSettles(c)
  PROVE  PageIInv'
  <1> DEFINE s == req[c].reply.state
             h == Health(c, page)
  <1>1. /\ page \in Pages /\ polls \in [{"poll", "old"} -> Polls] /\ req \in [Channels -> Requests]
        /\ c \in Channels
    BY Typed DEF Channels
  <1>2. /\ Rendered /\ req[c].at = "back" /\ Settled(polls[c].phase, s) /\ Over(c)
        /\ page' = Arrived(c, s) /\ UNCHANGED <<server, auth, faults>>
    BY DEF PollSettles, Checked, Enough
  <1>3. s \in States
    BY <1>1 DEF Requests, Replies
  <1>4. /\ h \in Pages /\ h.q = page.q /\ h.box = page.box /\ h.op = page.op /\ h.out = page.out
        /\ h.passed = page.passed
    BY <1>1, HealthType
  <1> HIDE DEF s, h
  <1>5. /\ page' \in Pages /\ page'.q = page.q /\ page'.op = page.op
        /\ page'.box = page.box \/ (page'.box = Empty /\ ~Here')
        /\ page'.out = page.out /\ page'.view = s
    <2> DEFINE p == [h EXCEPT !.view = s]
    <2>1. page' = p \/ page' = Left(p, "report")
      BY <1>2 DEF Arrived, h
    <2>2. p \in Pages /\ p.q = h.q /\ p.box = h.box /\ p.op = h.op /\ p.out = h.out /\ p.view = s
      BY <1>3, <1>4 DEF Pages
    <2> HIDE DEF p
    <2> QED BY <1>4, <2>1, <2>2 DEF Pages, Left, Here
  <1>6. WaitIsWatched'
    <2>1. CASE c = "poll"
      <3>1. ~polls'["poll"].live /\ req'["poll"].at = "idle" /\ polls'["poll"].phase = Phase
        BY <1>2, <2>1, OverType DEF Rendered
      <3>2. Phase \in Watched => Phase' # Phase
        BY <1>2, <1>5, <2>1 DEF Rendered, Settled, Watched, Phase, Preparing
      <3> QED BY <3>1, <3>2 DEF WaitIsWatched, Rendered
    <2>2. CASE c = "old"
      <3>1. polls'["poll"] = polls["poll"] /\ req'["poll"] = req["poll"]
        BY <1>2, <2>2, OverType
      <3> QED BY <1>2, <2>2, <3>1 DEF PageIInv, WaitIsWatched, Rendered
    <2> QED BY <2>1, <2>2
  <1> QED BY <1>2, <1>5, <1>6, OverType, PollKeeps DEF Rendered

LEMMA GiveUpStep ==
  ASSUME PageIInv, NEW c \in {"poll", "old"}, PollGivesUp(c)
  PROVE  PageIInv'
  <1> DEFINE h == Health(c, page)
  <1>1. page \in Pages
    BY Typed
  <1>2. /\ Over(c) /\ page' = [h EXCEPT !.health = "slow"] /\ UNCHANGED <<server, auth, faults>>
        /\ c = "poll" => req["old"].at = "idle"
        /\ Rendered
    BY DEF PollGivesUp, Checked
  <1>3. /\ h \in Pages /\ h.q = page.q /\ h.box = page.box /\ h.op = page.op /\ h.out = page.out
    BY <1>1, HealthType
  <1> HIDE DEF h
  <1>4. /\ page' \in Pages /\ page'.q = page.q /\ page'.box = page.box /\ page'.op = page.op
        /\ page'.out = page.out /\ page'.health = "slow"
    BY <1>2, <1>3 DEF Pages
  <1>5. req'["old"].at = "idle"
    BY <1>2, OverType
  <1>6. ~polls'["poll"].live => req'["poll"].at = "idle"
    BY <1>2, OverType DEF PageIInv, WaitIsWatched
  <1>7. WaitIsWatched'
    BY <1>4, <1>5, <1>6 DEF WaitIsWatched
  <1> QED BY <1>2, <1>4, <1>7, OverType, PollKeeps DEF Rendered

\* Nothing but a poll that gave up is dead while it is waited for.
LEMMA BackMeansLive ==
  ASSUME PageIInv, Rendered, NEW c \in {"poll", "old"}, req[c].at = "back", Phase \in Watched
  PROVE  polls["poll"].live
  BY DEF PageIInv, WaitIsWatched

LEMMA CheckAgainStep ==
  ASSUME PageIInv, PollAgain \/ PollAborts
  PROVE  PageIInv'
  <1>1. page \in Pages /\ polls \in [{"poll", "old"} -> Polls] /\ req \in [Channels -> Requests]
    BY Typed
  <1>2. PICK c \in {"poll", "old"} :
           /\ Rendered /\ req[c].at = "back" /\ page' = Health(c, page)
           /\ UNCHANGED <<server, auth, faults>>
           /\ c = "poll" => PollAgain
           /\ c = "old" => PollAborts
    BY DEF PollAgain, PollAborts, Checked
  <1>3. /\ page' \in Pages /\ page'.q = page.q /\ page'.box = page.box /\ page'.op = page.op
        /\ page'.out = page.out /\ page'.view = page.view /\ page'.passed = page.passed
    BY <1>1, <1>2, HealthType
  <1>4. Phase' = Phase
    BY <1>3 DEF Phase
  <1>5. /\ polls' \in [{"poll", "old"} -> Polls] /\ req' \in [Channels -> Requests]
        /\ req'["op"] = req["op"] /\ polls'["poll"].live = polls["poll"].live
        /\ polls'["poll"].phase = polls["poll"].phase
        /\ req'["poll"].at = "idle" <=> req["poll"].at = "idle"
    <2>1. CASE c = "old"
      <3>1. Over("old")
        BY <1>2, <2>1 DEF PollAborts
      <3> QED BY <3>1, OverType
    <2>2. CASE c = "poll"
      <3>1. /\ polls' = [polls EXCEPT !["poll"].troubled = req["poll"].reply.code = "down"]
            /\ req' = [req EXCEPT !["poll"] = Sent]
        BY <1>2, <2>2 DEF PollAgain
      <3>2. Sent \in Requests /\ Sent.at = "out"
        BY RequestTypes DEF PageIInv
      <3>3. /\ polls' \in [{"poll", "old"} -> Polls] /\ polls'["poll"].live = polls["poll"].live
            /\ polls'["poll"].phase = polls["poll"].phase
        BY <1>1, <3>1 DEF Polls
      <3>4. req' \in [Channels -> Requests] /\ req'["op"] = req["op"] /\ req'["poll"].at = "out"
        BY <1>1, <3>1, <3>2 DEF Channels
      <3> QED BY <1>2, <2>2, <3>3, <3>4
    <2> QED BY <2>1, <2>2
  <1>6. WaitIsWatched'
    BY <1>2, <1>4, <1>5, BackMeansLive DEF PageIInv, WaitIsWatched, Rendered
  <1> QED BY <1>2, <1>3, <1>5, <1>6, PollKeeps DEF Rendered

LEMMA WatchStep ==
  ASSUME PageIInv, Watching \/ KeepWaiting
  PROVE  PageIInv'
  <1>1. page \in Pages
    BY Typed
  <1>2. CASE Effect
    BY <1>1, <1>2, RestartStep DEF Effect
  <1>3. CASE KeepWaiting
    <2> DEFINE p == [page EXCEPT !.health = "ok"]
    <2>1. /\ p \in Pages /\ p.view = page.view /\ p.passed = page.passed /\ p.q = page.q
          /\ p.box = page.box /\ p.op = page.op /\ p.out = page.out
      BY <1>1 DEF Pages
    <2>2. Restart(p)
      BY <1>3 DEF KeepWaiting
    <2> HIDE DEF p
    <2> QED BY <1>3, <2>1, <2>2, RestartStep DEF KeepWaiting, Rendered
  <1> QED
    BY <1>2, <1>3, SettleStep, GiveUpStep, CheckAgainStep DEF Watching, Poll

-----------------------------------------------------------------------------
(* Theorems *)

LEMMA Step ==
  ASSUME PageIInv, [Next]_vars
  PROVE  PageIInv'
  <1>1. CASE UNCHANGED vars
    <2>1. UNCHANGED <<row, answers, page, polls, req, auth, faults>>
      BY <1>1 DEF vars, server
    <2>2. TypeOK'
      BY <2>1 DEF PageIInv, TypeOK
    <2>3. WaitIsWatched'
      BY <2>1 DEF PageIInv, WaitIsWatched, Rendered, Here, Phase
    <2>4. AnswersAreTheirQuestions' /\ OutIsTrue' /\ HandlersKeepDrafts'
      BY <2>1 DEF PageIInv, AnswersAreTheirQuestions, OutIsTrue, HandlersKeepDrafts, ReplySays,
         Says, Unanswered, Here
    <2> QED BY <2>2, <2>3, <2>4 DEF PageIInv
  <1>2. CASE Next
    BY <1>2, CandidateStep, HandleStep, WatchStep, ServeStep, NetworkStep, DeniedStep, WorldStep
       DEF Next, Candidate, Calls, RefreshEnds, World
  <1> QED BY <1>1, <1>2

LEMMA OnlyTheNextEmpties ==
  ASSUME PageIInv, [Next]_vars, page.q # NoQuestion, page.box # Empty, page'.box = Empty, Here'
  PROVE  answers[page.q] # Empty
  <1>1. page \in Pages
    BY Typed
  <1>2. CASE QuestionLoaded
    <2>1. page.op = "next"
      BY <1>2 DEF QuestionLoaded, Returned
    <2> QED BY <2>1 DEF PageIInv, HandlersKeepDrafts
  <1>3. CASE ~QuestionLoaded
    <2>1. page'.box = page.box \/ Type
      <3>1. CASE page' = page
        BY <3>1
      <3>2. CASE Handle \/ Send \/ Finish \/ Begin
        <4>1. \E p \in {page, WithError, WithoutError, Showing(Answer.state)} : \E op : Await(p, op)
          <5>1. ~Await(Left(page, "outage"), "idle")
            BY <1>1 DEF Await, Left, Here, Pages
          <5> QED
            BY <1>3, <3>2, <5>1 DEF Handle, SignedIn, Loaded, Shown, Accepted, Retried, Failed, Send,
               Finish, Begin, StayPut
        <4>2. \A p \in {page, WithError, WithoutError, Showing(Answer.state)} :
                p.box = page.box /\ "box" \in DOMAIN p
          BY <1>1 DEF WithError, WithoutError, Showing, Pages
        <4> QED BY <4>1, <4>2 DEF Await
      <3>3. CASE Effect \/ KeepWaiting
        BY <1>1, <3>3 DEF Effect, KeepWaiting, Restart, Pages
      <3>4. CASE PollAgain \/ PollAborts \/ \E c \in {"poll", "old"} : Poll(c)
        <4>1. PICK c \in {"poll", "old"} :
                \/ page' = Health(c, page) \/ page' = Arrived(c, req[c].reply.state)
                \/ page' = [Health(c, page) EXCEPT !.health = "slow"]
          BY <3>4 DEF PollAgain, PollAborts, Poll, PollSettles, PollGivesUp
        <4>2. Health(c, page) \in Pages /\ Health(c, page).box = page.box
          BY <1>1, HealthType
        <4> QED BY <4>1, <4>2 DEF Arrived, Left, Here, Pages
      <3>5. CASE Calls \/ RefreshEnds \/ World
        BY <1>1, <3>5 DEF Calls, Serve, GetSession, Me, StartSession, NextQuestion, SubmitAnswer,
           FinishSession, Down, Unauthorized, RefreshEnds, RefreshWorks, RefreshDrops, RefreshDenied,
           Left, Here, World, Work, SecondTab, DeadlinePasses, AccessExpires, Pages
      <3>6. page' = page \/ Next
        BY DEF vars
      <3>7. CASE Candidate
        BY <3>2, <3>3, <3>7 DEF Candidate
      <3>8. CASE Watching
        BY <3>3, <3>4, <3>8 DEF Watching
      <3> QED BY <3>1, <3>2, <3>5, <3>6, <3>7, <3>8 DEF Next
    <2>2. ~Type
      <3>1. ASSUME Type PROVE page'.box # Empty
        <4>1. PICK text \in TextsFor(page.q) : page' = [[page EXCEPT !.box = text] EXCEPT !.op = "idle"]
          BY <3>1 DEF Type, Await
        <4>2. page.q \in Questions
          BY <1>1 DEF Pages
        <4> QED BY <1>1, <4>1, <4>2, TextTypes DEF Pages
      <3> QED BY <3>1
    <2> QED BY <2>1, <2>2
  <1> QED BY <1>2, <1>3

\* However requests are lost, refused, repeated or overtaken, by any number of questions
\* and faults: a waiting screen is watched or offers to wait on, what is stored for a
\* question was written for it, and "all answered" is only said when it is so
\* (page.tsx, lib/poll.ts, lib/api.ts).
THEOREM PageStaysTrue == Spec => []PageInv
  <1>1. PageIInv => PageInv
    BY DEF PageIInv, PageInv, SomeoneWatches, WaitIsWatched
  <1>2. PageIInv /\ [Next]_vars => PageIInv'
    BY Step
  <1> QED BY InitInv, <1>1, <1>2, PTL DEF Spec

\* Lost, refused or late, no call of a page that stays up takes away a text whose question
\* has no answer (loadQuestion, recoverFrom).
THEOREM DraftsKept == Spec => DraftsAreKept
  <1>1. PageIInv /\ [Next]_vars => PageIInv'
    BY Step
  <1>2. PageIInv /\ [Next]_vars
          => [page.q # NoQuestion /\ page.box # Empty /\ page'.box = Empty
                => answers[page.q] # Empty \/ ~Here']_vars
    BY OnlyTheNextEmpties
  <1> QED BY InitInv, <1>1, <1>2, PTL DEF Spec, DraftsAreKept

=============================================================================
