--------------------------- MODULE ProvidersProofs ---------------------------
(***************************************************************************)
(* Theorems about Providers, for any number of keys, models, prompts and   *)
(* attempts.                                                               *)
(***************************************************************************)
EXTENDS Providers, FiniteSetTheorems, TLAPS

-----------------------------------------------------------------------------
(* The inductive invariant *)

\* How far k lies behind where the pool looks next.
Behind(k) == (rr + NKeys - 1 - k) % NKeys

\* The keys the pool has gone past since it began with this model are unusable, but
\* for the one the request is out on: there are as many as were tried, or more.
PassedAreUnusable ==
  call.at \in {"key", "wire"} =>
    \A k \in Keys : Behind(k) < NKeys - call.tries =>
      k \in past.unusable \/ (call.at = "wire" /\ k = call.key)

\* A call under way.
InFlight ==
  /\ call.at # "settled" => call.prompt \in Prompts /\ call.row = None
  /\ call.at = "lookup" => ~call.hot
  /\ call.at \in {"lookup", "admit"} => call.sent = 0 /\ call.answered = None
  /\ call.at = "wire" => call.sent > 0
  /\ call.at \in {"key", "wire"} => opened = "no"

\* The breaker knows no more trouble than there was.
BreakerCounts ==
  /\ opened = "no" => failures < Threshold
  /\ failures <= past.trouble

StackInv ==
  /\ TypeOK /\ SamplesStayApart /\ OnlyOutagesOpen /\ BillIsHonest
  /\ LimitedMeansEveryKey /\ BusyIsRetryable
  /\ PassedAreUnusable /\ InFlight /\ BreakerCounts

-----------------------------------------------------------------------------
(* Types *)

LEMMA FirstKey == 0 \in Keys /\ 1 \in Models /\ NKeys \in 0 .. NKeys
  BY ProvidersAssumption DEF Keys, Models

LEMMA NoCallType == NoCall \in Calls /\ NoCall.at = "settled" /\ NoCall.result = "reset"
                      /\ NoCall.row = None
  BY FirstKey, ProvidersAssumption DEF NoCall, Calls, Results, Transient, Final

\* The row of a call that is not served by the cache, and of one that is.
LEMMA RowType ==
  ASSUME NEW c \in Calls, NEW r \in Results
  PROVE  LET w == RowOf(c, r, FALSE) IN
         /\ w \in Rows \cup {None}
         /\ w # None =>
              /\ w.charged = "nothing" => r = "open"
              /\ w.charged = "all" => r = "answer"
              /\ c.answered # None => w.model = c.answered
  <1> DEFINE named == IF c.answered = None THEN 1 ELSE c.answered
             row(s, ch) == [status |-> s, charged |-> ch, model |-> named]
             w == RowOf(c, r, FALSE)
  <1>1. named \in Models
    BY FirstKey DEF Calls
  <1>2. \/ r = "answer" /\ w = row("ok", "all")
        \/ r = "open" /\ w = row("circuit_open", "nothing")
        \/ w = None \/ w = row("error", "prompt")
    BY DEF RowOf
  <1>3. \A st \in {"ok", "circuit_open", "error"}, ch \in {"nothing", "prompt", "all"} :
          /\ row(st, ch) \in Rows /\ row(st, ch).charged = ch
          /\ c.answered # None => row(st, ch).model = c.answered
    BY <1>1 DEF Rows
  <1> HIDE DEF row, w
  <1>4. w \in Rows \cup {None}
    BY <1>2, <1>3
  <1>5. w # None =>
          /\ w.charged = "nothing" => r = "open"
          /\ w.charged = "all" => r = "answer"
          /\ c.answered # None => w.model = c.answered
    BY <1>2, <1>3
  <1> QED BY <1>4, <1>5 DEF w

LEMMA CachedRowType ==
  ASSUME NEW c \in Calls
  PROVE  RowOf(c, "answer", TRUE) \in Rows /\ RowOf(c, "answer", TRUE).charged = "nothing"
  <1> DEFINE named == IF c.answered = None THEN 1 ELSE c.answered
  <1>1. named \in Models
    BY FirstKey DEF Calls
  <1>2. RowOf(c, "answer", TRUE) = [status |-> "cached", charged |-> "nothing", model |-> named]
    BY DEF RowOf
  <1> HIDE DEF named
  <1> DEFINE w == [status |-> "cached", charged |-> "nothing", model |-> named]
  <1>3. w \in Rows /\ w.charged = "nothing"
    BY <1>1 DEF Rows
  <1>4. RowOf(c, "answer", TRUE) = w
    BY <1>2
  <1> HIDE DEF w
  <1> QED BY <1>3, <1>4

\* What a call that is over keeps of itself, whatever its row.
EndOf(c, r, a, w) ==
  [NoCall EXCEPT !.hot = c.hot, !.sent = c.sent, !.result = r, !.answer = a, !.row = w]

LEMMA Ended ==
  ASSUME NEW c \in Calls, NEW r \in Results, NEW a \in AnswerSet \cup {None},
         NEW w \in Rows \cup {None}
  PROVE  LET s == EndOf(c, r, a, w) IN
         /\ s \in Calls /\ s.at = "settled" /\ s.hot = c.hot /\ s.sent = c.sent
         /\ s.result = r /\ s.answer = a /\ s.row = w
  <1> DEFINE s1 == [NoCall EXCEPT !.hot = c.hot]
             s2 == [s1 EXCEPT !.sent = c.sent]
             s3 == [s2 EXCEPT !.result = r]
             s4 == [s3 EXCEPT !.answer = a]
             s5 == [s4 EXCEPT !.row = w]
  <1>1. s1 \in Calls /\ s1.at = "settled" /\ s1.hot = c.hot
    BY NoCallType DEF Calls
  <1>2. s2 \in Calls /\ s2.at = "settled" /\ s2.hot = c.hot /\ s2.sent = c.sent
    <2> HIDE DEF s1
    <2> QED BY <1>1 DEF Calls
  <1>3. s3 \in Calls /\ s3.at = "settled" /\ s3.hot = c.hot /\ s3.sent = c.sent /\ s3.result = r
    <2> HIDE DEF s2
    <2> QED BY <1>2 DEF Calls
  <1>4. s4 \in Calls /\ s4.at = "settled" /\ s4.hot = c.hot /\ s4.sent = c.sent /\ s4.result = r
        /\ s4.answer = a
    <2> HIDE DEF s3
    <2> QED BY <1>3 DEF Calls
  <1>5. s5 \in Calls /\ s5.at = "settled" /\ s5.hot = c.hot /\ s5.sent = c.sent /\ s5.result = r
        /\ s5.answer = a /\ s5.row = w
    <2> HIDE DEF s4
    <2> QED BY <1>4 DEF Calls
  <1>6. EndOf(c, r, a, w) = s5
    BY DEF EndOf
  <1> HIDE DEF s5
  <1> QED BY <1>5, <1>6

LEMMA SettledType ==
  ASSUME NEW c \in Calls, NEW r \in Results, NEW a \in AnswerSet \cup {None}
  PROVE  LET s == Settled(c, r, a, FALSE) IN
         /\ s \in Calls /\ s.at = "settled" /\ s.hot = c.hot /\ s.sent = c.sent
         /\ s.result = r /\ s.answer = a /\ s.row = RowOf(c, r, FALSE)
  <1> DEFINE w == RowOf(c, r, FALSE)
             s == Settled(c, r, a, FALSE)
  <1>1. w \in Rows \cup {None}
    BY RowType
  <1>2. s = EndOf(c, r, a, w)
    BY DEF Settled, EndOf
  <1> HIDE DEF w, s
  <1>3. /\ s \in Calls /\ s.at = "settled" /\ s.hot = c.hot /\ s.sent = c.sent
        /\ s.result = r /\ s.answer = a /\ s.row = w
    BY <1>1, <1>2, Ended
  <1> QED BY <1>3 DEF w, s

LEMMA OpeningType ==
  ASSUME NEW c \in Calls, NEW weary \in SUBSET Models
  PROVE  LET o == Opening(c, weary) IN
         /\ o \in Calls /\ o.at = "key" /\ o.tries = NKeys /\ o.left = Models
         /\ o.prompt = c.prompt /\ o.hot = c.hot /\ o.row = c.row /\ o.sent = c.sent
         /\ o.attempt = c.attempt /\ o.repaired = c.repaired
  BY FirstKey DEF Opening, Calls

\* A place behind the pool's is one of the pool.
LEMMA BehindType ==
  ASSUME NEW r \in Keys, NEW k \in Keys
  PROVE  (r + NKeys - 1 - k) % NKeys \in 0 .. NKeys - 1
  <1>1. r + NKeys - 1 - k \in Nat /\ NKeys \in Nat \ {0}
    BY ProvidersAssumption DEF Keys
  <1>2. \A n \in Nat : n % NKeys \in 0 .. NKeys - 1
    BY ProvidersAssumption
  <1> QED BY <1>1, <1>2

\* Of a model just begun with, no key was gone past.
LEMMA NothingPassed == ASSUME rr' \in Keys, call'.tries = NKeys PROVE PassedAreUnusable'
  <1>1. \A k \in Keys : Behind(k)' \in 0 .. NKeys - 1
    BY BehindType DEF Behind
  <1>2. NKeys - call'.tries = 0
    BY ProvidersAssumption
  <1>3. \A k \in Keys : ~(Behind(k)' < NKeys - call'.tries)
    BY <1>1, <1>2, ProvidersAssumption
  <1> QED BY <1>3 DEF PassedAreUnusable

LEMMA InitInv == Init => StackInv
  <1> SUFFICES ASSUME Init PROVE StackInv
    OBVIOUS
  <1>1. TypeOK
    BY FirstKey, NoCallType, ProvidersAssumption DEF Init, TypeOK, Histories
  <1>2. SamplesStayApart /\ OnlyOutagesOpen /\ BillIsHonest /\ LimitedMeansEveryKey /\ BusyIsRetryable
    BY NoCallType DEF Init, SamplesStayApart, OnlyOutagesOpen, BillIsHonest, FreeMeansUnsent,
       BillNamesTheWriter, LimitedMeansEveryKey, BusyIsRetryable, OutcomeOf, Transient
  <1>3. PassedAreUnusable /\ InFlight /\ BreakerCounts
    BY NoCallType, ProvidersAssumption DEF Init, PassedAreUnusable, InFlight, BreakerCounts
  <1> QED BY <1>1, <1>2, <1>3 DEF StackInv

-----------------------------------------------------------------------------
(* Ends *)

LEMMA ReturnsStep ==
  ASSUME StackInv, call.at \in {"key", "wire"},
         rr' \in Keys, benched' \in SUBSET Keys, tired' \in SUBSET Models,
         NEW c \in Calls, c.prompt \in Prompts, NEW r \in Results \ {"open"},
         NEW a \in AnswerSet \cup {None},
         r = "answer" => a \in AnswerSet /\ a.hot = c.hot /\ c.answered = a.by /\ c.sent > 0,
         NEW h \in Histories, h.trouble = past.trouble,
         r = "limited" => h.unusable = Keys, h.clean => r \notin Final,
         Returns(c, r, a, h)
  PROVE  StackInv'
  <1>1. /\ call' = Settled(c, r, a, FALSE) /\ failures' = Counts(r)
        /\ opened' = IF r \in Transient /\ Counts(r) >= Threshold THEN "waiting" ELSE opened
        /\ cache' = cache \/ (Stores(c, r) /\ cache' = [cache EXCEPT ![c.prompt] = a])
        /\ past' = [h EXCEPT !.unusable = IF r = "limited" THEN @ ELSE {},
                             !.trouble = IF r = "answer" THEN 0
                                         ELSE IF r \in Transient /\ @ < Threshold THEN @ + 1
                                         ELSE @]
    BY DEF Returns
  <1>2. /\ call' \in Calls /\ call'.at = "settled" /\ call'.hot = c.hot /\ call'.sent = c.sent
        /\ call'.result = r /\ call'.answer = a /\ call'.row = RowOf(c, r, FALSE)
    <2> DEFINE s == Settled(c, r, a, FALSE)
    <2>1. /\ s \in Calls /\ s.at = "settled" /\ s.hot = c.hot /\ s.sent = c.sent
          /\ s.result = r /\ s.answer = a /\ s.row = RowOf(c, r, FALSE)
      BY SettledType, ZenonT(60)
    <2>2. call' = s
      BY <1>1
    <2> HIDE DEF s
    <2> QED BY <2>1, <2>2
  <1>3. /\ opened = "no" /\ failures < Threshold /\ failures \in Nat /\ failures <= past.trouble
        /\ past.trouble \in 0 .. Threshold /\ Threshold \in Nat \ {0}
    BY ProvidersAssumption DEF StackInv, InFlight, BreakerCounts, TypeOK, Histories
  <1>4. /\ past' \in Histories /\ past'.clean = h.clean
        /\ r = "limited" => past'.unusable = h.unusable
        /\ past'.trouble = IF r = "answer" THEN 0
                           ELSE IF r \in Transient /\ h.trouble < Threshold THEN h.trouble + 1
                           ELSE h.trouble
    <2> DEFINE u == IF r = "limited" THEN h.unusable ELSE {}
               t == IF r = "answer" THEN 0
                    ELSE IF r \in Transient /\ h.trouble < Threshold THEN h.trouble + 1
                    ELSE h.trouble
    <2>1. past' = [h EXCEPT !.unusable = u, !.trouble = t]
      BY <1>1 DEF Histories
    <2>2. u \in SUBSET Keys
      BY DEF Histories
    <2>3. t \in 0 .. Threshold
      BY <1>3
    <2> HIDE DEF u, t
    <2>4. past' \in Histories /\ past'.clean = h.clean /\ past'.unusable = u /\ past'.trouble = t
      BY <2>1, <2>2, <2>3 DEF Histories
    <2> QED BY <2>4 DEF u, t
  <1>5. /\ failures' \in 0 .. Threshold /\ failures' <= past'.trouble
        /\ opened' # "no" => past'.trouble = Threshold
        /\ opened' = "no" => failures' < Threshold
        /\ opened' \in {"no", "waiting"}
    <2>1. CASE r = "answer"
      BY <1>1, <1>3, <1>4, <2>1 DEF Counts, Transient
    <2>2. CASE r \in Transient
      BY <1>1, <1>3, <1>4, <2>2 DEF Counts, Transient
    <2>3. CASE r \notin Transient \cup {"answer"}
      BY <1>1, <1>3, <1>4, <2>3 DEF Counts
    <2> QED BY <2>1, <2>2, <2>3
  <1>6. /\ cache' \in [Prompts -> AnswerSet \cup {None}]
        /\ \A p \in Prompts : cache'[p] # None => ~cache'[p].hot
    <2>1. cache \in [Prompts -> AnswerSet \cup {None}] /\ \A p \in Prompts : cache[p] # None => ~cache[p].hot
      BY DEF StackInv, TypeOK, SamplesStayApart
    <2>2. CASE cache' = cache
      BY <2>1, <2>2
    <2>3. CASE Stores(c, r) /\ cache' = [cache EXCEPT ![c.prompt] = a]
      <3>1. ~a.hot
        BY <2>3 DEF Stores, Cacheable
      <3> QED BY <2>1, <2>3, <3>1
    <2> QED BY <1>1, <2>2, <2>3
  <1>7. TypeOK'
    BY <1>2, <1>4, <1>5, <1>6 DEF TypeOK
  <1>8. SamplesStayApart' /\ OnlyOutagesOpen'
    BY <1>2, <1>5, <1>6 DEF SamplesStayApart, OnlyOutagesOpen
  <1>9. BillIsHonest'
    <2>1. call'.row # None => call'.row.charged # "nothing"
      BY <1>2, RowType
    <2>2. call'.row # None /\ call'.row.charged = "all" => call'.row.model = call'.answer.by
      <3>1. ASSUME call'.row # None, call'.row.charged = "all" PROVE call'.row.model = call'.answer.by
        <4>1. r = "answer"
          BY <1>2, <3>1, RowType
        <4>2. c.answered # None
          BY <4>1, ProvidersAssumption DEF AnswerSet
        <4> QED BY <1>2, <3>1, <4>1, <4>2, RowType
      <3> QED BY <3>1
    <2> QED BY <2>1, <2>2 DEF BillIsHonest, FreeMeansUnsent, BillNamesTheWriter
  <1>10. LimitedMeansEveryKey' /\ BusyIsRetryable'
    BY <1>2, <1>4 DEF LimitedMeansEveryKey, BusyIsRetryable, OutcomeOf, Results, Transient, Final
  <1>11. PassedAreUnusable' /\ InFlight' /\ BreakerCounts'
    BY <1>2, <1>5 DEF PassedAreUnusable, InFlight, BreakerCounts
  <1> QED BY <1>7, <1>8, <1>9, <1>10, <1>11 DEF StackInv

\* The chain of models begins, or goes on with the next one: every key may be tried.
LEMMA GoesOnStep ==
  ASSUME StackInv, call.at \in {"key", "wire"},
         rr' \in Keys, benched' \in SUBSET Keys, tired' \in SUBSET Models,
         call' \in Calls, call'.at = "key", call'.prompt \in Prompts, call'.row = None,
         call'.tries = NKeys,
         past' \in Histories, past'.trouble = past.trouble,
         UNCHANGED <<failures, opened, cache>>
  PROVE  StackInv'
  <1>1. TypeOK'
    BY DEF StackInv, TypeOK
  <1>2. SamplesStayApart' /\ OnlyOutagesOpen' /\ BillIsHonest' /\ LimitedMeansEveryKey' /\ BusyIsRetryable'
    BY DEF StackInv, SamplesStayApart, OnlyOutagesOpen, BillIsHonest, FreeMeansUnsent,
       BillNamesTheWriter, LimitedMeansEveryKey, BusyIsRetryable
  <1>3. InFlight' /\ BreakerCounts'
    BY DEF StackInv, InFlight, BreakerCounts
  <1>4. PassedAreUnusable'
    BY NothingPassed
  <1> QED BY <1>1, <1>2, <1>3, <1>4 DEF StackInv

LEMMA AttemptedStep ==
  ASSUME StackInv, call.at \in {"key", "wire"},
         rr' \in Keys, benched' \in SUBSET Keys, tired' \in SUBSET Models,
         NEW c \in Calls, c.prompt \in Prompts, c.row = None,
         NEW r \in Results \ {"open", "answer"},
         NEW h \in Histories, h.trouble = past.trouble,
         r = "limited" => h.unusable = Keys, h.clean => r \notin Final,
         Attempted(c, r, h)
  PROVE  StackInv'
  <1>1. CASE r = "flaky" /\ c.attempt < MaxAttempts
    <2> DEFINE d == [c EXCEPT !.attempt = @ + 1, !.repaired = FALSE]
    <2>1. d \in Calls /\ d.prompt = c.prompt /\ d.row = c.row
      <3>1. c.attempt + 1 \in 0 .. MaxAttempts
        BY <1>1, ProvidersAssumption DEF Calls
      <3> DEFINE n == c.attempt + 1
                 d1 == [c EXCEPT !.attempt = n]
      <3> HIDE DEF n
      <3>2. d1 \in Calls /\ d1.prompt = c.prompt /\ d1.row = c.row
        BY <3>1 DEF Calls, n
      <3>3. d = [d1 EXCEPT !.repaired = FALSE]
        BY DEF n
      <3> HIDE DEF d1
      <3> QED BY <3>2, <3>3, ZenonT(60) DEF Calls
    <2>2. /\ call' = Opening(d, tired) /\ past' = [h EXCEPT !.unusable = {}]
          /\ UNCHANGED <<failures, opened, cache>>
      BY <1>1 DEF Attempted
    <2> HIDE DEF d
    <2>3. tired \in SUBSET Models
      BY DEF StackInv, TypeOK
    <2>4. past' \in Histories /\ past'.trouble = past.trouble
      BY <2>2 DEF Histories
    <2> QED BY <2>1, <2>2, <2>3, <2>4, OpeningType, GoesOnStep
  <1>2. CASE ~(r = "flaky" /\ c.attempt < MaxAttempts)
    BY <1>2, ReturnsStep DEF Attempted
  <1> QED BY <1>1, <1>2

-----------------------------------------------------------------------------
(* The pool: positions without the modulus *)

LEMMA Modulus ==
  ASSUME NEW n \in Nat \ {0}, NEW a \in 0 .. n - 1
  PROVE  a % n = a /\ (a + n) % n = a
  OBVIOUS

\* How far a key lies ahead of where the pool looks, and how far behind.
LEMMA PoolPositions ==
  ASSUME NEW r \in Keys, NEW k \in Keys
  PROVE  /\ (k + NKeys - r) % NKeys = IF r <= k THEN k - r ELSE k + NKeys - r
         /\ (r + NKeys - 1 - k) % NKeys = IF k < r THEN r - 1 - k ELSE r + NKeys - 1 - k
         /\ (k + 1) % NKeys = IF k = NKeys - 1 THEN 0 ELSE k + 1
  <1>1. NKeys \in Nat \ {0} /\ r \in 0 .. NKeys - 1 /\ k \in 0 .. NKeys - 1
    BY ProvidersAssumption DEF Keys
  <1>2. (k + NKeys - r) % NKeys = IF r <= k THEN k - r ELSE k + NKeys - r
    <2>1. CASE r <= k
      <3> DEFINE a == k - r
      <3>1. a \in 0 .. NKeys - 1 /\ k + NKeys - r = a + NKeys
        BY <1>1, <2>1
      <3> HIDE DEF a
      <3>2. (a + NKeys) % NKeys = a
        BY <1>1, <3>1, Modulus
      <3> QED BY <2>1, <3>1, <3>2 DEF a
    <2>2. CASE ~(r <= k)
      <3> DEFINE a == k + NKeys - r
      <3>1. a \in 0 .. NKeys - 1
        BY <1>1, <2>2
      <3> HIDE DEF a
      <3>2. a % NKeys = a
        BY <1>1, <3>1, Modulus
      <3> QED BY <2>2, <3>2 DEF a
    <2> QED BY <2>1, <2>2
  <1>3. (r + NKeys - 1 - k) % NKeys = IF k < r THEN r - 1 - k ELSE r + NKeys - 1 - k
    <2>1. CASE k < r
      <3> DEFINE a == r - 1 - k
      <3>1. a \in 0 .. NKeys - 1 /\ r + NKeys - 1 - k = a + NKeys
        BY <1>1, <2>1
      <3> HIDE DEF a
      <3>2. (a + NKeys) % NKeys = a
        BY <1>1, <3>1, Modulus
      <3> QED BY <2>1, <3>1, <3>2 DEF a
    <2>2. CASE ~(k < r)
      <3> DEFINE a == r + NKeys - 1 - k
      <3>1. a \in 0 .. NKeys - 1
        BY <1>1, <2>2
      <3> HIDE DEF a
      <3>2. a % NKeys = a
        BY <1>1, <3>1, Modulus
      <3> QED BY <2>2, <3>2 DEF a
    <2> QED BY <2>1, <2>2
  <1>4. (k + 1) % NKeys = IF k = NKeys - 1 THEN 0 ELSE k + 1
    <2>1. CASE k = NKeys - 1
      <3>1. k + 1 = 0 + NKeys
        BY <1>1, <2>1
      <3>2. (0 + NKeys) % NKeys = 0
        BY <1>1, Modulus
      <3> QED BY <2>1, <3>1, <3>2
    <2>2. CASE k # NKeys - 1
      <3>1. k + 1 \in 0 .. NKeys - 1
        BY <1>1, <2>2
      <3> QED BY <1>1, <2>2, <3>1, Modulus
    <2> QED BY <2>1, <2>2
  <1> QED BY <1>2, <1>3, <1>4

\* Once the pool has handed out k, a key is behind it further than before by what
\* it went past, and the keys it went past were nearer than k.
LEMMA GoneFurther ==
  ASSUME NEW r \in Keys, NEW k \in Keys, NEW j \in Keys, j # k,
         NEW s \in Keys, s = (k + 1) % NKeys
  PROVE  \/ (j + NKeys - r) % NKeys < (k + NKeys - r) % NKeys
         \/ (r + NKeys - 1 - j) % NKeys < (s + NKeys - 1 - j) % NKeys
  <1> DEFINE ahead(i)     == IF r <= i THEN i - r ELSE i + NKeys - r
             behind(q, i) == IF i < q THEN q - 1 - i ELSE q + NKeys - 1 - i
  <1>1. /\ (j + NKeys - r) % NKeys = ahead(j) /\ (k + NKeys - r) % NKeys = ahead(k)
        /\ (r + NKeys - 1 - j) % NKeys = behind(r, j)
        /\ (s + NKeys - 1 - j) % NKeys = behind(s, j)
        /\ s = IF k = NKeys - 1 THEN 0 ELSE k + 1
    BY PoolPositions
  <1>2. NKeys \in Nat \ {0} /\ r \in 0 .. NKeys - 1 /\ k \in 0 .. NKeys - 1 /\ j \in 0 .. NKeys - 1
    BY ProvidersAssumption DEF Keys
  <1>3. ahead(j) < ahead(k) \/ behind(r, j) < behind(s, j)
    BY <1>1, <1>2
  <1> QED BY <1>1, <1>3

-----------------------------------------------------------------------------
(* One lemma per step *)

\* While a call is under way nothing is said of how it ended.
LEMMA Undecided ==
  ASSUME StackInv, call'.at # "settled", call'.row = None, UNCHANGED cache,
         OnlyOutagesOpen'
  PROVE  SamplesStayApart' /\ BillIsHonest' /\ LimitedMeansEveryKey' /\ BusyIsRetryable'
  BY DEF StackInv, SamplesStayApart, BillIsHonest, FreeMeansUnsent, BillNamesTheWriter,
     LimitedMeansEveryKey, BusyIsRetryable

LEMMA AskStep ==
  ASSUME StackInv, NEW p \in Prompts, NEW hot \in BOOLEAN, Ask(p, hot)
  PROVE  StackInv'
  <1> DEFINE at == IF Cacheable(hot) THEN "lookup" ELSE "admit"
             c1 == [NoCall EXCEPT !.at = at]
             c2 == [c1 EXCEPT !.prompt = p]
  <1>1. call' = [c2 EXCEPT !.hot = hot]
    BY DEF Ask
  <1>2. /\ at \in {"lookup", "admit"}
        /\ at = "lookup" => ~hot
    BY DEF Cacheable
  <1>3. NoCall.sent = 0 /\ NoCall.answered = None
    BY DEF NoCall
  <1>4. c1 \in Calls /\ c1.at = at /\ c1.sent = 0 /\ c1.answered = None /\ c1.row = None
    <2> HIDE DEF at
    <2> QED BY <1>2, <1>3, NoCallType DEF Calls
  <1>5. c2 \in Calls /\ c2.at = at /\ c2.sent = 0 /\ c2.answered = None /\ c2.row = None /\ c2.prompt = p
    <2> HIDE DEF at, c1
    <2> QED BY <1>4 DEF Calls
  <1>6. /\ call' \in Calls /\ call'.at = at /\ call'.sent = 0 /\ call'.answered = None
        /\ call'.row = None /\ call'.prompt = p /\ call'.hot = hot
    <2> HIDE DEF at, c2
    <2> QED BY <1>1, <1>5 DEF Calls
  <1> HIDE DEF at, c1, c2
  <1>7. /\ past' \in Histories /\ past'.trouble = past.trouble
        /\ UNCHANGED <<rr, benched, tired, failures, opened, cache>>
    BY DEF Ask, StackInv, TypeOK, Histories
  <1>8. TypeOK' /\ OnlyOutagesOpen' /\ BreakerCounts'
    BY <1>6, <1>7 DEF StackInv, TypeOK, OnlyOutagesOpen, BreakerCounts
  <1>9. PassedAreUnusable' /\ InFlight'
    BY <1>2, <1>6 DEF PassedAreUnusable, InFlight
  <1> QED BY <1>2, <1>6, <1>7, <1>8, <1>9, Undecided DEF StackInv

LEMMA HitStep == ASSUME StackInv, Hit PROVE StackInv'
  <1> DEFINE w == RowOf(call, "answer", TRUE)
             a == cache[call.prompt]
             s == EndOf(call, "answer", a, w)
  <1>1. call' = s /\ UNCHANGED <<rr, benched, tired, failures, opened, cache, past>>
    BY DEF Hit, Settled, EndOf
  <1>2. call \in Calls /\ call.prompt \in Prompts /\ call.sent = 0 /\ ~call.hot
    BY DEF Hit, StackInv, TypeOK, InFlight
  <1>3. a \in AnswerSet \cup {None} /\ ~a.hot
    BY <1>2 DEF Hit, StackInv, TypeOK, SamplesStayApart
  <1>4. w \in Rows /\ w.charged = "nothing"
    BY <1>2, CachedRowType
  <1> HIDE DEF a, w
  <1>5. "answer" \in Results
    BY DEF Results
  <1>6. /\ s \in Calls /\ s.at = "settled" /\ s.hot = call.hot /\ s.sent = call.sent
        /\ s.result = "answer" /\ s.answer = a /\ s.row = w
    BY <1>2, <1>3, <1>4, <1>5, Ended
  <1> HIDE DEF s
  <1>7. TypeOK' /\ OnlyOutagesOpen' /\ BreakerCounts' /\ PassedAreUnusable' /\ InFlight'
    BY <1>1, <1>6 DEF StackInv, TypeOK, OnlyOutagesOpen, BreakerCounts, PassedAreUnusable, InFlight
  <1>8. call'.answer.hot = call'.hot /\ ~call'.hot
    <2>1. call.hot \in BOOLEAN /\ a \in AnswerSet
      BY <1>2, <1>3 DEF Calls, Hit, a
    <2>2. a.hot \in BOOLEAN
      BY <2>1 DEF AnswerSet
    <2> QED BY <1>1, <1>2, <1>3, <1>6, <2>1, <2>2
  <1>9. SamplesStayApart'
    BY <1>1, <1>8 DEF StackInv, SamplesStayApart
  <1>10. BillIsHonest' /\ LimitedMeansEveryKey' /\ BusyIsRetryable'
    BY <1>1, <1>2, <1>4, <1>6 DEF BillIsHonest, FreeMeansUnsent, BillNamesTheWriter,
       LimitedMeansEveryKey, BusyIsRetryable, OutcomeOf
  <1> QED BY <1>7, <1>9, <1>10 DEF StackInv

LEMMA MissStep == ASSUME StackInv, Miss PROVE StackInv'
  <1>1. /\ call' \in Calls /\ call'.at = "admit" /\ call'.row = None /\ call'.prompt \in Prompts
        /\ call'.sent = 0 /\ call'.answered = None
        /\ UNCHANGED <<rr, benched, tired, failures, opened, cache, past>>
    BY DEF Miss, StackInv, TypeOK, InFlight, Calls
  <1>2. /\ TypeOK' /\ OnlyOutagesOpen' /\ BreakerCounts' /\ PassedAreUnusable' /\ InFlight'
    BY <1>1 DEF StackInv, TypeOK, OnlyOutagesOpen, BreakerCounts, PassedAreUnusable, InFlight
  <1> QED BY <1>1, <1>2, Undecided DEF StackInv

LEMMA AdmitStep == ASSUME StackInv, Admit PROVE StackInv'
  <1>1. /\ call \in Calls /\ tired \in SUBSET Models /\ call.prompt \in Prompts /\ call.row = None
        /\ call' = Opening(call, tired)
    BY DEF Admit, StackInv, TypeOK, InFlight
  <1>2. /\ call' \in Calls /\ call'.at = "key" /\ call'.tries = NKeys
        /\ call'.prompt \in Prompts /\ call'.row = None
    BY <1>1, OpeningType
  <1>3. /\ opened' = "no" /\ UNCHANGED <<rr, benched, tired, cache, past>>
        /\ failures' = IF opened = "elapsed" THEN 0 ELSE failures
        /\ opened = "no" \/ opened = "elapsed"
    BY DEF Admit, StackInv, TypeOK
  <1>4. /\ failures' \in 0 .. Threshold /\ failures' < Threshold /\ failures' <= past.trouble
    BY <1>3, ProvidersAssumption DEF StackInv, TypeOK, BreakerCounts, Histories
  <1>5. TypeOK' /\ OnlyOutagesOpen' /\ BreakerCounts' /\ InFlight'
    BY <1>2, <1>3, <1>4 DEF StackInv, TypeOK, OnlyOutagesOpen, BreakerCounts, InFlight
  <1>6. PassedAreUnusable'
    BY <1>2, <1>3, NothingPassed DEF StackInv, TypeOK
  <1> QED BY <1>2, <1>3, <1>5, <1>6, Undecided DEF StackInv

LEMMA FailFastStep == ASSUME StackInv, FailFast PROVE StackInv'
  <1> DEFINE s == Settled(call, "open", None, FALSE)
  <1>1. call' = s /\ UNCHANGED <<rr, benched, tired, failures, opened, cache, past>>
    BY DEF FailFast
  <1>2. call \in Calls /\ call.sent = 0 /\ "open" \in Results
    BY DEF FailFast, StackInv, TypeOK, InFlight, Results
  <1>3. /\ s \in Calls /\ s.at = "settled" /\ s.sent = call.sent /\ s.result = "open"
        /\ s.row = RowOf(call, "open", FALSE)
    <2>1. ASSUME NEW c \in Calls, NEW r \in Results, NEW a \in AnswerSet \cup {None},
                 NEW e, e = Settled(c, r, a, FALSE)
          PROVE  /\ e \in Calls /\ e.at = "settled" /\ e.sent = c.sent /\ e.result = r
                 /\ e.row = RowOf(c, r, FALSE)
      BY <2>1, SettledType, ZenonT(60)
    <2> QED BY <1>2, <2>1
  <1> HIDE DEF s
  <1>4. TypeOK' /\ OnlyOutagesOpen' /\ BreakerCounts' /\ PassedAreUnusable' /\ InFlight' /\ SamplesStayApart'
    BY <1>1, <1>3 DEF StackInv, TypeOK, OnlyOutagesOpen, BreakerCounts, PassedAreUnusable, InFlight,
       SamplesStayApart
  <1>5. call'.row # None => call'.row.charged # "all"
    BY <1>1, <1>2, <1>3, RowType
  <1>6. BillIsHonest' /\ LimitedMeansEveryKey' /\ BusyIsRetryable'
    BY <1>1, <1>2, <1>3, <1>5 DEF BillIsHonest, FreeMeansUnsent, BillNamesTheWriter,
       LimitedMeansEveryKey, BusyIsRetryable, OutcomeOf
  <1> QED BY <1>4, <1>6 DEF StackInv

LEMMA AcquireStep == ASSUME StackInv, NEW k \in Keys, Acquire(k) PROVE StackInv'
  <1>1. /\ call \in Calls /\ call.at = "key" /\ call.prompt \in Prompts /\ call.row = None
        /\ call.tries \in Nat /\ call.tries > 0 /\ call.sent \in Nat /\ opened = "no"
        /\ rr \in Keys /\ past \in Histories /\ call.tries \in 0 .. NKeys
    BY DEF Acquire, StackInv, TypeOK, InFlight, Calls
  <1> DEFINE t == call.tries - 1
             n == call.sent + 1
             u == past.unusable \cup benched
  <1>2. t \in 0 .. NKeys /\ n \in Nat /\ n > 0 /\ u \in SUBSET Keys
    BY <1>1, ProvidersAssumption DEF StackInv, TypeOK, Histories
  <1>3. /\ call' = [call EXCEPT !.at = "wire", !.key = k, !.tries = t, !.sent = n]
        /\ past' = [past EXCEPT !.unusable = u]
        /\ rr' = (k + 1) % NKeys
        /\ UNCHANGED <<benched, tired, failures, opened, cache>>
    BY DEF Acquire, After
  <1>4. rr' \in Keys
    <2>1. rr' = IF k = NKeys - 1 THEN 0 ELSE k + 1
      BY <1>3, PoolPositions
    <2> QED BY <2>1, ProvidersAssumption DEF Keys
  <1>5. \A j \in Keys : j \notin benched => (k + NKeys - rr) % NKeys <= (j + NKeys - rr) % NKeys
    BY DEF Acquire, Usable, Distance
  <1>6. \A j \in Keys : Behind(j) < NKeys - call.tries => j \in past.unusable
    BY <1>1 DEF StackInv, PassedAreUnusable
  <1>7. NKeys - t = NKeys - call.tries + 1
    BY <1>1, ProvidersAssumption
  <1> HIDE DEF t, n, u
  <1>8. /\ call' \in Calls /\ call'.at = "wire" /\ call'.key = k /\ call'.tries = t /\ call'.sent = n
        /\ call'.prompt = call.prompt /\ call'.row = None
    <2> DEFINE c1 == [call EXCEPT !.at = "wire", !.key = k]
    <2>1. /\ c1 \in Calls /\ c1.at = "wire" /\ c1.key = k /\ c1.prompt = call.prompt /\ c1.row = None
      BY <1>1 DEF Calls
    <2>2. call' = [c1 EXCEPT !.tries = t, !.sent = n]
      BY <1>3
    <2> HIDE DEF c1
    <2> QED BY <1>2, <2>1, <2>2, ZenonT(60) DEF Calls
  <1>9. past' \in Histories /\ past'.trouble = past.trouble /\ past'.unusable = u
    BY <1>1, <1>2, <1>3 DEF Histories
  <1>10. TypeOK' /\ OnlyOutagesOpen' /\ BreakerCounts' /\ InFlight'
    BY <1>1, <1>2, <1>3, <1>4, <1>8, <1>9 DEF StackInv, TypeOK, OnlyOutagesOpen, BreakerCounts, InFlight
  <1>11. \A j \in Keys : Behind(j)' < NKeys - t => j \in u \/ j = k
    <2> SUFFICES ASSUME NEW j \in Keys, Behind(j)' < NKeys - t, j # k PROVE j \in u
      OBVIOUS
    <2>1. \/ (j + NKeys - rr) % NKeys < (k + NKeys - rr) % NKeys
          \/ (rr + NKeys - 1 - j) % NKeys < (rr' + NKeys - 1 - j) % NKeys
      BY <1>1, <1>3, <1>4, GoneFurther
    <2>2. CASE (j + NKeys - rr) % NKeys < (k + NKeys - rr) % NKeys
      <3> DEFINE x == (j + NKeys - rr) % NKeys
                 y == (k + NKeys - rr) % NKeys
      <3>1. x \in Int /\ y \in Int
        BY <1>1, PoolPositions, ProvidersAssumption DEF Keys
      <3>2. x < y /\ (j \notin benched => y <= x)
        BY <1>5, <2>2
      <3> HIDE DEF x, y
      <3>3. j \in benched
        BY <3>1, <3>2
      <3> QED BY <3>3 DEF u
    <2>3. CASE (rr + NKeys - 1 - j) % NKeys < (rr' + NKeys - 1 - j) % NKeys
      <3> DEFINE x == (rr + NKeys - 1 - j) % NKeys
                 y == (rr' + NKeys - 1 - j) % NKeys
      <3>1. x \in 0 .. NKeys - 1 /\ y \in 0 .. NKeys - 1
        BY <1>1, <1>4, BehindType
      <3>2. Behind(j) = x /\ Behind(j)' = y
        BY DEF Behind
      <3>3. x < y /\ y < NKeys - call.tries + 1
        BY <1>7, <2>3, <3>2
      <3> HIDE DEF x, y
      <3>4. x < NKeys - call.tries
        BY <1>1, <3>1, <3>3, ProvidersAssumption
      <3> QED BY <1>6, <3>2, <3>4 DEF u
    <2> QED BY <2>1, <2>2, <2>3
  <1>12. PassedAreUnusable'
    BY <1>8, <1>9, <1>11 DEF PassedAreUnusable
  <1> QED BY <1>3, <1>8, <1>10, <1>12, Undecided DEF StackInv

LEMMA ExhaustedStep == ASSUME StackInv, Exhausted PROVE StackInv'
  <1> DEFINE u == past.unusable \cup benched
             h == [past EXCEPT !.unusable = u]
  <1>1. /\ call \in Calls /\ call.at = "key" /\ call.prompt \in Prompts /\ call.row = None
        /\ past \in Histories /\ rr \in Keys /\ benched \in SUBSET Keys /\ tired \in SUBSET Models
        /\ UNCHANGED <<rr, benched, tired>>
    BY DEF Exhausted, StackInv, TypeOK, InFlight
  <1>2. Attempted(call, "limited", h)
    BY DEF Exhausted
  <1>3. u = Keys
    <2>1. CASE call.tries = 0
      <3>1. \A k \in Keys : Behind(k) < NKeys - call.tries
        <4>1. \A k \in Keys : Behind(k) \in 0 .. NKeys - 1
          BY <1>1, BehindType DEF Behind
        <4> QED BY <2>1, <4>1, ProvidersAssumption
      <3>2. \A k \in Keys : k \in past.unusable
        BY <1>1, <3>1 DEF StackInv, PassedAreUnusable
      <3> QED BY <1>1, <3>2 DEF Histories
    <2>2. CASE ~\E k \in Keys : Usable(k)
      BY <1>1, <2>2 DEF Usable, Histories
    <2> QED BY <2>1, <2>2 DEF Exhausted, OutOfKeys
  <1> HIDE DEF u
  <1>4. h \in Histories /\ h.trouble = past.trouble /\ h.unusable = Keys
    BY <1>1, <1>3 DEF Histories
  <1> HIDE DEF h
  <1>5. "limited" \in Results \ {"open", "answer"} /\ "limited" \notin Final
    BY DEF Results, Transient, Final
  <1> QED BY <1>1, <1>2, <1>4, <1>5, AttemptedStep

LEMMA LimitedStep == ASSUME StackInv, Limited PROVE StackInv'
  <1>1. /\ call \in Calls /\ call.at = "wire" /\ call.prompt \in Prompts /\ call.row = None
        /\ past \in Histories /\ benched \in SUBSET Keys /\ opened = "no"
        /\ call.key \in Keys
    BY DEF Limited, StackInv, TypeOK, InFlight, Calls
  <1>2. /\ call' \in Calls /\ call'.at = "key" /\ call'.tries = call.tries
        /\ call'.prompt = call.prompt /\ call'.row = None
    BY <1>1 DEF Limited, Calls
  <1> DEFINE u == past.unusable \cup {call.key}
  <1>3. past' = [past EXCEPT !.unusable = u] /\ u \in SUBSET Keys
    BY <1>1 DEF Limited, Histories
  <1> HIDE DEF u
  <1>4. past' \in Histories /\ past'.trouble = past.trouble /\ past'.unusable = u
    BY <1>1, <1>3 DEF Histories
  <1>5. benched' \in SUBSET Keys /\ UNCHANGED <<rr, tired, failures, opened, cache>>
    BY <1>1 DEF Limited
  <1>6. TypeOK' /\ OnlyOutagesOpen' /\ BreakerCounts' /\ InFlight'
    BY <1>1, <1>2, <1>4, <1>5 DEF StackInv, TypeOK, OnlyOutagesOpen, BreakerCounts, InFlight
  <1>7. PassedAreUnusable'
    <2>1. \A k \in Keys : Behind(k)' = Behind(k)
      BY <1>5 DEF Behind
    <2>2. \A k \in Keys : Behind(k) < NKeys - call.tries => k \in u
      BY <1>1 DEF StackInv, PassedAreUnusable, u
    <2> QED BY <1>2, <1>4, <2>1, <2>2 DEF PassedAreUnusable
  <1> QED BY <1>2, <1>5, <1>6, <1>7, Undecided DEF StackInv

LEMMA NextModelStep ==
  ASSUME StackInv, NEW m \in Models, NEW r \in Replies, NextModel(m, r)
  PROVE  StackInv'
  <1> DEFINE b == past.clean /\ r = "overloaded"
             h == [past EXCEPT !.clean = b]
  <1>1. /\ call \in Calls /\ call.at = "wire" /\ call.prompt \in Prompts /\ call.row = None
        /\ past \in Histories /\ rr \in Keys /\ benched \in SUBSET Keys /\ tired \in SUBSET Models
        /\ UNCHANGED <<rr, benched>> /\ r \in {"overloaded", "missing"}
    BY DEF NextModel, StackInv, TypeOK, InFlight
  <1>2. tired' \in SUBSET Models
    BY <1>1 DEF NextModel
  <1>3. IF call.left = {m} THEN Attempted(call, r, h)
        ELSE /\ call' = [call EXCEPT !.at = "key", !.left = @ \ {m}, !.weary = @ \ {m},
                                     !.tries = NKeys]
             /\ past' = [h EXCEPT !.unusable = {}]
             /\ UNCHANGED <<failures, opened, cache>>
    BY DEF NextModel
  <1>4. h \in Histories /\ h.trouble = past.trouble /\ h.clean = b
    <2>1. b \in BOOLEAN
      OBVIOUS
    <2> HIDE DEF b
    <2> QED BY <1>1, <2>1 DEF Histories
  <1>5. CASE call.left = {m}
    <2>1. Attempted(call, r, h)
      BY <1>3, <1>5
    <2>2. h.clean => r \notin Final
      BY <1>1, <1>4 DEF Final
    <2>3. r \in Results \ {"open", "answer"} /\ r # "limited"
      BY <1>1 DEF Results, Transient, Final
    <2> HIDE DEF h
    <2> QED BY <1>1, <1>2, <1>4, <2>1, <2>2, <2>3, AttemptedStep
  <1>6. CASE call.left # {m}
    <2> DEFINE left == call.left \ {m}
               weary == call.weary \ {m}
               c1 == [call EXCEPT !.at = "key", !.left = left]
    <2>1. left \in SUBSET Models /\ weary \in SUBSET Models
      BY <1>1 DEF Calls
    <2>2. call' = [c1 EXCEPT !.weary = weary, !.tries = NKeys]
      BY <1>3, <1>6
    <2>3. past' = [h EXCEPT !.unusable = {}] /\ UNCHANGED <<failures, opened, cache>>
      BY <1>3, <1>6
    <2> HIDE DEF h, left, weary
    <2>4. c1 \in Calls /\ c1.at = "key" /\ c1.prompt = call.prompt /\ c1.row = None
      BY <1>1, <2>1 DEF Calls
    <2> HIDE DEF c1
    <2>5. /\ call' \in Calls /\ call'.at = "key" /\ call'.prompt = call.prompt /\ call'.row = None
          /\ call'.tries = NKeys
      BY <2>1, <2>2, <2>4, FirstKey DEF Calls
    <2>6. past' \in Histories /\ past'.trouble = past.trouble
      BY <1>4, <2>3 DEF Histories
    <2> QED BY <1>1, <1>2, <2>3, <2>5, <2>6, GoesOnStep
  <1> QED BY <1>5, <1>6

LEMMA AnswersStep ==
  ASSUME StackInv, NEW m \in Models, NEW r \in Replies, Answers(m, r)
  PROVE  StackInv'
  <1> DEFINE c == [call EXCEPT !.answered = m]
             h == [past EXCEPT !.clean = FALSE, !.unusable = {}]
             a == [by |-> m, hot |-> c.hot]
  <1>1. /\ call \in Calls /\ call.at = "wire" /\ call.prompt \in Prompts /\ call.row = None
        /\ call.sent > 0
        /\ past \in Histories /\ rr \in Keys /\ benched \in SUBSET Keys /\ tired \in SUBSET Models
        /\ UNCHANGED <<rr, benched>> /\ tired' = tired \ {m} /\ r \in {"answer", "garbage"}
    BY DEF Answers, StackInv, TypeOK, InFlight
  <1>2. /\ r = "answer" => Returns(c, r, a, h)
        /\ r # "answer" /\ ~c.repaired =>
             /\ call' = Opening([c EXCEPT !.repaired = TRUE], tired')
             /\ past' = h
             /\ UNCHANGED <<failures, opened, cache>>
        /\ r # "answer" /\ c.repaired => Attempted(c, r, h)
    BY DEF Answers
  <1>3. /\ c \in Calls /\ c.answered = m /\ c.prompt = call.prompt /\ c.row = None
        /\ c.sent = call.sent /\ c.hot = call.hot
    BY <1>1 DEF Calls
  <1>4. h \in Histories /\ h.trouble = past.trouble /\ h.clean = FALSE
    BY <1>1 DEF Histories
  <1>5. a \in AnswerSet /\ a.by = m /\ a.hot = c.hot
    <2> HIDE DEF c
    <2> QED BY <1>3 DEF AnswerSet, Calls
  <1> HIDE DEF c, h, a
  <1>6. tired' \in SUBSET Models
    BY <1>1
  <1>7. CASE r = "answer"
    <2>1. r \in Results \ {"open"} /\ r # "limited"
      BY <1>7 DEF Results
    <2> QED BY <1>1, <1>2, <1>3, <1>4, <1>5, <1>6, <1>7, <2>1, ReturnsStep
  <1>8. CASE r # "answer" /\ ~c.repaired
    <2> DEFINE d == [c EXCEPT !.repaired = TRUE]
    <2>1. d \in Calls /\ d.prompt = c.prompt /\ d.row = c.row
      BY <1>3 DEF Calls
    <2>2. call' = Opening(d, tired') /\ past' = h /\ UNCHANGED <<failures, opened, cache>>
      BY <1>2, <1>8
    <2> HIDE DEF d
    <2>3. /\ call' \in Calls /\ call'.at = "key" /\ call'.tries = NKeys
          /\ call'.prompt = d.prompt /\ call'.row = d.row
      BY <1>6, <2>1, <2>2, OpeningType
    <2> QED BY <1>1, <1>3, <1>4, <1>6, <2>1, <2>2, <2>3, GoesOnStep
  <1>9. CASE r # "answer" /\ c.repaired
    <2>1. r \in Results \ {"open", "answer"} /\ r # "limited"
      BY <1>1, <1>9 DEF Results, Final
    <2> QED BY <1>1, <1>2, <1>3, <1>4, <1>6, <1>9, <2>1, AttemptedStep
  <1> QED BY <1>7, <1>8, <1>9

LEMMA BreaksStep == ASSUME StackInv, NEW r \in Replies, Breaks(r) PROVE StackInv'
  <1> DEFINE b == past.clean /\ r # "refused"
             h == [past EXCEPT !.clean = b]
  <1>1. /\ call \in Calls /\ call.at = "wire" /\ call.prompt \in Prompts /\ call.row = None
        /\ past \in Histories /\ rr \in Keys /\ benched \in SUBSET Keys /\ tired \in SUBSET Models
        /\ UNCHANGED <<rr, benched, tired>> /\ r \in {"flaky", "refused", "reset"}
        /\ Attempted(call, r, h)
    BY DEF Breaks, StackInv, TypeOK, InFlight
  <1>2. h \in Histories /\ h.trouble = past.trouble /\ h.clean = b
    <2>1. b \in BOOLEAN
      OBVIOUS
    <2> HIDE DEF b
    <2> QED BY <1>1, <2>1 DEF Histories
  <1>3. /\ h.clean => r \notin Final
        /\ r \in Results \ {"open", "answer"} /\ r # "limited"
    BY <1>1, <1>2 DEF Results, Transient, Final
  <1> HIDE DEF h
  <1> QED BY <1>1, <1>2, <1>3, AttemptedStep

LEMMA TimeStep == ASSUME StackInv, Time PROVE StackInv'
  <1>1. /\ UNCHANGED <<rr, failures, cache, call, past>>
        /\ benched' \in SUBSET Keys /\ tired' \in SUBSET Models
        /\ opened' = opened \/ (opened = "waiting" /\ opened' = "elapsed")
    BY DEF Time, KeyRests, ModelRests, ResetElapses, StackInv, TypeOK
  <1>2. TypeOK' /\ OnlyOutagesOpen' /\ BreakerCounts' /\ InFlight'
    BY <1>1 DEF StackInv, TypeOK, OnlyOutagesOpen, BreakerCounts, InFlight
  <1>3. PassedAreUnusable'
    <2>1. \A k \in Keys : Behind(k)' = Behind(k)
      BY <1>1 DEF Behind
    <2> QED BY <1>1, <2>1 DEF StackInv, PassedAreUnusable
  <1>4. SamplesStayApart' /\ BillIsHonest' /\ LimitedMeansEveryKey' /\ BusyIsRetryable'
    BY <1>1 DEF StackInv, SamplesStayApart, BillIsHonest, FreeMeansUnsent, BillNamesTheWriter,
       LimitedMeansEveryKey, BusyIsRetryable
  <1> QED BY <1>2, <1>3, <1>4 DEF StackInv

LEMMA ProcessDiesStep == ASSUME StackInv, ProcessDies PROVE StackInv'
  <1>1. /\ rr' = 0 /\ benched' = {} /\ tired' = {} /\ failures' = 0 /\ opened' = "no"
        /\ call' = [NoCall EXCEPT !.sent = call.sent] /\ UNCHANGED cache
        /\ past' = [past EXCEPT !.clean = FALSE, !.unusable = {}, !.trouble = 0]
    BY DEF ProcessDies
  <1>2. past' \in Histories /\ past'.trouble = 0 /\ ~past'.clean
    <2>1. past \in Histories /\ 0 \in 0 .. Threshold
      BY ProvidersAssumption DEF StackInv, TypeOK
    <2> QED BY <1>1, <2>1 DEF Histories
  <1>3. call' \in Calls /\ call'.at = "settled" /\ call'.result = "reset" /\ call'.row = None
    <2>1. call.sent \in Nat
      BY DEF StackInv, TypeOK, Calls
    <2> QED BY <1>1, <2>1, NoCallType DEF Calls
  <1>4. TypeOK' /\ OnlyOutagesOpen' /\ BreakerCounts' /\ InFlight' /\ PassedAreUnusable'
    BY <1>1, <1>2, <1>3, FirstKey, ProvidersAssumption
    DEF StackInv, TypeOK, OnlyOutagesOpen, BreakerCounts, InFlight, PassedAreUnusable
  <1>5. SamplesStayApart' /\ BillIsHonest' /\ LimitedMeansEveryKey' /\ BusyIsRetryable'
    BY <1>1, <1>2, <1>3 DEF StackInv, SamplesStayApart, BillIsHonest, FreeMeansUnsent,
       BillNamesTheWriter, LimitedMeansEveryKey, BusyIsRetryable
  <1> QED BY <1>4, <1>5 DEF StackInv

LEMMA StepInv == ASSUME StackInv, [Next]_vars PROVE StackInv'
  <1>1. CASE UNCHANGED vars
    BY <1>1 DEF vars, StackInv, TypeOK, SamplesStayApart, OnlyOutagesOpen, BillIsHonest, FreeMeansUnsent,
       BillNamesTheWriter, LimitedMeansEveryKey, BusyIsRetryable, PassedAreUnusable, Behind, InFlight,
       BreakerCounts
  <1>2. CASE \E p \in Prompts, hot \in BOOLEAN : Ask(p, hot)
    BY <1>2, AskStep
  <1>3. CASE Proceed
    <2>1. CASE Hit \/ Miss \/ Admit \/ FailFast
      BY <2>1, HitStep, MissStep, AdmitStep, FailFastStep
    <2>2. CASE \E k \in Keys : Acquire(k)
      BY <2>2, AcquireStep
    <2>3. CASE Exhausted \/ Limited
      BY <2>3, ExhaustedStep, LimitedStep
    <2>4. CASE \E m \in Models, r \in Replies : NextModel(m, r) \/ Answers(m, r)
      BY <2>4, NextModelStep, AnswersStep
    <2>5. CASE \E r \in Replies : Breaks(r)
      BY <2>5, BreaksStep
    <2> QED BY <1>3, <2>1, <2>2, <2>3, <2>4, <2>5 DEF Proceed
  <1>4. CASE Time
    BY <1>4, TimeStep
  <1>5. CASE ProcessDies
    BY <1>5, ProcessDiesStep
  <1> QED BY <1>1, <1>2, <1>3, <1>4, <1>5 DEF Next

-----------------------------------------------------------------------------
(* What a call may cost *)

\* Each attempt has two rounds, its own and the repair's; a round goes once through
\* the chain of models, and a model once through the pool of keys.
Round(c) == IF c.repaired THEN 2 * c.attempt + 1 ELSE 2 * c.attempt

\* The most requests that were sent in round n, with l models left and t tries.
Most(n, l, t) == n * (NModels * NKeys) + (NModels - l) * NKeys + (NKeys - t)

Affords(c) == c.left # {} /\ c.sent <= Most(Round(c), Cardinality(c.left), c.tries)

Budget == call.at \in {"key", "wire"} => Affords(call)

LEMMA Products ==
  ASSUME NEW a \in Nat, NEW b \in Nat, NEW c \in Nat
  PROVE  /\ a * c \in Nat
         /\ (a + 1) * c = a * c + c
         /\ a <= b => a * c <= b * c
  OBVIOUS

LEMMA MostType ==
  ASSUME NEW n \in Nat, NEW l \in 0 .. NModels, NEW t \in 0 .. NKeys
  PROVE  /\ n * (NModels * NKeys) \in Nat /\ (NModels - l) * NKeys \in Nat /\ NModels * NKeys \in Nat
         /\ Most(n, l, t) \in Nat
  <1>1. NModels * NKeys \in Nat /\ NModels - l \in Nat /\ NKeys - t \in Nat
    BY Products, ProvidersAssumption
  <1>2. n * (NModels * NKeys) \in Nat /\ (NModels - l) * NKeys \in Nat
    BY <1>1, Products, ProvidersAssumption
  <1> DEFINE x == n * (NModels * NKeys)
             y == (NModels - l) * NKeys
  <1>3. Most(n, l, t) = x + y + (NKeys - t)
    BY DEF Most
  <1> HIDE DEF x, y
  <1>4. x + y + (NKeys - t) \in Nat
    BY <1>1, <1>2 DEF x, y
  <1> QED BY <1>1, <1>2, <1>3, <1>4

\* A model less and all the tries again; a try less; a round more.
LEMMA MostGrows ==
  ASSUME NEW n \in Nat, NEW l \in 1 .. NModels, NEW t \in 0 .. NKeys
  PROVE  /\ Most(n, l, t) <= Most(n, l - 1, NKeys)
         /\ t > 0 => Most(n, l, t - 1) = Most(n, l, t) + 1
         /\ Most(n, l, t) <= (n + 1) * (NModels * NKeys)
  <1> DEFINE P == NModels * NKeys
             x == n * P
             y == (NModels - l) * NKeys
             d == NModels - l
  <1>1. P \in Nat /\ x \in Nat /\ y \in Nat /\ d \in Nat /\ NKeys \in Nat /\ NModels \in Nat
    BY MostType, ProvidersAssumption
  <1>2. (NModels - (l - 1)) * NKeys = y + NKeys
    <2>1. NModels - (l - 1) = d + 1
      BY <1>1
    <2>2. (d + 1) * NKeys = d * NKeys + NKeys
      BY <1>1, Products
    <2> QED BY <2>1, <2>2
  <1>3. (n + 1) * P = x + P
    BY <1>1, Products
  <1>4. y + NKeys <= P
    <2>1. d + 1 \in Nat /\ d + 1 <= NModels
      BY <1>1
    <2>2. (d + 1) * NKeys <= NModels * NKeys /\ (d + 1) * NKeys = d * NKeys + NKeys
      BY <1>1, <2>1, Products
    <2> QED BY <2>2
  <1>5. /\ Most(n, l, t) = x + y + (NKeys - t)
        /\ Most(n, l, t - 1) = x + y + (NKeys - (t - 1))
        /\ Most(n, l - 1, NKeys) = x + (y + NKeys) + (NKeys - NKeys)
    BY <1>2 DEF Most
  <1> HIDE DEF P, x, y, d
  <1>6. Most(n, l, t) <= Most(n, l - 1, NKeys)
    BY <1>1, <1>5
  <1>7. t > 0 => Most(n, l, t - 1) = Most(n, l, t) + 1
    BY <1>1, <1>5
  <1>8. Most(n, l, t) <= (n + 1) * P
    BY <1>1, <1>3, <1>4, <1>5
  <1> QED BY <1>6, <1>7, <1>8 DEF P

LEMMA LeftCount ==
  ASSUME NEW S \in SUBSET Models
  PROVE  /\ IsFiniteSet(S) /\ Cardinality(S) \in 0 .. NModels
         /\ S # {} => Cardinality(S) \in 1 .. NModels
         /\ \A m \in S : Cardinality(S \ {m}) = Cardinality(S) - 1
         /\ Cardinality(Models) = NModels
  <1>1. IsFiniteSet(Models) /\ Cardinality(Models) = NModels
    BY FS_Interval, ProvidersAssumption DEF Models
  <1>2. IsFiniteSet(S) /\ Cardinality(S) <= NModels
    BY <1>1, FS_Subset
  <1>3. Cardinality(S) \in Nat /\ (Cardinality(S) = 0 <=> S = {})
    BY <1>2, FS_CardinalityType, FS_EmptySet
  <1>4. \A m \in S : Cardinality(S \ {m}) = Cardinality(S) - 1
    BY <1>2, FS_RemoveElement
  <1> QED BY <1>1, <1>2, <1>3, <1>4, ProvidersAssumption

LEMMA RoundType ==
  ASSUME NEW c \in Calls
  PROVE  Round(c) \in Nat /\ Round(c) + 1 <= (MaxAttempts + 1) * 2
  <1>1. c.attempt \in 0 .. MaxAttempts /\ MaxAttempts \in Nat
    BY ProvidersAssumption DEF Calls
  <1> DEFINE n == c.attempt
  <1>2. Round(c) = 2 * n \/ Round(c) = 2 * n + 1
    BY DEF Round
  <1> HIDE DEF n
  <1> QED BY <1>1, <1>2 DEF n

\* No call costs more than the bound.
LEMMA WithinBound ==
  ASSUME NEW c \in Calls, Affords(c)
  PROVE  c.sent <= RequestBound /\ (c.tries > 0 => c.sent < RequestBound)
  <1> DEFINE n == Round(c)
             l == Cardinality(c.left)
             t == c.tries
             P == NModels * NKeys
             R == (MaxAttempts + 1) * 2
  <1>1. /\ n \in Nat /\ l \in 1 .. NModels /\ t \in 0 .. NKeys /\ c.sent \in Nat /\ P \in Nat /\ R \in Nat
        /\ n + 1 <= R /\ c.sent <= Most(n, l, t)
    <2>1. c.left \in SUBSET Models /\ c.left # {} /\ t \in 0 .. NKeys /\ c.sent \in Nat
      BY DEF Calls, Affords
    <2>2. l \in 1 .. NModels
      BY <2>1, LeftCount
    <2>3. P \in Nat /\ R \in Nat
      BY Products, ProvidersAssumption
    <2> QED BY <2>1, <2>2, <2>3, RoundType DEF Affords
  <1>2. RequestBound = R * P
    <2>1. R * P = R * NModels * NKeys
      BY <1>1, ProvidersAssumption
    <2> QED BY <2>1 DEF RequestBound
  <1>3. (n + 1) * P <= R * P
    BY <1>1, Products
  <1>4. /\ Most(n, l, t) <= (n + 1) * P /\ Most(n, l, t) \in Nat
        /\ t > 0 => Most(n, l, t - 1) = Most(n, l, t) + 1
    BY <1>1, MostGrows, MostType
  <1>5. t > 0 => Most(n, l, t - 1) <= (n + 1) * P
    <2>1. t > 0 => t - 1 \in 0 .. NKeys
      BY <1>1, ProvidersAssumption
    <2> QED BY <1>1, <2>1, MostGrows
  <1>6. (n + 1) * P \in Nat /\ R * P \in Nat
    BY <1>1, Products
  <1> DEFINE x == (n + 1) * P
             y == R * P
  <1> HIDE DEF n, l, P, R, x, y
  <1>7. c.sent <= y /\ (t > 0 => c.sent < y)
    BY <1>1, <1>3, <1>4, <1>5, <1>6 DEF x, y
  <1> QED BY <1>2, <1>7 DEF y

\* Another round can be afforded.
LEMMA OpeningAffords ==
  ASSUME NEW c \in Calls, Affords(c), NEW d \in Calls, d.sent = c.sent,
         Round(c) + 1 <= Round(d), NEW weary \in SUBSET Models
  PROVE  Affords(Opening(d, weary))
  <1> DEFINE o == Opening(d, weary)
             n == Round(c)
             r == Round(d)
             l == Cardinality(c.left)
             t == c.tries
             P == NModels * NKeys
  <1>1. /\ o \in Calls /\ o.tries = NKeys /\ o.left = Models /\ o.sent = d.sent
        /\ o.attempt = d.attempt /\ o.repaired = d.repaired
    BY OpeningType
  <1>2. Round(o) = r /\ Cardinality(o.left) = NModels /\ o.left # {}
    BY <1>1, FirstKey, LeftCount DEF Round
  <1>3. n \in Nat /\ r \in Nat /\ l \in 1 .. NModels /\ t \in 0 .. NKeys /\ P \in Nat
    <2>1. c.left \in SUBSET Models /\ c.left # {} /\ t \in 0 .. NKeys
      BY DEF Calls, Affords
    <2>2. l \in 1 .. NModels
      BY <2>1, LeftCount
    <2>3. P \in Nat
      BY Products, ProvidersAssumption
    <2> QED BY <2>1, <2>2, <2>3, RoundType
  <1>4. Most(n, l, t) <= (n + 1) * P /\ Most(n, l, t) \in Nat
    <2> HIDE DEF n, l, t, r, o
    <2>1. Most(n, l, t) \in Nat
      BY <1>3, MostType, ProvidersAssumption
    <2> QED BY <1>3, <2>1, MostGrows
  <1>5. (n + 1) * P <= r * P /\ (n + 1) * P \in Nat /\ r * P \in Nat
    BY <1>3, Products
  <1>6. Most(r, NModels, NKeys) = r * P
    <2>1. (NModels - NModels) * NKeys = 0 /\ NKeys - NKeys = 0
      BY ProvidersAssumption
    <2> QED BY <1>5, <2>1 DEF Most
  <1>7. c.sent <= Most(n, l, t) /\ c.sent \in Nat
    BY DEF Affords, Calls
  <1> DEFINE x == (n + 1) * P
             y == r * P
  <1> HIDE DEF x, y, n, l, t, P, r
  <1>8. c.sent <= y
    BY <1>4, <1>5, <1>7 DEF x, y
  <1>9. o.sent <= Most(Round(o), Cardinality(o.left), o.tries)
    BY <1>1, <1>2, <1>6, <1>8 DEF y
  <1> QED BY <1>2, <1>9 DEF Affords

-----------------------------------------------------------------------------
(* Providers implements ModelCall *)

Moves == [Contract!Next]_(Contract!cvars)

LEMMA GoesOnMoves ==
  ASSUME call.at # "settled", call'.at # "settled", call'.sent = call.sent
  PROVE  Moves
  BY DEF Moves, Contract!cvars

LEMMA SettlesMoves ==
  ASSUME call.at # "settled", call'.at = "settled", call'.sent = call.sent, call'.result \in Results
  PROVE  Moves /\ Budget'
  <1>1. OutcomeOf(call'.result) \in {"answer", "retryable", "final", "unexpected"}
    BY DEF OutcomeOf
  <1> QED BY <1>1 DEF Moves, Budget, Contract!Next, Contract!Settle, Contract!Outcomes

LEMMA ReturnsMoves ==
  ASSUME call.at # "settled", NEW c \in Calls, c.sent = call.sent, NEW r \in Results,
         NEW a \in AnswerSet \cup {None}, NEW h, Returns(c, r, a, h)
  PROVE  Moves /\ Budget'
  <1>1. call' = Settled(c, r, a, FALSE)
    BY DEF Returns
  <1>2. call'.at = "settled" /\ call'.sent = c.sent /\ call'.result = r
    BY <1>1, SettledType, ZenonT(60)
  <1> QED BY <1>2, SettlesMoves

LEMMA AttemptedMoves ==
  ASSUME call.at # "settled", tired \in SUBSET Models, NEW c \in Calls, c.sent = call.sent, Affords(c),
         NEW r \in Results, NEW h, Attempted(c, r, h)
  PROVE  Moves /\ Budget'
  <1>1. CASE r = "flaky" /\ c.attempt < MaxAttempts
    <2> DEFINE n == c.attempt + 1
               d1 == [c EXCEPT !.attempt = n]
               d == [d1 EXCEPT !.repaired = FALSE]
    <2>1. call' = Opening(d, tired)
      BY <1>1 DEF Attempted
    <2>2. n \in 0 .. MaxAttempts
      BY <1>1, ProvidersAssumption DEF Calls
    <2>3. d1 \in Calls /\ d1.sent = c.sent /\ d1.attempt = n
      <3> HIDE DEF n
      <3> QED BY <2>2 DEF Calls
    <2>4. d \in Calls /\ d.sent = c.sent /\ d.attempt = n /\ d.repaired = FALSE
      <3> HIDE DEF n, d1
      <3> QED BY <2>3 DEF Calls
    <2> HIDE DEF d1, d
    <2>5. Round(c) + 1 <= Round(d)
      <3>1. Round(d) = 2 * n
        BY <2>4 DEF Round
      <3>2. c.attempt \in Nat
        BY ProvidersAssumption DEF Calls
      <3>3. Round(c) = 2 * c.attempt \/ Round(c) = 2 * c.attempt + 1
        BY DEF Round
      <3> DEFINE k == c.attempt
      <3> HIDE DEF k
      <3>4. Round(d) = 2 * (k + 1) /\ k \in Nat /\ (Round(c) = 2 * k \/ Round(c) = 2 * k + 1)
        BY <3>1, <3>2, <3>3 DEF k
      <3> QED BY <3>4
    <2>6. Affords(Opening(d, tired))
      BY <2>4, <2>5, OpeningAffords
    <2>7. call'.at = "key" /\ call'.sent = d.sent
      BY <2>1, <2>4, OpeningType
    <2> QED BY <2>1, <2>4, <2>6, <2>7, GoesOnMoves DEF Budget
  <1>2. CASE ~(r = "flaky" /\ c.attempt < MaxAttempts)
    <2>1. Returns(c, r, None, h) /\ None \in AnswerSet \cup {None}
      BY <1>2 DEF Attempted
    <2> QED BY <2>1, ReturnsMoves
  <1> QED BY <1>1, <1>2

\* One call: what is done before the wire, and after it.
LEMMA BeforeTheWire ==
  ASSUME StackInv, Budget, Hit \/ Miss \/ Admit \/ FailFast \/ Exhausted
  PROVE  Moves /\ Budget'
  <1>1. call \in Calls /\ tired \in SUBSET Models /\ None \in AnswerSet \cup {None}
    BY DEF StackInv, TypeOK
  <1>2. CASE Hit
    <2> DEFINE a == cache[call.prompt]
               w == RowOf(call, "answer", TRUE)
    <2>1. call.at # "settled" /\ call' = EndOf(call, "answer", a, w) /\ a \in AnswerSet \cup {None}
      BY <1>2 DEF Hit, Settled, EndOf, StackInv, TypeOK, InFlight
    <2>2. w \in Rows \cup {None} /\ "answer" \in Results
      BY <1>1, CachedRowType DEF Results
    <2> HIDE DEF a, w
    <2>3. call'.at = "settled" /\ call'.sent = call.sent /\ call'.result = "answer"
      BY <1>1, <2>1, <2>2, Ended
    <2> QED BY <2>1, <2>2, <2>3, SettlesMoves
  <1>3. CASE Miss
    <2>1. call.at = "lookup" /\ call'.at = "admit" /\ call'.sent = call.sent
      BY <1>1, <1>3 DEF Miss, Calls
    <2> QED BY <2>1, GoesOnMoves DEF Budget
  <1>4. CASE Admit
    <2>1. call.at = "admit" /\ call.sent = 0 /\ call' = Opening(call, tired)
      BY <1>4 DEF Admit, StackInv, InFlight
    <2>2. /\ call' \in Calls /\ call'.at = "key" /\ call'.sent = 0 /\ call'.left = Models
          /\ call'.tries = NKeys
      BY <1>1, <2>1, OpeningType
    <2>3. Affords(call')
      <3>1. Cardinality(Models) = NModels /\ Models # {} /\ NModels \in 0 .. NModels
        BY FirstKey, LeftCount, ProvidersAssumption
      <3>2. Most(Round(call'), NModels, NKeys) \in Nat
        BY <2>2, <3>1, FirstKey, RoundType, MostType
      <3> QED BY <2>2, <3>1, <3>2 DEF Affords
    <2> QED BY <2>1, <2>2, <2>3, GoesOnMoves DEF Budget
  <1>5. CASE FailFast
    <2>1. call.at = "admit" /\ call' = Settled(call, "open", None, FALSE)
      BY <1>5 DEF FailFast
    <2>2. \A c \in Calls, r \in Results, a \in AnswerSet \cup {None} :
            /\ Settled(c, r, a, FALSE).at = "settled" /\ Settled(c, r, a, FALSE).sent = c.sent
            /\ Settled(c, r, a, FALSE).result = r
      BY SettledType, ZenonT(60)
    <2>3. "open" \in Results
      BY DEF Results
    <2>4. call'.at = "settled" /\ call'.sent = call.sent /\ call'.result = "open"
      BY <1>1, <2>1, <2>2, <2>3
    <2> QED BY <2>1, <2>3, <2>4, SettlesMoves
  <1>6. CASE Exhausted
    <2>1. call.at = "key" /\ Attempted(call, "limited", [past EXCEPT !.unusable = @ \cup benched])
      BY <1>6 DEF Exhausted
    <2>2. Affords(call) /\ "limited" \in Results
      BY <2>1 DEF Budget, Results, Transient
    <2> QED BY <1>1, <2>1, <2>2, AttemptedMoves
  <1> QED BY <1>2, <1>3, <1>4, <1>5, <1>6

LEMMA AcquireMoves ==
  ASSUME StackInv, Budget, NEW k \in Keys, Acquire(k)
  PROVE  Moves /\ Budget'
  <1> DEFINE t == call.tries - 1
             n == call.sent + 1
             c1 == [call EXCEPT !.at = "wire", !.key = k]
  <1>1. /\ call \in Calls /\ call.at = "key" /\ call.tries \in 0 .. NKeys /\ call.tries > 0
        /\ call.sent \in Nat /\ Affords(call)
    BY DEF Acquire, StackInv, TypeOK, Calls, Budget
  <1>2. t \in 0 .. NKeys /\ n \in Nat
    BY <1>1, ProvidersAssumption
  <1>3. call' = [c1 EXCEPT !.tries = t, !.sent = n]
    BY DEF Acquire
  <1>4. /\ c1 \in Calls /\ c1.at = "wire" /\ c1.left = call.left
        /\ c1.attempt = call.attempt /\ c1.repaired = call.repaired
    BY <1>1 DEF Calls
  <1>5. /\ call'.at = "wire" /\ call'.tries = t /\ call'.sent = n /\ call'.left = call.left
        /\ call'.attempt = call.attempt /\ call'.repaired = call.repaired
    <2> HIDE DEF t, n, c1
    <2> QED BY <1>2, <1>3, <1>4 DEF Calls
  <1>6. Affords(call')
    <2> DEFINE r == Round(call)
               l == Cardinality(call.left)
    <2>1. call.left # {} /\ call.sent <= Most(r, l, call.tries)
      BY <1>1 DEF Affords
    <2>2. r \in Nat /\ l \in 1 .. NModels
      BY <1>1, <2>1, RoundType, LeftCount DEF Calls
    <2> HIDE DEF r, l
    <2>3. Most(r, l, t) = Most(r, l, call.tries) + 1 /\ Most(r, l, call.tries) \in Nat
      <3>1. l \in 0 .. NModels
        BY <2>2, ProvidersAssumption
      <3> QED BY <1>1, <2>2, <3>1, MostGrows, MostType
    <2>4. n <= Most(r, l, t)
      BY <1>1, <2>1, <2>3
    <2>5. Round(call') = r /\ Cardinality(call'.left) = l
      BY <1>5 DEF Round, r, l
    <2> QED BY <1>5, <2>1, <2>4, <2>5 DEF Affords
  <1>7. Contract!Send
    <2>1. call.sent < RequestBound
      BY <1>1, WithinBound
    <2> QED BY <1>1, <1>5, <2>1 DEF Contract!Send
  <1> QED BY <1>5, <1>6, <1>7 DEF Moves, Contract!Next, Budget

LEMMA LimitedMoves == ASSUME StackInv, Budget, Limited PROVE Moves /\ Budget'
  <1>1. call \in Calls /\ call.at = "wire" /\ Affords(call)
    BY DEF Limited, StackInv, TypeOK, Budget
  <1>2. /\ call'.at = "key" /\ call'.tries = call.tries /\ call'.sent = call.sent
        /\ call'.left = call.left /\ call'.attempt = call.attempt /\ call'.repaired = call.repaired
    BY <1>1 DEF Limited, Calls
  <1>3. Affords(call')
    BY <1>1, <1>2 DEF Affords, Round
  <1> QED BY <1>1, <1>2, <1>3, GoesOnMoves DEF Budget

LEMMA NextModelMoves ==
  ASSUME StackInv, Budget, NEW m \in Models, NEW r \in Replies, NextModel(m, r)
  PROVE  Moves /\ Budget'
  <1> DEFINE h == [past EXCEPT !.clean = @ /\ r = "overloaded"]
  <1>1. /\ call \in Calls /\ call.at = "wire" /\ Affords(call) /\ tired \in SUBSET Models
        /\ m \in call.left /\ r \in {"overloaded", "missing"}
    BY DEF NextModel, StackInv, TypeOK, Budget, Asked
  <1>2. CASE call.left = {m}
    <2>1. Attempted(call, r, h)
      BY <1>2 DEF NextModel
    <2>2. r \in Results
      BY <1>1 DEF Results, Transient, Final
    <2> HIDE DEF h
    <2> QED BY <1>1, <2>1, <2>2, AttemptedMoves
  <1>3. CASE call.left # {m}
    <2> DEFINE left == call.left \ {m}
               weary == call.weary \ {m}
               c1 == [call EXCEPT !.at = "key", !.left = left]
    <2>1. left \in SUBSET Models /\ weary \in SUBSET Models /\ left # {}
      BY <1>1, <1>3 DEF Calls
    <2>2. call' = [c1 EXCEPT !.weary = weary, !.tries = NKeys]
      BY <1>3 DEF NextModel
    <2>3. Cardinality(left) = Cardinality(call.left) - 1
      BY <1>1, LeftCount DEF Calls
    <2> HIDE DEF left, weary
    <2>4. /\ c1 \in Calls /\ c1.at = "key" /\ c1.left = left /\ c1.sent = call.sent
          /\ c1.attempt = call.attempt /\ c1.repaired = call.repaired
      BY <1>1, <2>1 DEF Calls
    <2> HIDE DEF c1
    <2>5. /\ call'.at = "key" /\ call'.tries = NKeys /\ call'.left = left /\ call'.sent = call.sent
          /\ call'.attempt = call.attempt /\ call'.repaired = call.repaired
      BY <2>1, <2>2, <2>4, FirstKey DEF Calls
    <2>6. Affords(call')
      <3> DEFINE n == Round(call)
                 l == Cardinality(call.left)
                 t == call.tries
      <3>1. call.sent <= Most(n, l, t) /\ call.sent \in Nat
        BY <1>1 DEF Affords, Calls
      <3>2. n \in Nat /\ l \in 1 .. NModels /\ t \in 0 .. NKeys
        <4>1. call.left \in SUBSET Models /\ call.left # {} /\ t \in 0 .. NKeys
          BY <1>1 DEF Calls
        <4> QED BY <1>1, <4>1, RoundType, LeftCount
      <3>3. Cardinality(call'.left) = l - 1 /\ Round(call') = n
        BY <2>3, <2>5 DEF Round
      <3> HIDE DEF n, l, t
      <3>4. Most(n, l, t) <= Most(n, l - 1, NKeys)
        BY <3>2, MostGrows
      <3>5. Most(n, l, t) \in Nat /\ Most(n, l - 1, NKeys) \in Nat
        <4>1. l \in 0 .. NModels /\ l - 1 \in 0 .. NModels
          BY <3>2, ProvidersAssumption
        <4> QED BY <3>2, <4>1, FirstKey, MostType
      <3>6. call.sent <= Most(n, l - 1, NKeys)
        BY <3>1, <3>4, <3>5
      <3> QED BY <2>1, <2>5, <3>3, <3>6 DEF Affords
    <2> QED BY <1>1, <2>5, <2>6, GoesOnMoves DEF Budget
  <1> QED BY <1>2, <1>3

LEMMA AnswersMoves ==
  ASSUME StackInv, Budget, NEW m \in Models, NEW r \in Replies, Answers(m, r)
  PROVE  Moves /\ Budget'
  <1> DEFINE c == [call EXCEPT !.answered = m]
             h == [past EXCEPT !.clean = FALSE, !.unusable = {}]
             a == [by |-> m, hot |-> c.hot]
             d == [c EXCEPT !.repaired = TRUE]
  <1>1. /\ call \in Calls /\ call.at = "wire" /\ Affords(call) /\ tired \in SUBSET Models
        /\ tired' \in SUBSET Models /\ r \in {"answer", "garbage"}
    BY DEF Answers, StackInv, TypeOK, Budget
  <1>2. /\ r = "answer" => Returns(c, r, a, h)
        /\ r # "answer" /\ ~c.repaired => call' = Opening(d, tired')
        /\ r # "answer" /\ c.repaired => Attempted(c, r, h)
    BY DEF Answers
  <1>3. /\ c \in Calls /\ c.sent = call.sent /\ c.left = call.left /\ c.tries = call.tries
        /\ c.attempt = call.attempt /\ c.repaired = call.repaired /\ c.hot \in BOOLEAN
    BY <1>1 DEF Calls
  <1> HIDE DEF c, h
  <1>4. Affords(c)
    BY <1>1, <1>3 DEF Affords, Round
  <1>5. r \in Results
    BY <1>1 DEF Results, Final
  <1>6. CASE r = "answer"
    <2>1. a \in AnswerSet
      BY <1>3 DEF AnswerSet
    <2> HIDE DEF a
    <2> QED BY <1>1, <1>2, <1>3, <1>5, <1>6, <2>1, ReturnsMoves
  <1>7. CASE r # "answer" /\ ~c.repaired
    <2>1. d \in Calls /\ d.sent = c.sent /\ d.attempt = c.attempt /\ d.repaired = TRUE
      BY <1>3 DEF Calls
    <2>2. call' = Opening(d, tired')
      BY <1>2, <1>7
    <2> HIDE DEF d
    <2>3. Round(c) + 1 <= Round(d)
      <3> DEFINE k == c.attempt
      <3>1. Round(d) = 2 * k + 1 /\ Round(c) = 2 * k
        BY <1>7, <2>1 DEF Round
      <3>2. k \in Nat
        BY <1>3, ProvidersAssumption DEF Calls
      <3> HIDE DEF k
      <3> QED BY <3>1, <3>2
    <2>4. Affords(Opening(d, tired'))
      BY <1>1, <1>3, <1>4, <2>1, <2>3, OpeningAffords
    <2>5. call'.at = "key" /\ call'.sent = d.sent
      BY <1>1, <2>1, <2>2, OpeningType
    <2> QED BY <1>1, <1>3, <2>1, <2>2, <2>4, <2>5, GoesOnMoves DEF Budget
  <1>8. CASE r # "answer" /\ c.repaired
    BY <1>1, <1>2, <1>3, <1>4, <1>5, <1>8, AttemptedMoves
  <1> QED BY <1>6, <1>7, <1>8

LEMMA BreaksMoves ==
  ASSUME StackInv, Budget, NEW r \in Replies, Breaks(r)
  PROVE  Moves /\ Budget'
  <1> DEFINE h == [past EXCEPT !.clean = @ /\ r # "refused"]
  <1>1. /\ call \in Calls /\ call.at = "wire" /\ Affords(call) /\ tired \in SUBSET Models
        /\ Attempted(call, r, h)
    BY DEF Breaks, StackInv, TypeOK, Budget
  <1>2. r \in Results
    BY DEF Breaks, Results, Transient, Final
  <1> HIDE DEF h
  <1> QED BY <1>1, <1>2, AttemptedMoves

LEMMA StepMoves == ASSUME StackInv, Budget, [Next]_vars PROVE Moves /\ Budget'
  <1>1. ASSUME UNCHANGED call PROVE Moves /\ Budget'
    BY <1>1 DEF Moves, Contract!cvars, Budget
  <1>2. CASE UNCHANGED vars
    BY <1>1, <1>2 DEF vars
  <1>3. CASE \E p \in Prompts, hot \in BOOLEAN : Ask(p, hot)
    <2> PICK p \in Prompts, hot \in BOOLEAN : Ask(p, hot)
      BY <1>3
    <2>1. call.at = "settled" /\ call \in Calls
      BY DEF Ask, StackInv, TypeOK
    <2>2. call'.at \in {"lookup", "admit"} /\ call'.sent = 0
      BY DEF Ask, NoCall
    <2>3. OutcomeOf(call.result) \in {"answer", "retryable", "final", "unexpected"}
      BY DEF OutcomeOf
    <2> QED BY <2>1, <2>2, <2>3 DEF Moves, Contract!Next, Contract!Ask, Contract!Outcomes, Budget
  <1>4. CASE Proceed
    <2>1. CASE Hit \/ Miss \/ Admit \/ FailFast \/ Exhausted
      BY <2>1, BeforeTheWire
    <2>2. CASE \E k \in Keys : Acquire(k)
      BY <2>2, AcquireMoves
    <2>3. CASE Limited
      BY <2>3, LimitedMoves
    <2>4. CASE \E m \in Models, r \in Replies : NextModel(m, r) \/ Answers(m, r)
      BY <2>4, NextModelMoves, AnswersMoves
    <2>5. CASE \E r \in Replies : Breaks(r)
      BY <2>5, BreaksMoves
    <2> QED BY <1>4, <2>1, <2>2, <2>3, <2>4, <2>5 DEF Proceed
  <1>5. CASE Time
    BY <1>1, <1>5 DEF Time, KeyRests, ModelRests, ResetElapses
  <1>6. CASE ProcessDies
    <2>1. call.at # "settled" /\ call' = [NoCall EXCEPT !.sent = call.sent]
      BY <1>6 DEF ProcessDies
    <2>2. call'.at = "settled" /\ call'.sent = call.sent /\ call'.result \in Results
      BY <2>1 DEF NoCall, Results
    <2> QED BY <2>1, <2>2, SettlesMoves
  <1> QED BY <1>2, <1>3, <1>4, <1>5, <1>6 DEF Next

-----------------------------------------------------------------------------
(* Theorems *)

LEMMA StackInvHolds == Spec => []StackInv
  <1> QED BY InitInv, StepInv, PTL DEF Spec

\* Whatever the replies, the clock and the process do, samples and first answers
\* stay apart in the cache, the breaker opens on an outage only, and the bill names
\* the model that answered and is free for what was never sent.
THEOREM StackIsHonest == Spec => []ProvidersInv
  <1>1. StackInv => ProvidersInv
    BY DEF StackInv, ProvidersInv
  <1> QED BY <1>1, StackInvHolds, PTL

\* The pool gives up a call as rate-limited only when no key could have taken it,
\* for any number of keys: those it went past were benched, or refused the request.
THEOREM LimitedIsTrue == Spec => []LimitedMeansEveryKey
  <1>1. StackInv => LimitedMeansEveryKey
    BY DEF StackInv
  <1> QED BY <1>1, StackInvHolds, PTL

\* A call that met busy keys, busy models and time-outs only is left to be retried,
\* for any number of keys, models and attempts.
THEOREM BusyIsWorthAnother == Spec => []BusyIsRetryable
  <1>1. StackInv => BusyIsRetryable
    BY DEF StackInv
  <1> QED BY <1>1, StackInvHolds, PTL

\* Retries, repairs, fallback models and keys nest, and what a call may cost is their
\* product, for any of them: each step of the stack is one of ModelCall's, or none of
\* its business.  That every call settles is not shown here.
THEOREM CallsAreBounded == Spec => Contract!Init /\ [][Contract!Next]_(Contract!cvars)
  <1>1. Init => Budget /\ Contract!Init
    BY DEF Init, NoCall, Budget, Contract!Init, OutcomeOf, Transient
  <1>2. StackInv /\ Budget /\ [Next]_vars => Moves /\ Budget'
    BY StepMoves
  <1>3. Moves => [Contract!Next]_(Contract!cvars)
    BY DEF Moves
  <1> QED BY <1>1, <1>2, <1>3, StackInvHolds, PTL DEF Spec

=============================================================================
