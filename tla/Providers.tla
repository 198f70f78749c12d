------------------------------ MODULE Providers ------------------------------
(***************************************************************************)
(* One metered call of the language model, through the stack a worker      *)
(* process builds once and keeps: cache, circuit breaker, in-process       *)
(* retry, JSON repair, model fallback, key pool.  A worker runs one task,  *)
(* hence one call, at a time; the cache is shared and outlives it.         *)
(***************************************************************************)
EXTENDS Naturals, FiniteSets

CONSTANTS NKeys,        \* how many API keys are pooled
          NModels,      \* the configured model and its fallbacks
          Prompts,      \* prompts (with their schema)
          MaxAttempts,  \* LLM_RETRY_MAX_ATTEMPTS
          Threshold,    \* LLM_BREAKER_THRESHOLD
          None          \* no model, no answer, no prompt

Keys   == 0 .. NKeys - 1
Models == 1 .. NModels          \* in the order they are preferred; 1 is configured

ASSUME ProvidersAssumption ==
  /\ NKeys \in Nat \ {0}
  /\ NModels \in Nat \ {0}
  /\ MaxAttempts \in Nat
  /\ Threshold \in Nat \ {0}
  /\ None \notin Models \cup Prompts

\* What one request can come back with.  "flaky" is a 5xx other than 503, or no
\* answer in time; "reset" is any other failure of the connection.
Replies == {"answer", "garbage", "limited", "overloaded", "missing",
            "flaky", "refused", "reset"}

\* What the stack ends a call with: "limited", "overloaded" and "flaky" are the
\* transient errors, "open" is the breaker's, "reset" has no class of its own.
\* Mutant: an overload left out of the transient family.
NotOverloads == {"limited", "flaky"}

Transient == {"limited", "overloaded", "flaky"}
Final     == {"missing", "refused", "garbage"}
Results   == Transient \cup Final \cup {"answer", "open", "reset"}

\* An answer is known by the model that wrote it and whether it was sampled.
AnswerSet == [by : Models, hot : BOOLEAN]

\* The row _meter writes; `model` is the one it names.
Rows == [status : {"ok", "cached", "error", "circuit_open"},
         charged : {"nothing", "prompt", "all"}, model : Models]

Calls == [at : {"lookup", "admit", "key", "wire", "settled"},
          prompt : Prompts \cup {None}, hot : BOOLEAN,
          attempt : 0 .. MaxAttempts, repaired : BOOLEAN,
          left : SUBSET Models, weary : SUBSET Models,  \* the chain still to try
          tries : 0 .. NKeys, key : Keys,
          answered : Models \cup {None},                \* answered_by
          sent : Nat,
          result : Results, answer : AnswerSet \cup {None},
          row : Rows \cup {None}]

\* What one must know of the past to judge a call; no step reads it: whether
\* only transient replies were heard in the call, the keys that were benched or
\* limited while its current model was asked, the calls that failed transiently
\* since the last answer.
Histories == [clean : BOOLEAN, unusable : SUBSET Keys, trouble : 0 .. Threshold]

VARIABLES
  rr,        \* the key the pool looks at first
  benched,   \* keys whose cooldown runs
  tired,     \* models whose overload cooldown runs
  failures,  \* the breaker's count
  opened,    \* "no", "waiting" for the reset, or "elapsed"
  cache,     \* the stored answer of each prompt at temperature 0
  call,      \* the call, or the last one
  past       \* its history

vars == <<rr, benched, tired, failures, opened, cache, call, past>>

NoCall == [at |-> "settled", prompt |-> None, hot |-> FALSE, attempt |-> 0,
           repaired |-> FALSE, left |-> {}, weary |-> {}, tries |-> 0, key |-> 0,
           answered |-> None, sent |-> 0, result |-> "reset", answer |-> None,
           row |-> None]

TypeOK ==
  /\ rr \in Keys
  /\ benched \in SUBSET Keys
  /\ tired \in SUBSET Models
  /\ failures \in 0 .. Threshold
  /\ opened \in {"no", "waiting", "elapsed"}
  /\ cache \in [Prompts -> AnswerSet \cup {None}]
  /\ call \in Calls
  /\ past \in Histories

Init ==
  /\ rr = 0
  /\ benched = {}
  /\ tired = {}
  /\ failures = 0
  /\ opened = "no"
  /\ cache = [p \in Prompts |-> None]
  /\ call = NoCall
  /\ past = [clean |-> FALSE, unusable |-> {}, trouble |-> 0]

-----------------------------------------------------------------------------
\* Metering and the way out

\* Mutants: an error that costs nothing; a row under the configured model's name.
ErrorsAreFree(c, r, free) ==
  LET row(s, ch) == [status |-> s, charged |-> ch, model |-> 1]
  IN  IF r = "answer" /\ ~free THEN row("ok", "all") ELSE row("error", "nothing")
AlwaysConfigured(c, r, free) ==
  IF r = "answer" THEN [status |-> "ok", charged |-> IF free THEN "nothing" ELSE "all",
                        model |-> 1]
  ELSE None

\* What the ledger is told.  A failure outside the LLMError family is not
\* caught, and leaves no row.
RowOf(c, r, free) ==
  LET named == IF c.answered = None THEN 1 ELSE c.answered
      row(s, ch) == [status |-> s, charged |-> ch, model |-> named]
  IN  CASE r = "answer" -> IF free THEN row("cached", "nothing") ELSE row("ok", "all")
        [] r = "open"   -> row("circuit_open", "nothing")
        [] r = "reset"  -> None
        [] OTHER        -> row("error", "prompt")

Settled(c, r, a, free) ==
  [NoCall EXCEPT !.hot = c.hot, !.sent = c.sent, !.result = r,
                 !.answer = a, !.row = RowOf(c, r, free)]

\* Mutant: an answer does not clear the count.
CountsForever(r) == IF r \in Transient THEN failures + 1 ELSE failures

\* The breaker counts the transient failures it sees and forgets them on an answer.
Counts(r) == IF r \in Transient THEN failures + 1
             ELSE IF r = "answer" THEN 0 ELSE failures

\* Mutant: samples are cached and served like first answers.
AlwaysCacheable(hot) == TRUE

\* Only an answer at temperature 0 is kept.
Cacheable(hot)  == ~hot
Stores(c, r)    == r = "answer" /\ Cacheable(c.hot)

\* The call comes back through retry, breaker and cache with r and answer a;
\* h is its history so far.
Returns(c, r, a, h) ==
  LET n == Counts(r) IN
  /\ call' = Settled(c, r, a, FALSE)
  /\ failures' = n
  /\ opened' = IF r \in Transient /\ n >= Threshold THEN "waiting" ELSE opened
  /\ \/ Stores(c, r) /\ cache' = [cache EXCEPT ![c.prompt] = a]
     \/ UNCHANGED cache                 \* a failed write is ignored
  /\ past' = [h EXCEPT !.unusable = IF r = "limited" THEN @ ELSE {},
                       !.trouble = IF r = "answer" THEN 0
                                   ELSE IF r \in Transient /\ @ < Threshold THEN @ + 1
                                   ELSE @]

-----------------------------------------------------------------------------
\* The wrappers, outermost first

Ask(p, hot) ==
  /\ call.at = "settled"
  /\ call' = [NoCall EXCEPT !.at = IF Cacheable(hot) THEN "lookup" ELSE "admit",
                            !.prompt = p, !.hot = hot]
  /\ past' = [past EXCEPT !.clean = TRUE, !.unusable = {}]
  /\ UNCHANGED <<rr, benched, tired, failures, opened, cache>>

Hit ==
  /\ call.at = "lookup"
  /\ cache[call.prompt] # None
  /\ call' = Settled(call, "answer", cache[call.prompt], TRUE)
  /\ UNCHANGED <<rr, benched, tired, failures, opened, cache, past>>

\* Nothing is stored (any more), or it does not validate, or the store is down.
Miss ==
  /\ call.at = "lookup"
  /\ call' = [call EXCEPT !.at = "admit"]
  /\ UNCHANGED <<rr, benched, tired, failures, opened, cache, past>>

\* Mutant: one key too few is tried.
OpeningShort(c, weary) ==
  [c EXCEPT !.at = "key", !.left = Models, !.weary = weary, !.tries = NKeys - 1]

\* GeminiProvider.complete starts: every model is in the chain, the tired ones last.
Opening(c, weary) ==
  [c EXCEPT !.at = "key", !.left = Models, !.weary = weary, !.tries = NKeys]

\* CircuitBreakerProvider: past the reset the count starts again.
Admit ==
  /\ call.at = "admit"
  /\ opened # "waiting"
  /\ opened' = "no"
  /\ failures' = IF opened = "elapsed" THEN 0 ELSE failures
  /\ call' = Opening(call, tired)
  /\ UNCHANGED <<rr, benched, tired, cache, past>>

FailFast ==
  /\ call.at = "admit"
  /\ opened = "waiting"
  /\ call' = Settled(call, "open", None, FALSE)
  /\ UNCHANGED <<rr, benched, tired, failures, opened, cache, past>>

\* RetryingProvider: only "flaky" is worth another attempt in process.
Attempted(c, r, h) ==
  IF r = "flaky" /\ c.attempt < MaxAttempts
  THEN /\ call' = Opening([c EXCEPT !.attempt = @ + 1, !.repaired = FALSE], tired)
       /\ past' = [h EXCEPT !.unusable = {}]
       /\ UNCHANGED <<failures, opened, cache>>
  ELSE Returns(c, r, None, h)

-----------------------------------------------------------------------------
\* GeminiProvider and its key pool

\* The order of the chain: the rested models first, as configured.
Before(m, o, weary) ==
  \/ m \notin weary /\ o \in weary
  \/ (m \in weary <=> o \in weary) /\ m <= o

Asked(m) == m \in call.left /\ \A o \in call.left : Before(m, o, call.weary)

\* Round robin: how far k is from where the pool looks first.
Distance(k) == (k + NKeys - rr) % NKeys

Usable(k) == k \notin benched

\* Mutant: the position in the pool runs off the list.
RunsPast(k) == k + 1

After(k) == (k + 1) % NKeys

\* _execute hands the request to the first usable key.
Acquire(k) ==
  /\ call.at = "key"
  /\ call.tries > 0
  /\ Usable(k)
  /\ \A j \in Keys : Usable(j) => Distance(k) <= Distance(j)
  /\ rr' = After(k)
  /\ call' = [call EXCEPT !.at = "wire", !.key = k, !.tries = @ - 1, !.sent = @ + 1]
  /\ past' = [past EXCEPT !.unusable = @ \cup benched]
  /\ UNCHANGED <<benched, tired, failures, opened, cache>>

\* Mutant: with every key benched, the pool waits for one.
WaitsForAKey == call.tries = 0

\* Every key is benched, or as many were tried as there are.
OutOfKeys == call.tries = 0 \/ ~\E k \in Keys : Usable(k)

\* The whole call is then rate-limited, whatever models are left.
Exhausted ==
  /\ call.at = "key"
  /\ OutOfKeys
  /\ Attempted(call, "limited", [past EXCEPT !.unusable = @ \cup benched])
  /\ UNCHANGED <<rr, benched, tired>>

\* 429: the key is benched and the next one tried.
Limited ==
  /\ call.at = "wire"
  /\ benched' = benched \cup {call.key}
  /\ call' = [call EXCEPT !.at = "key"]
  /\ past' = [past EXCEPT !.unusable = @ \cup {call.key}]
  /\ UNCHANGED <<rr, tired, failures, opened, cache>>

\* 503 and 404: the next model of the chain, and if there is none the call ends
\* with what this one said.
NextModel(m, r) ==
  /\ call.at = "wire"
  /\ r \in {"overloaded", "missing"}
  /\ Asked(m)
  /\ tired' = IF r = "overloaded" THEN tired \cup {m} ELSE tired
  /\ LET h == [past EXCEPT !.clean = @ /\ r = "overloaded"]
     IN  IF call.left = {m}
         THEN Attempted(call, r, h)
         ELSE /\ call' = [call EXCEPT !.at = "key", !.left = @ \ {m}, !.weary = @ \ {m},
                                     !.tries = NKeys]
              /\ past' = [h EXCEPT !.unusable = {}]
              /\ UNCHANGED <<failures, opened, cache>>
  /\ UNCHANGED <<rr, benched>>

\* The model answers; RepairingProvider asks once more when the answer does not
\* validate.
Answers(m, r) ==
  /\ call.at = "wire"
  /\ r \in {"answer", "garbage"}
  /\ Asked(m)
  /\ tired' = tired \ {m}
  /\ LET c == [call EXCEPT !.answered = m]
         h == [past EXCEPT !.clean = FALSE, !.unusable = {}]
     IN  IF r = "answer" THEN Returns(c, r, [by |-> m, hot |-> c.hot], h)
         ELSE IF ~c.repaired
         THEN /\ call' = Opening([c EXCEPT !.repaired = TRUE], tired')
              /\ past' = h
              /\ UNCHANGED <<failures, opened, cache>>
         ELSE Attempted(c, r, h)
  /\ UNCHANGED <<rr, benched>>

\* Any other status, or none: nothing of the provider's own is touched.
Breaks(r) ==
  /\ call.at = "wire"
  /\ r \in {"flaky", "refused", "reset"}
  /\ Attempted(call, r, [past EXCEPT !.clean = @ /\ r # "refused"])
  /\ UNCHANGED <<rr, benched, tired>>

-----------------------------------------------------------------------------
\* Time passes while a request is out or nothing is asked; a process may die with
\* all but the cache

KeyRests(k) ==
  /\ k \in benched
  /\ benched' = benched \ {k}
  /\ UNCHANGED <<rr, tired, failures, opened, cache, call, past>>

ModelRests(m) ==
  /\ m \in tired
  /\ tired' = tired \ {m}
  /\ UNCHANGED <<rr, benched, failures, opened, cache, call, past>>

ResetElapses ==
  /\ opened = "waiting"
  /\ opened' = "elapsed"
  /\ UNCHANGED <<rr, benched, tired, failures, cache, call, past>>

ProcessDies ==
  /\ call.at # "settled"
  /\ rr' = 0 /\ benched' = {} /\ tired' = {} /\ failures' = 0 /\ opened' = "no"
  /\ call' = [NoCall EXCEPT !.sent = call.sent]
  /\ past' = [past EXCEPT !.clean = FALSE, !.unusable = {}, !.trouble = 0]
  /\ UNCHANGED cache

Proceed ==
  \/ Hit \/ Miss \/ Admit \/ FailFast
  \/ \E k \in Keys : Acquire(k)
  \/ Exhausted
  \/ Limited
  \/ \E m \in Models, r \in Replies : NextModel(m, r) \/ Answers(m, r)
  \/ \E r \in Replies : Breaks(r)

Time ==
  /\ call.at \in {"wire", "settled"}
  /\ \/ \E k \in Keys : KeyRests(k)
     \/ \E m \in Models : ModelRests(m)
     \/ ResetElapses

Next ==
  \/ \E p \in Prompts, hot \in BOOLEAN : Ask(p, hot)
  \/ Proceed
  \/ Time
  \/ ProcessDies

Spec     == Init /\ [][Next]_vars
FairSpec == Spec /\ WF_vars(Proceed)    \* a task that waits for a call goes on with it

-----------------------------------------------------------------------------
\* Properties

OutcomeOf(r) == CASE r = "answer" -> "answer"
                  [] r \in Transient \cup {"open"} -> "retryable"
                  [] r = "reset" -> "unexpected"
                  [] OTHER -> "final"

\* Retry attempts, the repair of each, every model of the chain, every key.
RequestBound == (MaxAttempts + 1) * 2 * NModels * NKeys

Contract == INSTANCE ModelCall WITH
  MaxRequests <- RequestBound,
  phase <- IF call.at = "settled" THEN OutcomeOf(call.result) ELSE "asked",
  sent  <- call.sent

\* However retries, repair, models and keys nest, a call ends, and costs no more
\* requests than their product.
KeepsContract == Contract!Spec

\* "All keys are rate-limited" is only ever said when each of them was benched, or
\* refused the request, while the model was asked (GeminiProvider._execute).
LimitedMeansEveryKey ==
  call.at = "settled" /\ call.result = "limited" => past.unusable = Keys

\* A call that heard nothing but 429, 503, other 5xx and timeouts, in whatever
\* order over keys, models and attempts, never fails for good.
BusyIsRetryable ==
  call.at = "settled" /\ past.clean => OutcomeOf(call.result) # "final"

\* A call above temperature 0 is answered by a sample of its own, and no such
\* sample is ever stored for, or served to, a call at 0 (CachingProvider).
SamplesStayApart ==
  /\ \A p \in Prompts : cache[p] # None => ~cache[p].hot
  /\ call.at = "settled" /\ call.result = "answer" =>
       /\ call.answer.hot = call.hot
       /\ call.hot => call.sent > 0

\* A row that charges nothing stands for a call that sent nothing
\* (_complete_metered: the circuit was open, or the cache answered).
FreeMeansUnsent ==
  call.row # None /\ call.row.charged = "nothing" => call.sent = 0

\* The model a charged answer is booked on is the one that wrote it, through
\* fallbacks, repairs and attempts (_meter).
BillNamesTheWriter ==
  call.row # None /\ call.row.charged = "all" => call.row.model = call.answer.by

\* The breaker only opens on Threshold calls that failed transiently with no
\* answer between them.
OnlyOutagesOpen == opened # "no" => past.trouble = Threshold

\* Every call that was answered or tried is booked as what it was: a free row
\* only for a call that sent nothing, a paid answer on the model that wrote it.
BillIsHonest == FreeMeansUnsent /\ BillNamesTheWriter

\* What holds of the stack between any two steps: its types, the cache that keeps
\* samples apart, the breaker that opens on outages only, the bill.
ProvidersInv == TypeOK /\ SamplesStayApart /\ OnlyOutagesOpen /\ BillIsHonest

\* What base.py says of transient errors, connection resets included: a call that
\* met nothing worse is worth another attempt.
OutagesAreRetryable ==
  call.at = "settled" /\ past.clean => OutcomeOf(call.result) \in {"answer", "retryable"}

\* What _complete_metered says of the models it collects and books: each is the
\* model that wrote the answer, when the cache served it too.
WriterIsRecorded ==
  call.row # None /\ call.result = "answer" => call.row.model = call.answer.by

\* What _complete_metered says of an error: its prompt is charged because it was
\* sent.
ChargedWasSent ==
  call.row # None /\ call.row.charged = "prompt" => call.sent > 0

=============================================================================
