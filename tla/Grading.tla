------------------------------- MODULE Grading -------------------------------
(***************************************************************************)
(* One answer graded: the search for injected instructions, the embedding  *)
(* pass, the model's pass, the re-runs when the two diverge, and the grade *)
(* that is trusted or sent to a human.                                     *)
(*                                                                         *)
(* A text is a sequence of tokens: a "verb" that directs, the "object" it  *)
(* directs, a "role" tag, an ordinary "word", a line break "nl".  A score  *)
(* is a number of Scale-ths, so that every mean is exact; the rounding to  *)
(* four digits is left out.                                                *)
(***************************************************************************)
EXTENDS Integers, SequencesExt

CONSTANTS Names,      \* what a concept may be called
          KeyOf,      \* _concept_key: a name without its case and punctuation
          Questions,  \* expected_concepts of the questions
          Texts,      \* what a candidate may write
          Evidences,  \* what the model may say in its evidence field
          Full,       \* a concept fully covered, in steps
          Scale,      \* a full score
          Near, Of,   \* EVAL_DIVERGENCE_THRESHOLD is Near/Of
          Reruns,     \* EVAL_RERUN_COUNT
          MaxReply    \* bound: entries of a reply

Tokens == {"verb", "object", "role", "word", "nl"}
Kinds  == {"override", "role_hijack"}

ASSUME GradingAssumption ==
  /\ KeyOf \in [Names -> Names]
  /\ Questions \subseteq Seq(Names) \ {<<>>}
  /\ Texts \cup Evidences \subseteq Seq(Tokens)
  /\ Full \in Nat \ {0} /\ Scale \in Nat /\ Near \in Nat /\ Of \in Nat \ {0}
  /\ Reruns \in Nat /\ MaxReply \in Nat
  /\ \A q \in Questions : \A n \in 1 .. Len(q) : Scale % (4 * Full * n) = 0

Entries == [concept : Names, covered : 0 .. Full]
Replies == UNION {[1 .. n -> Entries] : n \in 0 .. MaxReply}

VARIABLES
  question,   \* the concepts asked for
  answer,     \* the text, and how many concepts its embedding comes close to
  phase,
  reply,      \* the temperature-0 reply, until a re-run is asked for
  coverage,   \* its coverage, on our concepts
  runs,       \* llm_scores
  injection,  \* kinds found in the answer and in what the model said
  heard,      \* history: the texts this attempt has read
  grade       \* what is stored

vars == <<question, answer, phase, reply, coverage, runs, injection, heard, grade>>

NoGrade == [final |-> 0, confidence |-> 0, review |-> FALSE, runs |-> 0]

TypeOK ==
  /\ question \in Questions
  /\ answer \in [text : Texts, near : 0 .. Len(question)]
  /\ phase \in {"new", "rerun", "graded", "raised"}
  /\ reply \in Replies
  /\ coverage = <<>> \/ coverage \in [ToSet(question) -> 0 .. Full]
  /\ Len(runs) <= Reruns + 1 /\ ToSet(runs) \subseteq 0 .. Scale
  /\ injection \subseteq Kinds
  /\ heard \subseteq Texts \cup Evidences
  /\ grade \in [final : 0 .. Scale, confidence : {0, 40, 75, 90}, review : BOOLEAN,
                runs : 0 .. Reruns + 1]

-----------------------------------------------------------------------------
(* prompt_safety *)

\* FlatTo(text)[n]: the first n tokens, without line breaks.
FlatTo(text) ==
  LET flat[n \in 0 .. Len(text)] ==
        IF n = 0 THEN <<>>
        ELSE IF text[n] = "nl" THEN flat[n-1] ELSE Append(flat[n-1], text[n])
  IN  flat

Flat(text) == FlatTo(text)[Len(text)]

\* A directive and its object with at most two words between, line breaks or not.
Directs(text) ==
  LET s == Flat(text)
  IN  \E i, j \in DOMAIN s : /\ i < j /\ j <= i + 3
                             /\ s[i] = "verb" /\ s[j] = "object"
                             /\ \A k \in i .. j : s[k] # "role"

\* A role tag opens a line.
Plays(text) == \E i \in DOMAIN text : text[i] = "role" /\ (i = 1 \/ text[i-1] = "nl")

Found(text) == {k \in Kinds : \/ k = "override" /\ Directs(text)
                              \/ k = "role_hijack" /\ Plays(text)}

\* The entries of a reply that name the concept c, up to case and punctuation.
Naming(r, c) == {i \in DOMAIN r : KeyOf[r[i].concept] = KeyOf[c]}

AtLeastAsLong(q, r) == Len(r) >= Len(q)

\* A reply with as many entries as concepts kept their order.
SameLength(q, r) == Len(r) = Len(q)

\* The place of a concept in the question; of two equal ones, the later.
Place(q, c) == Max({i \in DOMAIN q : q[i] = c})

\* Position before name.
AlignByPlace(q, r) ==
  [c \in ToSet(q) |->
     IF SameLength(q, r)       THEN r[Place(q, c)].covered
     ELSE IF Naming(r, c) # {} THEN r[Min(Naming(r, c))].covered
     ELSE 0]

Align(q, r) ==
  [c \in ToSet(q) |->
     IF Naming(r, c) # {}     THEN r[Min(Naming(r, c))].covered
     ELSE IF SameLength(q, r) THEN r[Place(q, c)].covered
     ELSE 0]

-----------------------------------------------------------------------------
(* scoring *)

Mean(total, n) == (total * Scale) \div n

LlmScore(cov) == Mean(FoldFunction(LAMBDA a, b : a + b, 0, cov),
                      Full * Cardinality(DOMAIN cov))

Deterministic == Mean(answer.near, Len(question))

Average(s) == FoldSeq(LAMBDA a, b : a + b, 0, s) \div Len(s)

\* The k-th smallest.
Nth(s, k) == Min({v \in ToSet(s) : Cardinality({i \in DOMAIN s : s[i] <= v}) >= k})

Median(s) ==
  LET n == Len(s)
  IN  IF n % 2 = 1 THEN Nth(s, (n + 1) \div 2)
      ELSE (Nth(s, n \div 2) + Nth(s, n \div 2 + 1)) \div 2

Distance(a, b) == IF a < b THEN b - a ELSE a - b

\* Exactly at the threshold is too far.
DivergedAt(s, det) == Distance(Median(s), det) * Of >= Near * Scale

Diverged(s, det) == Distance(Median(s), det) * Of > Near * Scale

Reconcile(s, det) ==
  [final      |-> (Median(s) + det) \div 2,
   confidence |-> IF Diverged(s, det) THEN 40 ELSE IF Len(s) = 1 THEN 90 ELSE 75,
   review     |-> Diverged(s, det),
   runs       |-> Len(s)]

\* The recalibration sweep: the first run re-scored, or as it is, all of them, when
\* the embedding comes close to n concepts.
ResweepFirst(s, n) == Reconcile(SubSeq(s, 1, 1), Mean(n, Len(question)))

Resweep(s, n) == Reconcile(IF s = <<>> THEN <<0>> ELSE s, Mean(n, Len(question)))

-----------------------------------------------------------------------------
(* grade *)

Init ==
  /\ question \in Questions
  /\ answer \in [text : Texts, near : 0 .. Len(question)]
  /\ phase = "new" /\ reply = <<>> /\ coverage = <<>> /\ runs = <<>>
  /\ injection = Found(answer.text) /\ heard = {answer.text}
  /\ grade = NoGrade

\* Only the first reply is searched.
EchoesOnce(said) ==
  /\ injection' = injection \cup (IF runs = <<>> THEN Found(said) ELSE {})
  /\ heard' = heard \cup {said}

\* What the model said is searched as well.
Echoes(said) == injection' = injection \cup Found(said) /\ heard' = heard \cup {said}

\* The grade from the runs there are; a grade with an injection is never trusted.
Conclude(s, found) ==
  LET result == Reconcile(s, Deterministic)
  IN  /\ phase' = "graded"
      /\ grade' = IF found = {} THEN result
                  ELSE [result EXCEPT !.review = TRUE,
                                      !.confidence = Min({@, 40})]

MoreByOne(s) == Len(s) <= Reruns + 1

\* Re-runs are left after these.
More(s) == Len(s) <= Reruns

First(r, said) ==
  /\ phase = "new"
  /\ reply' = r /\ coverage' = Align(question, r)
  /\ runs' = <<LlmScore(Align(question, r))>>
  /\ Echoes(said)
  /\ IF Diverged(runs', Deterministic) /\ More(runs')
     THEN phase' = "rerun" /\ UNCHANGED grade
     ELSE Conclude(runs', injection')
  /\ UNCHANGED <<question, answer>>

\* Unusable even after the repair: the embedding's score alone, for a human.
FirstUnusable ==
  /\ phase = "new"
  /\ phase' = "graded"
  /\ grade' = [final |-> Deterministic, confidence |-> 0, review |-> TRUE, runs |-> 0]
  /\ UNCHANGED <<question, answer, reply, coverage, runs, injection, heard>>

\* What a reply to each question may be worth.
Scores == [q \in Questions |-> {LlmScore(Align(q, r)) : r \in Replies}]

\* Of a re-run's reply only its score is kept.
Rerun(score, said) ==
  /\ phase = "rerun"
  /\ reply' = <<>>
  /\ runs' = Append(runs, score)
  /\ Echoes(said)
  /\ IF More(runs') THEN UNCHANGED <<phase, grade>>
     ELSE Conclude(runs', injection')
  /\ UNCHANGED <<question, answer, coverage>>

\* An unusable re-run ends them: decided on the runs there are.
RerunUnusable ==
  /\ phase = "rerun"
  /\ Conclude(runs, injection)
  /\ UNCHANGED <<question, answer, reply, coverage, runs, injection, heard>>

\* A transient fault is the task's to retry, and undoes the attempt.
Raises ==
  /\ phase \in {"new", "rerun"}
  /\ phase' = "raised" /\ reply' = <<>>
  /\ UNCHANGED <<question, answer, coverage, runs, injection, heard, grade>>

Again ==
  /\ phase = "raised"
  /\ phase' = "new" /\ coverage' = <<>> /\ runs' = <<>>
  /\ injection' = Found(answer.text) /\ heard' = {answer.text}
  /\ UNCHANGED <<question, answer, reply, grade>>

Next ==
  \/ \E r \in Replies, said \in Evidences : First(r, said)
  \/ \E score \in Scores[question], said \in Evidences : Rerun(score, said)
  \/ FirstUnusable \/ RerunUnusable \/ Raises \/ Again

Spec == Init /\ [][Next]_vars

-----------------------------------------------------------------------------
(* Properties *)

Within(a, b) == Distance(a, b) * Of <= Near * Scale

\* A trusted grade is anchored: at least half of the runs are not too far above the
\* embedding's score, at least half not too far below it, and the grade has moved
\* at most half of the threshold, however many re-runs were usable (grade, reconcile).
TrustIsAnchored ==
  phase = "graded" /\ ~grade.review =>
    LET high == {i \in DOMAIN runs : (runs[i] - Deterministic) * Of > Near * Scale}
        low  == {i \in DOMAIN runs : (Deterministic - runs[i]) * Of > Near * Scale}
    IN  /\ runs # <<>>
        /\ 2 * Cardinality(high) <= Len(runs) /\ 2 * Cardinality(low) <= Len(runs)
        /\ 2 * Distance(grade.final, Deterministic) * Of <= Near * Scale

\* Some words of the text direct an object, as a reader sees them: at most two words
\* between, wherever the lines break; or a role tag opens a line.
Suspicious(text) ==
  \/ \E i, j \in DOMAIN text :
       /\ i < j /\ text[i] = "verb" /\ text[j] = "object"
       /\ \A k \in i .. j : text[k] # "role"
       /\ Cardinality({k \in i + 1 .. j - 1 : text[k] # "nl"}) <= 2
  \/ \E i \in DOMAIN text : text[i] = "role" /\ (\A k \in 1 .. i - 1 : k = i - 1 => text[k] = "nl")

\* A grade is not trusted when the answer, or anything the model said in this attempt
\* (a re-run's evidence too), tries to instruct the grader (grade, detect_injection).
NoTrustAfterInjection ==
  phase = "graded" /\ (\E t \in heard : Suspicious(t)) =>
    grade.review /\ grade.confidence <= 40

\* A human is not asked without a cause: when the model answered, nothing read was
\* suspicious and every run is within the threshold, the threshold included, the
\* grade is trusted (reconcile).
NoNeedlessReview ==
  phase = "graded" /\ runs # <<>> /\ ~(\E t \in heard : Suspicious(t))
    /\ (\A i \in DOMAIN runs : Within(runs[i], Deterministic))
  => ~grade.review

DistinctKeys == \A c, d \in ToSet(question) : KeyOf[c] = KeyOf[d] => c = d

\* A reply that names every concept once is read by its names, in whatever order
\* they come and whatever else it holds (align_coverage).
AnyOrderWillDo ==
  reply # <<>> /\ DistinctKeys
    /\ (\A c \in ToSet(question) : Cardinality(Naming(reply, c)) = 1)
  => \A i \in DOMAIN reply, c \in ToSet(question) :
       KeyOf[reply[i].concept] = KeyOf[c] => coverage[c] = reply[i].covered

\* A reply that leaves concepts out, or adds some, is worth no more than its entries
\* about the concepts that were asked for (align_coverage).
UnaskedEarnsNothing ==
  reply # <<>> /\ DistinctKeys /\ Len(reply) # Len(question) =>
    LET asked == {i \in DOMAIN reply :
                   \E c \in ToSet(question) : i \in Naming(reply, c)}
    IN  FoldFunction(LAMBDA a, b : a + b, 0, coverage)
          <= FoldFunctionOnSet(LAMBDA a, b : a + b, 0,
                               [i \in DOMAIN reply |-> reply[i].covered], asked)

\* What holds of a grading at every step: its types, and a reply read for what it
\* says of the concepts asked for, in any order, and for nothing else.
GradingInv == TypeOK /\ AnyOrderWillDo /\ UnaskedEarnsNothing

\* The recalibration sweep, which asks the model nothing, reproduces at the threshold
\* in use every grade the model took part in, and the reviews no injection caused
\* (sweep_coverage_threshold).
SweepKeepsTheGrade ==
  phase = "graded" /\ runs # <<>> =>
    LET swept == Resweep(runs, answer.near)
    IN  swept.final = grade.final /\ (injection = {} => swept.review = grade.review)

\* A concept gets its own coverage: that of the entry with its very name if there is
\* one, and never that of an entry about another concept (align_coverage's
\* "re-keyed onto our expected concepts").
EachConceptGetsItsOwn ==
  reply # <<>> =>
    \A c \in ToSet(question) :
      LET own == {i \in DOMAIN reply : reply[i].concept = c}
      IN  /\ own # {} => coverage[c] = reply[Min(own)].covered
          /\ Naming(reply, c) = {} /\ coverage[c] > 0 =>
               \A d \in ToSet(question) : Place(question, c) \notin Naming(reply, d)

=============================================================================
