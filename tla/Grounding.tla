------------------------------ MODULE Grounding ------------------------------
(***************************************************************************)
(* What one interview's questions are grounded in: the job's requirements  *)
(* the resume does not support, a hybrid search for each of them and for   *)
(* each skill, the passages packed under the token budget, and the labels  *)
(* the model cites turned back into chunk ids.                             *)
(*                                                                         *)
(* A similarity is one of a few levels.  The two retrievers may rank the   *)
(* passages in any way: each search draws its two lists.                   *)
(***************************************************************************)
EXTENDS Naturals, SequencesExt

CONSTANTS Requirements,  \* split_requirements of the job description
          Skills,        \* the resume's skills
          Chunks, Cost,  \* passages and their token_estimate
          Levels,        \* similarities are 0 .. Levels; 0: only a word in common
          Floor,         \* RAG_MIN_SIMILARITY
          Supports,      \* JD_MATCH_THRESHOLD
          TopK,          \* RAG_TOP_K
          Pool,          \* RAG_CANDIDATES
          Budget,        \* RAG_CONTEXT_TOKEN_BUDGET
          Common,        \* a multiple of RRF_K + rank, for every rank
          MaxQuestions   \* bound: questions of one reply

RrfK == 60

ASSUME GroundingAssumption ==
  /\ Requirements \in Seq(STRING) /\ Skills \in Seq(STRING)
  /\ IsFiniteSet(Chunks) /\ Cost \in [Chunks -> Nat]
  /\ Levels \in Nat /\ Floor \in 1 .. Levels /\ Supports \in 1 .. Levels
  /\ TopK \in Nat \ {0} /\ Pool \in Nat \ {0} /\ Budget \in Nat /\ MaxQuestions \in Nat
  /\ Common \in Nat \ {0} /\ \A r \in 1 .. Pool : Common % (RrfK + r) = 0

\* The members of S as the relation R orders them, the smallest first.
InOrder(S, R) ==
  CHOOSE s \in [1 .. Cardinality(S) -> S] : \A i, j \in DOMAIN s : i < j => <<s[i], s[j]>> \in R

Ranked == {s \in UNION {[1 .. n -> Chunks] : n \in 0 .. Pool} : IsInjective(s)}

\* Best first: a passage and how similar it is.
Vectors == {v \in UNION {[1 .. n -> [chunk : Chunks, sim : 1 .. Levels]] :
                           n \in 1 .. Pool} :
              /\ \A i, j \in DOMAIN v : i < j => v[i].chunk # v[j].chunk /\ v[i].sim >= v[j].sim
              /\ Len(v) = Min({Pool, Cardinality(Chunks)})}

NoLists == [vec |-> <<>>, key |-> <<>>]

VARIABLES
  phase,
  support,    \* how well the skills support each requirement
  targets,    \* what to search for, in order
  lists,      \* what the two retrievers said to the last search
  hits,       \* per_skill: the answer to each search so far
  sources,    \* the passages in the prompt: S1, S2, ...
  labels,     \* the labels each question of the reply cites
  stored      \* source_chunk_ids of the questions inserted

groundingVars == <<phase, support, targets, lists, hits, sources, labels, stored>>

GroundingTypes ==
  /\ phase \in {"match", "search", "pack", "reply", "ready", "failed"}
  /\ support \in [DOMAIN Requirements -> [DOMAIN Skills -> 0 .. Levels]]
  /\ ToSet(targets) \subseteq ToSet(Requirements) \cup ToSet(Skills)
  /\ lists.vec = <<>> \/ lists.vec \in Vectors
  /\ lists.key \in Ranked
  /\ Len(hits) <= Len(targets)
  /\ \A h \in ToSet(hits) : h \in Seq(Chunks) /\ Len(h) <= TopK /\ IsInjective(h)
  /\ sources \in Seq(Chunks) /\ IsInjective(sources)
  /\ Len(labels) <= MaxQuestions /\ Len(stored) <= Len(labels)

-----------------------------------------------------------------------------
(* job_match *)

Best(i) == Max({0} \cup {support[i][s] : s \in DOMAIN Skills})

Covered(i) == Best(i) >= Supports

\* Requirements no skill supports, the weakest first, else in their order.
Gaps ==
  LET bare   == {i \in DOMAIN Requirements : ~Covered(i)}
      weaker == {p \in bare \X bare : \/ Best(p[1]) < Best(p[2])
                                      \/ Best(p[1]) = Best(p[2]) /\ p[1] < p[2]}
  IN  [n \in 1 .. Cardinality(bare) |-> Requirements[InOrder(bare, weaker)[n]]]

-----------------------------------------------------------------------------
(* search *)

RankIn(s, c) == CHOOSE i \in DOMAIN s : s[i] = c

Retrieved(vec) == [i \in DOMAIN vec |-> vec[i].chunk]

Weight(s, c) == IF c \in ToSet(s) THEN Common \div (RrfK + RankIn(s, c)) ELSE 0

\* The smaller the sum of its ranks the better, in the lists that have it.
ScoreByRanks(vec, key, c) ==
  Common - (IF c \in ToSet(key) THEN RankIn(key, c) ELSE 0)
         - (IF c \in ToSet(Retrieved(vec)) THEN RankIn(Retrieved(vec), c) ELSE 0)

\* Reciprocal rank fusion.
Score(vec, key, c) == Weight(Retrieved(vec), c) + Weight(key, c)

Similarity(vec, c) ==
  IF c \in ToSet(Retrieved(vec)) THEN vec[RankIn(Retrieved(vec), c)].sim ELSE 0

\* Where the search comes upon c: in the first list, else behind it.
FoundAt(vec, key, c) ==
  IF c \in ToSet(Retrieved(vec)) THEN RankIn(Retrieved(vec), c) ELSE Len(vec) + RankIn(key, c)

\* By score, then similarity, then in the order found.
Ahead(vec, key, a, b) ==
  \/ Score(vec, key, a) > Score(vec, key, b)
  \/ /\ Score(vec, key, a) = Score(vec, key, b)
     /\ \/ Similarity(vec, a) > Similarity(vec, b)
        \/ /\ Similarity(vec, a) = Similarity(vec, b)
           /\ FoundAt(vec, key, a) < FoundAt(vec, key, b)

Fused(vec, key) ==
  LET found == ToSet(Retrieved(vec)) \cup ToSet(key)
  IN  InOrder(found, {p \in found \X found : Ahead(vec, key, p[1], p[2])})

\* Every passage kept must be close.
EachClears(vec, top) == \A c \in ToSet(top) : Similarity(vec, c) >= Floor

\* The cut-off is on the set: one close passage is enough.
Clears(vec, top) == \E c \in ToSet(top) : Similarity(vec, c) >= Floor

Search(vec, key) ==
  LET all == Fused(vec, key)
      top == SubSeq(all, 1, Min({TopK, Len(all)}))
  IN  IF Clears(vec, top) THEN top ELSE <<>>

-----------------------------------------------------------------------------
(* build_context *)

\* The target and the depth looked at n-th: one target after the other.
TargetByTarget(hs, n) == <<((n - 1) \div TopK) + 1, ((n - 1) % TopK) + 1>>

\* The best passage of every target, then every second best, ...
InTurn(hs, n) == <<((n - 1) % Len(hs)) + 1, ((n - 1) \div Len(hs)) + 1>>

Fits(used, c) == used + Cost[c] <= Budget

\* What the n-th look adds: a passage not seen before that fits.  The first that does
\* not fit ends it.
Look(hs, n, acc) ==
  LET t == InTurn(hs, n)[1]
      d == InTurn(hs, n)[2]
  IN  IF acc.full \/ d > Len(hs[t]) \/ hs[t][d] \in ToSet(acc.kept) THEN acc
      ELSE IF Fits(acc.used, hs[t][d])
      THEN [kept |-> Append(acc.kept, hs[t][d]), used |-> acc.used + Cost[hs[t][d]], full |-> FALSE]
      ELSE [acc EXCEPT !.full = TRUE]

Looks(hs) ==
  LET after[n \in 0 .. TopK * Len(hs)] ==
        IF n = 0 THEN [kept |-> <<>>, used |-> 0, full |-> FALSE] ELSE Look(hs, n, after[n - 1])
  IN  after

Pack(hs) == Looks(hs)[TopK * Len(hs)].kept

\* chunk_ids_for: the labels that were given to the model, and their passages.
Given(ls) == \A i \in DOMAIN ls : ls[i] \in DOMAIN sources

ChunkIds(ls) == [i \in DOMAIN ls |-> sources[ls[i]]]

-----------------------------------------------------------------------------
(* generate_questions *)

GroundingInit ==
  /\ phase = "match"
  /\ support \in [DOMAIN Requirements -> [DOMAIN Skills -> 0 .. Levels]]
  /\ targets = <<>> /\ lists = NoLists /\ hits = <<>> /\ sources = <<>>
  /\ labels = <<>> /\ stored = <<>>

\* When the budget runs out it is the skills that are dropped.
GapsFirst == Gaps \o Skills

\* Without a job description there is nothing to match.
Match(described) ==
  /\ phase = "match"
  /\ targets' = IF described THEN GapsFirst ELSE Skills
  /\ phase' = IF targets' = <<>> THEN "reply" ELSE "search"
  /\ UNCHANGED <<support, lists, hits, sources, labels, stored>>

Retrieve(vec, key) ==
  /\ phase = "search"
  /\ lists' = [vec |-> vec, key |-> key]
  /\ hits' = Append(hits, Search(vec, key))
  /\ phase' = IF Len(hits') = Len(targets) THEN "pack" ELSE phase
  /\ UNCHANGED <<support, targets, sources, labels, stored>>

\* What no search answered is recorded for the authors of the corpus.
Build ==
  /\ phase = "pack"
  /\ sources' = Pack(hits)
  /\ lists' = NoLists
  /\ phase' = "reply"
  /\ UNCHANGED <<support, targets, hits, labels, stored>>

\* One question of the reply.  Without sources its labels are not looked at; a label
\* nobody gave fails the session, with the questions before it already inserted.
Question(ls) ==
  /\ phase = "reply" /\ Len(labels) < MaxQuestions
  /\ labels' = Append(labels, ls)
  /\ hits' = <<>>
  /\ IF sources = <<>> THEN stored' = Append(stored, <<>>) /\ UNCHANGED phase
     ELSE IF Given(ls)
     THEN /\ stored' = Append(stored, ChunkIds(ls))
          /\ UNCHANGED phase
     ELSE phase' = "failed" /\ UNCHANGED stored
  /\ UNCHANGED <<support, targets, lists, sources>>

Finish ==
  /\ phase = "reply" /\ Len(labels) = MaxQuestions
  /\ phase' = "ready"
  /\ UNCHANGED <<support, targets, lists, hits, sources, labels, stored>>

LabelLists == {<<>>} \cup {<<i>> : i \in 1 .. Cardinality(Chunks) + 1}
                \cup {<<i, 1>> : i \in 2 .. Cardinality(Chunks) + 1}

GroundingNext ==
  \/ \E described \in BOOLEAN : Match(described)
  \/ \E vec \in Vectors, key \in Ranked : Retrieve(vec, key)
  \/ Build
  \/ \E ls \in LabelLists : Question(ls)
  \/ Finish

GroundingSpec == GroundingInit /\ [][GroundingNext]_groundingVars

-----------------------------------------------------------------------------
(* Properties *)

\* The place of c in a list, behind everything when it is not there.
Place(s, c) == IF c \in ToSet(s) THEN RankIn(s, c) ELSE Len(s) + 1

Answered == Last(hits)

\* Fusion respects both retrievers: a passage neither of them puts behind another, and
\* one puts ahead of it, is not left behind it by the search (search, RRF).
FusionKeepsDominance ==
  lists # NoLists /\ hits # <<>> =>
    \A a \in Chunks, b \in ToSet(Answered) :
      LET v == Retrieved(lists.vec)
      IN  /\ Place(v, a) <= Place(v, b) /\ Place(lists.key, a) <= Place(lists.key, b)
          /\ Place(v, a) < Place(v, b) \/ Place(lists.key, a) < Place(lists.key, b)
          => a \in ToSet(Answered) /\ RankIn(Answered, a) < RankIn(Answered, b)

\* A query the corpus covers is answered, unless TopK passages that are not close enough
\* are all known to the keyword search; and an answer has a close passage (search).
OnlyKeywordsHideAHit ==
  lists # NoLists /\ hits # <<>> =>
    LET close == {i \in DOMAIN lists.vec : lists.vec[i].sim >= Floor}
        rest  == {c \in ToSet(lists.key) : Similarity(lists.vec, c) < Floor}
    IN  /\ Answered = <<>> /\ close # {} => Cardinality(rest) >= TopK
        /\ Answered # <<>> => close # {}

Asked == phase = "reply" /\ hits # <<>>

\* The requirements the interview is to probe come before the skills the resume already
\* shows: if a gap the corpus covers has no passage in the prompt, every passage there
\* answers some gap (build_context).
SkillsGoFirst ==
  Asked =>
    LET gaps == 1 .. Len(targets) - Len(Skills)
    IN  \A g \in gaps :
          hits[g] # <<>> /\ ToSet(hits[g]) \cap ToSet(sources) = {} =>
            ToSet(sources) \subseteq UNION {ToSet(hits[i]) : i \in gaps}

\* The budget is shared out in turns: a target gets a second passage of its own only when
\* every target the corpus covers has its best one in the prompt (build_context).
SharedInTurns ==
  Asked =>
    LET firsts == {hits[t][1] : t \in {u \in DOMAIN hits : hits[u] # <<>>}}
    IN  ToSet(sources) \subseteq firsts \/ firsts \subseteq ToSet(sources)

TokensTo(s) ==
  LET sum[n \in 0 .. Len(s)] == IF n = 0 THEN 0 ELSE sum[n - 1] + Cost[s[n]]
  IN  sum

Tokens(s) == TokensTo(s)[Len(s)]

\* The prompt never exceeds the budget, and nothing that would come next fits: the
\* passages left out are behind one that does not (build_context).
BudgetIsKept ==
  Asked =>
    LET left == (UNION {ToSet(h) : h \in ToSet(hits)}) \ ToSet(sources)
    IN  /\ Tokens(sources) <= Budget
        /\ left # {} => \E b \in left : Tokens(sources) + Cost[b] > Budget

\* How the prompt's budget is shared out among the requirements and skills.
BudgetIsShared == SkillsGoFirst /\ SharedInTurns /\ BudgetIsKept

\* A question's sources are those it names, each of them a passage that was in the
\* prompt; a session that is ready has no question that names another (chunk_ids_for).
CitationsAreTheNamed ==
  \A q \in DOMAIN stored :
    sources # <<>> => /\ Len(stored[q]) = Len(labels[q])
                      /\ \A i \in DOMAIN stored[q] : stored[q][i] = sources[labels[q][i]]

\* The requirements searched for are those that no skill supports, each once, the least
\* supported first (match, gaps).
GapsAreUnsupported ==
  phase # "match" /\ Len(targets) # Len(Skills) =>
    LET n    == Len(targets) - Len(Skills)
        bare == {i \in DOMAIN Requirements : \A s \in DOMAIN Skills : support[i][s] < Supports}
    IN  \E at \in Bijection(1 .. n, bare) :
          /\ \A k \in 1 .. n : targets[k] = Requirements[at[k]]
          /\ \A j, k \in 1 .. n : j < k =>
               \A s \in DOMAIN Skills : \E r \in DOMAIN Skills : support[at[j]][s] <= support[at[k]][r]

\* What holds from the search to the stored questions: types, no covered query that is
\* dropped for another reason than the keywords, requirements that are real gaps, and
\* citations of passages that were shown.
GroundingInv == GroundingTypes /\ OnlyKeywordsHideAHit /\ GapsAreUnsupported /\ CitationsAreTheNamed

=============================================================================
