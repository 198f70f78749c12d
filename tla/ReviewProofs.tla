---------------------------- MODULE ReviewProofs ----------------------------
(***************************************************************************)
(* Theorems about Review, for any number of recruiters and evaluations.     *)
(***************************************************************************)
EXTENDS Review, TLAPS

-----------------------------------------------------------------------------
(* Types.                                                                   *)

LEMMA RollupType ==
  ASSUME NEW table \in Tables
  PROVE  Rollup(table) \in Reports
  <1> DEFINE scores == [e \in Evaluations |-> table[e].score]
  <1>1. scores \in [Evaluations -> Scores]
    BY DEF Tables, Rows
  <1> QED BY <1>1 DEF Rollup, RollupOf, Reports

LEMMA NoOverrideType == NoOverride \in Overrides
  <1>1. /\ (CHOOSE e \in Evaluations : TRUE) \in Evaluations
        /\ (CHOOSE s \in Scores : TRUE) \in Scores
    BY ReviewAssumption
  <1>2. BlankRow \in Rows
    BY <1>1 DEF BlankRow, Rows
  <1>3. BlankTable \in Tables /\ BlankRow.score \in Scores
    BY <1>2 DEF BlankTable, Tables, Rows
  <1> QED BY <1>1, <1>2, <1>3, RollupType DEF NoOverride, Overrides

LEMMA OverriddenType ==
  ASSUME TypeOK, NEW r \in Recruiters, NEW found \in Rows
  PROVE  /\ Overridden(r, found) \in Rows
         /\ Overridden(r, found).flagged => found.flagged
  <1>1. tx[r].loaded \in Rows /\ tx[r].given \in Scores
    BY DEF TypeOK, Overrides
  <1> QED BY <1>1 DEF Overridden, Written, Rows

LEMMA VisibleType ==
  ASSUME TypeOK, NEW r \in Recruiters
  PROVE  /\ Visible(r) \in Tables
         /\ \A e \in Evaluations : Visible(r)[e].flagged => evals[e].flagged
  <1>1. tx[r].on \in Evaluations /\ evals \in Tables
    BY DEF TypeOK, Overrides
  <1>2. evals[tx[r].on] \in Rows
    BY <1>1 DEF Tables
  <1> QED BY <1>1, <1>2, OverriddenType DEF Visible, Tables

LEMMA RebuiltType ==
  ASSUME TypeOK, NEW r \in Recruiters
  PROVE  Rebuilt(r) \in Reports
  <1>1. Rollup(tx[r].rows) \in Reports /\ report \in Reports
    BY RollupType DEF TypeOK, Overrides
  <1> HIDE DEF Rollup
  <1> QED BY <1>1 DEF Rebuilt, Written, Reports

\* What an override does with its own copies.
LEMMA CopiesType ==
  ASSUME TypeOK, NEW r \in Recruiters
  PROVE  /\ ReadReport(r) => tx' \in [Recruiters -> Overrides]
         /\ ReadRows(r) => tx' \in [Recruiters -> Overrides]
         /\ Release(r) => tx' \in [Recruiters -> Overrides]
         /\ \A e \in Evaluations, s \in Scores :
              Load(r, e, s) => tx' \in [Recruiters -> Overrides]
  <1>1. tx \in [Recruiters -> Overrides] /\ tx[r] \in Overrides
    BY DEF TypeOK
  <1>2. ReadReport(r) => tx' \in [Recruiters -> Overrides]
    BY <1>1 DEF ReadReport, Overrides, TypeOK
  <1>3. ReadRows(r) => tx' \in [Recruiters -> Overrides]
    BY <1>1, VisibleType DEF ReadRows, Read, Overrides
  <1>4. Release(r) => tx' \in [Recruiters -> Overrides]
    BY <1>1, NoOverrideType DEF Release
  <1>5. ASSUME NEW e \in Evaluations, NEW s \in Scores, Load(r, e, s)
        PROVE  tx' \in [Recruiters -> Overrides]
    <2>1. evals[e] \in Rows
      BY DEF TypeOK, Tables
    <2> QED BY <1>1, <1>5, <2>1 DEF Load, Overrides
  <1> QED BY <1>2, <1>3, <1>4, <1>5

LEMMA OverrideType ==
  ASSUME TypeOK, NEW r \in Recruiters, Override(r)
  PROVE  TypeOK'
  <1>1. UNCHANGED reading
    BY DEF Override, Load, FlushOverride, ReadReport, ReadRows, FlushReport, Commit, Abort
  <1>2. pc' \in [Recruiters -> {"idle", "loaded", "flushed", "rebuild", "rolled_up", "written"}]
    BY DEF Override, Load, FlushOverride, ReadReport, ReadRows, FlushReport, Commit, Abort,
       Goto, TypeOK
  <1>3. CASE \/ \E e \in Evaluations, s \in Scores : Load(r, e, s)
             \/ FlushOverride(r) \/ ReadReport(r) \/ ReadRows(r) \/ FlushReport(r)
    <2>1. tx' \in [Recruiters -> Overrides]
      BY <1>3, CopiesType DEF FlushOverride, FlushReport, TypeOK
    <2>2. UNCHANGED stored /\ editor' \in Recruiters \cup {Nobody}
          /\ holder' \in [Evaluations -> Recruiters \cup {Nobody}]
      BY <1>3 DEF Load, FlushOverride, ReadReport, ReadRows, FlushReport, TypeOK, stored
    <2> QED BY <1>1, <1>2, <2>1, <2>2 DEF TypeOK, stored, reading
  <1>4. CASE Commit(r) \/ Abort(r)
    <2>1. Release(r)
      BY <1>4 DEF Commit, Abort
    <2>2. tx' \in [Recruiters -> Overrides] /\ editor' \in Recruiters \cup {Nobody}
          /\ holder' \in [Evaluations -> Recruiters \cup {Nobody}]
      BY <2>1, CopiesType DEF Release, TypeOK
    <2>3. evals' \in Tables /\ report' \in Reports /\ state' \in States /\ edited' \in BOOLEAN
      <3>1. CASE Commit(r)
        BY <3>1, VisibleType, RebuiltType DEF Commit, TypeOK, States
      <3>2. CASE Abort(r)
        BY <3>2 DEF Abort, TypeOK, stored
      <3> QED BY <1>4, <3>1, <3>2
    <2> QED BY <1>1, <1>2, <2>2, <2>3 DEF TypeOK, reading
  <1> QED BY <1>3, <1>4 DEF Override

LEMMA ShowType ==
  ASSUME TypeOK, NEW v \in Readers, Show(v)
  PROVE  TypeOK' /\ UNCHANGED <<stored, working>>
  <1>1. UNCHANGED <<stored, working>>
    BY DEF Show, OpenDetail, OpenReport, ReadAnswers, ReadNumbers, ReadLabel, Close
  <1>2. at' \in [Readers -> {"idle", "answers", "report", "label", "shown"}]
    BY DEF Show, OpenDetail, OpenReport, ReadAnswers, ReadNumbers, ReadLabel, Close, Turn,
       TypeOK
  <1>3. view' \in [Readers -> Views]
    <2>1. NoView \in Views /\ view \in [Readers -> Views] /\ view[v] \in Views
      BY DEF NoView, Views, States, TypeOK
    <2>2. state \in States /\ edited \in BOOLEAN /\ Cleared \in BOOLEAN
          /\ WasHumanReviewed \in BOOLEAN
      BY DEF TypeOK, Cleared, WasHumanReviewed
    <2>3. CASE OpenDetail(v) \/ OpenReport(v)
      BY <2>1, <2>2, <2>3 DEF OpenDetail, OpenReport, Views
    <2>4. CASE ReadAnswers(v)
      BY <2>1, <2>2, <2>4 DEF ReadAnswers, Views
    <2>5. CASE ReadNumbers(v)
      BY <2>1, <2>2, <2>5 DEF ReadNumbers, Views
    <2>6. CASE ReadLabel(v)
      BY <2>1, <2>2, <2>6 DEF ReadLabel, Views
    <2>7. CASE Close(v)
      BY <2>1, <2>7 DEF Close
    <2> QED BY <2>3, <2>4, <2>5, <2>6, <2>7 DEF Show
  <1> QED BY <1>1, <1>2, <1>3 DEF TypeOK, stored, working

LEMMA TypeStep ==
  ASSUME TypeOK, [Next]_vars
  PROVE  TypeOK'
  <1>1. CASE UNCHANGED vars
    BY <1>1 DEF vars, stored, working, reading, TypeOK
  <1> QED BY <1>1, OverrideType, ShowType DEF Next

LEMMA InitType == Init => TypeOK
  <1> SUFFICES ASSUME Init PROVE TypeOK
    OBVIOUS
  <1>1. evals \in Tables
    BY DEF Init, Tables, Rows
  <1>2. report \in Reports
    BY <1>1, RollupType DEF Init
  <1>3. NoView \in Views
    BY DEF NoView, Views, States
  <1> QED BY <1>1, <1>2, <1>3, NoOverrideType DEF Init, TypeOK, States

\* Overrides and readers never leave a row of another shape, nor a report that is no
\* rollup's, whatever they read in between.
THEOREM TypeCorrect == Spec => []TypeOK
  BY InitType, TypeStep, PTL DEF Spec

-----------------------------------------------------------------------------
(* Completed means cleared.                                                 *)

\* Only a commit writes what is stored.
LEMMA StoredStep ==
  ASSUME TypeOK, [Next]_vars
  PROVE  UNCHANGED stored \/ \E r \in Recruiters : Commit(r)
  <1>1. ASSUME NEW r \in Recruiters, Override(r) PROVE UNCHANGED stored \/ Commit(r)
    BY <1>1 DEF Override, Load, FlushOverride, ReadReport, ReadRows, FlushReport, Abort
  <1> QED BY <1>1, ShowType DEF Next, vars

\* Nobody else touches an override's place and copies.
LEMMA OwnStep ==
  ASSUME TypeOK, [Next]_vars, NEW r \in Recruiters, ~Override(r)
  PROVE  pc'[r] = pc[r] /\ tx'[r] = tx[r]
  <1>1. ASSUME NEW q \in Recruiters \ {r}, Override(q)
        PROVE  pc'[r] = pc[r] /\ tx'[r] = tx[r]
    BY <1>1 DEF Override, Load, FlushOverride, ReadReport, ReadRows, FlushReport,
       Commit, Abort, Release, Goto, TypeOK
  <1> QED BY <1>1, ShowType DEF Next, vars, working

\* A flag is only ever taken down.
LEMMA FlagsGoDown ==
  ASSUME TypeOK, [Next]_vars
  PROVE  \A e \in Evaluations : evals'[e].flagged => evals[e].flagged
  BY StoredStep, VisibleType DEF Commit, stored

\* So what an override that found none flagged read still holds, its own row
\* included, when it comes to commit.
ClearedInv ==
  /\ CompletedMeansCleared
  /\ \A r \in Recruiters :
       pc[r] \in {"rolled_up", "written"} /\ ~StillFlagged(tx[r].rows)
         => \A e \in Evaluations : ~Visible(r)[e].flagged

LEMMA ClearedStep ==
  ASSUME TypeOK, ClearedInv, [Next]_vars
  PROVE  ClearedInv'
  <1>1. CompletedMeansCleared'
    <2>1. CASE state' = state
      BY <2>1, FlagsGoDown DEF ClearedInv, CompletedMeansCleared, Cleared
    <2>2. ASSUME NEW r \in Recruiters, Commit(r), state' # state
          PROVE  \A e \in Evaluations : ~evals'[e].flagged
      BY <2>2 DEF Commit, Goto, ClearedInv
    <2> QED BY <2>1, <2>2, StoredStep DEF CompletedMeansCleared, Cleared, stored
  <1>2. ASSUME NEW r \in Recruiters,
               pc'[r] \in {"rolled_up", "written"}, ~StillFlagged(tx'[r].rows),
               NEW e \in Evaluations
        PROVE  ~Visible(r)'[e].flagged
    <2>1. CASE ReadRows(r)
      <3>1. tx'[r].rows = Visible(r) /\ tx'[r].on = tx[r].on /\ tx'[r].loaded = tx[r].loaded
            /\ tx'[r].given = tx[r].given
        BY <2>1 DEF ReadRows, Read, TypeOK, Overrides
      <3>2. Visible(r)' = Visible(r)
        BY <2>1, <3>1 DEF ReadRows, Visible, Overridden, stored
      <3> QED BY <1>2, <3>1, <3>2 DEF StillFlagged
    <2>2. CASE ~ReadRows(r)
      <3>1. pc[r] \in {"rolled_up", "written"} /\ tx'[r] = tx[r]
        <4>1. CASE Override(r)
          BY <1>2, <2>2, <4>1 DEF Override, Load, FlushOverride, ReadReport, FlushReport,
             Commit, Abort, Goto, TypeOK
        <4> QED BY <1>2, <4>1, OwnStep
      <3>2. ~Visible(r)[e].flagged
        BY <1>2, <3>1 DEF ClearedInv
      <3>3. /\ Visible(r) = [evals EXCEPT ![tx[r].on] = Overridden(r, evals[tx[r].on])]
            /\ Visible(r)' = [evals' EXCEPT ![tx[r].on] = Overridden(r, evals'[tx[r].on])]
        BY <3>1 DEF Visible, Overridden
      <3>4. /\ evals \in Tables /\ evals' \in Tables
            /\ tx[r].on \in Evaluations /\ tx[r].loaded \in Rows
        BY TypeStep DEF TypeOK, Overrides
      <3>5. CASE e # tx[r].on
        BY FlagsGoDown, <3>2, <3>3, <3>4, <3>5 DEF Tables
      <3>6. CASE e = tx[r].on
        <4>1. /\ Visible(r)[e] = Overridden(r, evals[e])
              /\ Visible(r)'[e] = Overridden(r, evals'[e])
          BY <3>3, <3>4, <3>6 DEF Tables
        <4>2. \A found : Overridden(r, found).flagged
                           = Written(found.flagged, tx[r].loaded.flagged, FALSE)
          BY DEF Overridden
        <4>3. CASE tx[r].loaded.flagged = FALSE
          BY FlagsGoDown, <3>2, <4>1, <4>2, <4>3 DEF Written
        <4>4. CASE tx[r].loaded.flagged # FALSE
          BY <4>1, <4>2, <4>4 DEF Written
        <4> QED BY <4>3, <4>4
      <3> QED BY <3>5, <3>6
    <2> QED BY <2>1, <2>2
  <1> QED BY <1>1, <1>2 DEF ClearedInv

LEMMA InitCleared == Init => ClearedInv
  BY DEF Init, ClearedInv, CompletedMeansCleared

-----------------------------------------------------------------------------
(* What is shown is true.                                                   *)

\* A name, once an evaluation carries one, is only ever replaced by another; so an
\* override that loaded a name finds one when it writes.
Named(e) == evals[e].by # Nobody

NamedInv ==
  /\ edited => WasHumanReviewed
  /\ \A r \in Recruiters :
       pc[r] # "idle" /\ tx[r].loaded.by # Nobody => Named(tx[r].on)

\* A reader has seen something that still holds: flags stay down, names stay.
ViewInv(v) ==
  /\ at[v] = "answers" /\ view[v].state = "COMPLETED" => Cleared
  /\ at[v] = "answers" => ~view[v].flagged
  /\ at[v] \in {"report", "label", "shown"} /\ view[v].state = "COMPLETED"
       => ~view[v].flagged
  /\ at[v] = "label" /\ view[v].edited => WasHumanReviewed
  /\ at[v] = "shown" /\ view[v].edited => view[v].labelled
  /\ at[v] = "idle" => view[v] = NoView

\* What an override writes carries a name, its own if there was none.
LEMMA CommitNames ==
  ASSUME TypeOK, NamedInv, NEW r \in Recruiters, Commit(r)
  PROVE  /\ \A e \in Evaluations : Named(e) => Named(e)'
         /\ WasHumanReviewed'
  <1>1. /\ evals' = [evals EXCEPT ![tx[r].on] = Overridden(r, evals[tx[r].on])]
        /\ pc[r] = "written"
    BY DEF Commit, Visible, Goto
  <1>2. evals \in Tables /\ tx[r].on \in Evaluations /\ r # Nobody
    BY ReviewAssumption DEF TypeOK, Overrides
  <1>3. Overridden(r, evals[tx[r].on]).by # Nobody
    BY <1>1, <1>2 DEF Overridden, Written, NamedInv, Named
  <1>4. evals'[tx[r].on].by # Nobody
    BY <1>1, <1>2, <1>3 DEF Tables
  <1>5. \A e \in Evaluations : Named(e) => Named(e)'
    BY <1>1, <1>2, <1>4 DEF Named, Tables
  <1>6. \E e \in Evaluations : evals'[e].by # Nobody
    BY <1>2, <1>4
  <1> QED BY <1>5, <1>6 DEF WasHumanReviewed

LEMMA NamesStay ==
  ASSUME TypeOK, NamedInv, [Next]_vars
  PROVE  /\ \A e \in Evaluations : Named(e) => Named(e)'
         /\ WasHumanReviewed => WasHumanReviewed'
  <1>1. \A e \in Evaluations : Named(e) => Named(e)'
    BY StoredStep, CommitNames DEF stored, Named
  <1> QED BY <1>1 DEF Named, WasHumanReviewed

LEMMA NamedStep ==
  ASSUME TypeOK, NamedInv, [Next]_vars
  PROVE  NamedInv'
  <1>1. edited' => WasHumanReviewed'
    BY StoredStep, CommitNames, NamesStay DEF NamedInv, stored
  <1>2. ASSUME NEW r \in Recruiters, pc'[r] # "idle", tx'[r].loaded.by # Nobody
        PROVE  evals'[tx'[r].on].by # Nobody
    <2>1. tx[r] \in Overrides /\ tx[r].on \in Evaluations
      BY DEF TypeOK, Overrides
    <2>2. CASE \E e \in Evaluations, s \in Scores : Load(r, e, s)
      <3>1. PICK e \in Evaluations : \E s \in Scores : Load(r, e, s)
        BY <2>2
      <3>2. tx'[r].on = e /\ tx'[r].loaded = evals[e] /\ evals' = evals
        BY <2>1, <3>1 DEF Load, stored, TypeOK, Overrides
      <3> QED BY <1>2, <3>2
    <2>3. CASE Commit(r) \/ Abort(r)
      BY <1>2, <2>3 DEF Commit, Abort, Goto, TypeOK
    <2>4. CASE FlushOverride(r) \/ ReadReport(r) \/ ReadRows(r) \/ FlushReport(r)
      <3>1. tx'[r].on = tx[r].on /\ tx'[r].loaded = tx[r].loaded /\ evals' = evals
        BY <2>1, <2>4 DEF FlushOverride, ReadReport, ReadRows, FlushReport, stored, TypeOK,
           Overrides
      <3>2. pc[r] # "idle"
        BY <2>4 DEF FlushOverride, ReadReport, ReadRows, FlushReport, Goto
      <3> QED BY <1>2, <3>1, <3>2 DEF NamedInv, Named
    <2>5. CASE ~Override(r)
      BY <1>2, <2>1, <2>5, OwnStep, NamesStay DEF NamedInv, Named
    <2> QED BY <2>2, <2>3, <2>4, <2>5 DEF Override
  <1> QED BY <1>1, <1>2 DEF NamedInv, Named

LEMMA ViewStep ==
  ASSUME TypeOK, ClearedInv, NamedInv, NEW v \in Readers, ViewInv(v), [Next]_vars
  PROVE  ViewInv(v)'
  <1>0. view[v] \in Views /\ view \in [Readers -> Views] /\ v \in DOMAIN at
    BY DEF TypeOK
  <1>1. CASE UNCHANGED <<at[v], view[v]>>
    <2>1. Cleared => Cleared'
      BY FlagsGoDown DEF Cleared
    <2>2. WasHumanReviewed => WasHumanReviewed'
      BY NamesStay
    <2> QED BY <1>1, <2>1, <2>2 DEF ViewInv
  <1>2. CASE OpenDetail(v) \/ OpenReport(v)
    <2>1. /\ view'[v].state = state /\ view'[v].flagged = FALSE /\ Cleared' = Cleared
          /\ at'[v] \in {"answers", "report"}
      BY <1>0, <1>2 DEF OpenDetail, OpenReport, Turn, ViewInv, NoView, Views, Cleared, stored
    <2> QED BY <2>1 DEF ViewInv, ClearedInv, CompletedMeansCleared
  <1>3. CASE ReadAnswers(v)
    <2>1. /\ view'[v].state = view[v].state /\ view'[v].flagged = ~Cleared
          /\ at[v] = "answers" /\ at'[v] = "report"
      BY <1>0, <1>3 DEF ReadAnswers, Turn, Views
    <2> QED BY <2>1 DEF ViewInv
  <1>4. CASE ReadNumbers(v)
    <2>1. /\ view'[v].state = view[v].state /\ view'[v].flagged = view[v].flagged
          /\ view'[v].edited = edited /\ at[v] = "report" /\ at'[v] = "label"
          /\ WasHumanReviewed' = WasHumanReviewed
      BY <1>0, <1>4 DEF ReadNumbers, Turn, Views, stored, WasHumanReviewed
    <2> QED BY <2>1 DEF ViewInv, NamedInv
  <1>5. CASE ReadLabel(v)
    <2>1. /\ view'[v].state = view[v].state /\ view'[v].flagged = view[v].flagged
          /\ view'[v].edited = view[v].edited /\ view'[v].labelled = WasHumanReviewed
          /\ at[v] = "label" /\ at'[v] = "shown"
      BY <1>0, <1>5 DEF ReadLabel, Turn, Views
    <2> QED BY <2>1 DEF ViewInv
  <1>6. CASE Close(v)
    BY <1>0, <1>6 DEF Close, Turn, ViewInv
  <1>7. CASE ~Show(v)
    <2>1. \A w \in Readers \ {v} : Show(w) => UNCHANGED <<at[v], view[v]>>
      BY <1>0 DEF Show, OpenDetail, OpenReport, ReadAnswers, ReadNumbers, ReadLabel, Close,
         Turn, TypeOK
    <2>2. \A r \in Recruiters : Override(r) => UNCHANGED reading
      BY DEF Override, Load, FlushOverride, ReadReport, ReadRows, FlushReport, Commit, Abort
    <2> QED BY <1>1, <1>7, <2>1, <2>2 DEF Next, vars, reading
  <1> QED BY <1>2, <1>3, <1>4, <1>5, <1>6, <1>7 DEF Show

\* However overrides interleave, fail or repeat, and however their commits fall
\* between a reader's selects: a session that reads COMPLETED shows no flagged
\* answer, and what they changed is labelled.
THEOREM ViewsTrue == Spec => []ViewsAreTrue
  <1> DEFINE Inv == ClearedInv /\ NamedInv /\ \A v \in Readers : ViewInv(v)
  <1>1. Init => Inv
    BY InitCleared DEF Init, NamedInv, ViewInv
  <1>2. TypeOK /\ Inv /\ [Next]_vars => Inv'
    BY ClearedStep, NamedStep, ViewStep
  <1>3. Inv => ViewsAreTrue
    BY DEF ClearedInv, ViewInv, ViewsAreTrue
  <1> QED BY <1>1, <1>2, <1>3, TypeCorrect, PTL DEF Spec

-----------------------------------------------------------------------------
(* An undisturbed override is reported.                                     *)

WritesNothing(r) == tx[r].loaded = [score |-> tx[r].given, flagged |-> FALSE, by |-> r]

\* From its flush to its commit, an override holds the row it writes, so nobody else
\* writes it; or it writes nothing.
HoldsOrWritesNothing(r) ==
  pc[r] \in {"flushed", "rebuild", "rolled_up", "written"}
    => holder[tx[r].on] = r \/ WritesNothing(r)

\* What it summed is then what it leaves behind.
SummedItsOwn(r) ==
  pc[r] \in {"rolled_up", "written"} /\ holder[tx[r].on] = r
    => tx[r].rows[tx[r].on] = Overridden(r, evals[tx[r].on])

HeldInv ==
  /\ holder \in [Evaluations -> Recruiters \cup {Nobody}]
  /\ \A r \in Recruiters : HoldsOrWritesNothing(r) /\ SummedItsOwn(r)

LEMMA NothingWritten ==
  ASSUME NEW r \in Recruiters, WritesNothing(r), NEW found \in Rows
  PROVE  Overridden(r, found) = found
  BY DEF WritesNothing, Overridden, Written, Rows

\* A commit writes one row, and only if it holds it.
LEMMA CommitWritesItsRow ==
  ASSUME TypeOK, HeldInv, NEW q \in Recruiters, Commit(q), NEW e \in Evaluations, holder[e] # q
  PROVE  evals'[e] = evals[e]
  <1>1. evals' = [evals EXCEPT ![tx[q].on] = Overridden(q, evals[tx[q].on])]
    BY DEF Commit, Visible
  <1>2. evals \in Tables /\ tx[q].on \in Evaluations /\ evals[e] \in Rows
    BY DEF TypeOK, Overrides, Tables
  <1>3. CASE e # tx[q].on
    BY <1>1, <1>2, <1>3 DEF Tables
  <1>4. CASE e = tx[q].on
    <2>1. WritesNothing(q)
      BY <1>4 DEF HeldInv, HoldsOrWritesNothing, Commit, Goto
    <2>2. Overridden(q, evals[e]) = evals[e]
      BY <1>2, <2>1, NothingWritten
    <2> QED BY <1>1, <1>2, <1>4, <2>2 DEF Tables
  <1> QED BY <1>3, <1>4

\* A step of one override changes neither the row another one holds nor its holder.
LEMMA OthersKeepTheirRow ==
  ASSUME TypeOK, HeldInv, NEW q \in Recruiters, Override(q),
         NEW e \in Evaluations, NEW r \in Recruiters, r # q
  PROVE  /\ holder'[e] = r <=> holder[e] = r
         /\ holder[e] = r => evals'[e] = evals[e]
  <1>1. CASE Commit(q) \/ Abort(q)
    <2>1. holder'[e] = IF holder[e] = q THEN Nobody ELSE holder[e]
      BY <1>1 DEF Commit, Abort, Release
    <2>2. holder'[e] = r <=> holder[e] = r
      BY <2>1, ReviewAssumption
    <2>3. holder[e] = r => evals'[e] = evals[e]
      BY <1>1, CommitWritesItsRow DEF Abort, stored
    <2> QED BY <2>2, <2>3
  <1>2. CASE FlushOverride(q)
    BY <1>2, ReviewAssumption DEF FlushOverride, HeldInv, stored
  <1>3. CASE \/ \E d \in Evaluations, s \in Scores : Load(q, d, s)
             \/ ReadReport(q) \/ ReadRows(q) \/ FlushReport(q)
    BY <1>3 DEF Load, ReadReport, ReadRows, FlushReport, stored
  <1> QED BY <1>1, <1>2, <1>3 DEF Override

LEMMA HeldStep ==
  ASSUME TypeOK, HeldInv, [Next]_vars
  PROVE  HeldInv'
  <1>1. CASE UNCHANGED <<stored, working>>
    BY <1>1 DEF stored, working, HeldInv, HoldsOrWritesNothing, WritesNothing, SummedItsOwn,
       Overridden
  <1>2. ASSUME NEW q \in Recruiters, Override(q)
        PROVE  HeldInv'
    <2>1. holder' \in [Evaluations -> Recruiters \cup {Nobody}]
      <3>1. CASE Commit(q) \/ Abort(q)
        BY <3>1 DEF Commit, Abort, Release, HeldInv
      <3>2. CASE ~(Commit(q) \/ Abort(q))
        BY <1>2, <3>2 DEF Override, Load, FlushOverride, ReadReport, ReadRows, FlushReport, HeldInv
      <3> QED BY <3>1, <3>2
    <2>2. ASSUME NEW r \in Recruiters, r # q
          PROVE  HoldsOrWritesNothing(r)' /\ SummedItsOwn(r)'
      <3>1. pc'[r] = pc[r] /\ tx'[r] = tx[r]
        BY <1>2, <2>2 DEF Override, Load, FlushOverride, ReadReport, ReadRows, FlushReport,
           Commit, Abort, Release, Goto, TypeOK
      <3>2. tx[r].on \in Evaluations
        BY DEF TypeOK, Overrides
      <3>3. /\ holder'[tx[r].on] = r <=> holder[tx[r].on] = r
            /\ holder[tx[r].on] = r => evals'[tx[r].on] = evals[tx[r].on]
        BY <1>2, <2>2, <3>2, OthersKeepTheirRow
      <3>4. HoldsOrWritesNothing(r)'
        BY <3>1, <3>3 DEF HeldInv, HoldsOrWritesNothing, WritesNothing
      <3>5. SummedItsOwn(r)'
        BY <3>1, <3>3 DEF HeldInv, SummedItsOwn, Overridden
      <3> QED BY <3>4, <3>5
    <2>3. HoldsOrWritesNothing(q)' /\ SummedItsOwn(q)'
      <3>1. tx[q] \in Overrides /\ q \in DOMAIN pc /\ q \in DOMAIN tx
        BY DEF TypeOK
      <3>2. CASE \/ Commit(q) \/ Abort(q) \/ \E e \in Evaluations, s \in Scores : Load(q, e, s)
        <4>1. pc'[q] \in {"idle", "loaded"}
          BY <3>1, <3>2 DEF Commit, Abort, Load, Goto
        <4> QED BY <4>1 DEF HoldsOrWritesNothing, SummedItsOwn
      <3>3. CASE FlushOverride(q)
        <4>1. pc'[q] = "flushed" /\ tx' = tx /\ tx[q].on \in Evaluations
          BY <3>1, <3>3 DEF FlushOverride, Goto, Overrides
        <4>2. holder'[tx[q].on] = q \/ WritesNothing(q)
          BY <3>3, <4>1 DEF FlushOverride, WritesNothing, HeldInv
        <4> QED BY <4>1, <4>2 DEF HoldsOrWritesNothing, SummedItsOwn, WritesNothing
      <3>4. CASE ReadReport(q)
        <4>1. pc[q] = "flushed" /\ pc'[q] = "rebuild" /\ holder' = holder
          BY <3>1, <3>4 DEF ReadReport, Goto
        <4>2. tx'[q].on = tx[q].on /\ tx'[q].given = tx[q].given /\ tx'[q].loaded = tx[q].loaded
          BY <3>1, <3>4 DEF ReadReport, Overrides
        <4> QED BY <4>1, <4>2 DEF HeldInv, HoldsOrWritesNothing, SummedItsOwn, WritesNothing
      <3>5. CASE ReadRows(q)
        <4>1. /\ pc[q] = "rebuild" /\ pc'[q] = "rolled_up" /\ holder' = holder /\ evals' = evals
          BY <3>1, <3>5 DEF ReadRows, Goto, stored
        <4>2. /\ tx'[q].on = tx[q].on /\ tx'[q].given = tx[q].given /\ tx'[q].loaded = tx[q].loaded
              /\ tx'[q].rows = Visible(q)
          BY <3>1, <3>5 DEF ReadRows, Read, Overrides
        <4>3. Visible(q)[tx[q].on] = Overridden(q, evals[tx[q].on])
          BY <3>1 DEF Visible, TypeOK, Tables, Overrides
        <4> QED
          BY <4>1, <4>2, <4>3
             DEF HeldInv, HoldsOrWritesNothing, SummedItsOwn, WritesNothing, Overridden
      <3>6. CASE FlushReport(q)
        <4>1. pc[q] = "rolled_up" /\ pc'[q] = "written" /\ UNCHANGED <<holder, evals, tx>>
          BY <3>1, <3>6 DEF FlushReport, Goto, stored
        <4> QED
          BY <4>1 DEF HeldInv, HoldsOrWritesNothing, SummedItsOwn, WritesNothing, Overridden
      <3> QED BY <1>2, <3>2, <3>3, <3>4, <3>5, <3>6 DEF Override
    <2> QED BY <2>1, <2>2, <2>3 DEF HeldInv
  <1> QED BY <1>1, <1>2, ShowType DEF Next, vars

LEMMA UndisturbedReports ==
  ASSUME TypeOK, HeldInv, ClearedInv, ClearedInv',
         NEW r \in Recruiters, Commit(r), Undisturbed(r)
  PROVE  /\ report' = RollupOf(evals', Evaluations)
         /\ state' = "COMPLETED" <=> Cleared'
  <1> DEFINE on == tx[r].on
  <1>1. pc[r] = "written" /\ evals' = Visible(r) /\ report' = Rebuilt(r)
        /\ state' = IF StillFlagged(tx[r].rows) THEN state ELSE "COMPLETED"
    BY DEF Commit, Goto
  <1>2. evals \in Tables /\ tx[r].rows \in Tables /\ on \in Evaluations /\ tx[r].loaded \in Rows
    BY DEF TypeOK, Overrides
  <1>3. Visible(r) = [evals EXCEPT ![on] = Overridden(r, evals[on])]
    BY DEF Visible
  <1>4. tx[r].rows[on] = Overridden(r, evals[on])
    <2>1. CASE holder[on] = r
      BY <1>1, <2>1 DEF HeldInv, SummedItsOwn
    <2>2. CASE holder[on] # r
      <3>1. WritesNothing(r) /\ evals[on] = tx[r].loaded /\ tx[r].rows[on] = tx[r].loaded
        BY <1>1, <2>2 DEF HeldInv, HoldsOrWritesNothing, Undisturbed
      <3> QED BY <1>2, <3>1, NothingWritten
    <2> QED BY <2>1, <2>2
  <1>5. tx[r].rows = evals'
    <2>1. \A e \in Evaluations : tx[r].rows[e] = Visible(r)[e]
      BY <1>2, <1>3, <1>4 DEF Undisturbed, Tables
    <2>2. DOMAIN tx[r].rows = Evaluations /\ DOMAIN Visible(r) = Evaluations
          /\ tx[r].rows = [e \in Evaluations |-> tx[r].rows[e]]
          /\ Visible(r) = [e \in Evaluations |-> Visible(r)[e]]
      BY <1>2, <1>3 DEF Tables
    <2> QED BY <1>1, <2>1, <2>2
  <1>6. report' = RollupOf(evals', Evaluations)
    <2>1. report' = [overall |-> Rollup(tx[r].rows).overall, per_topic |-> Rollup(tx[r].rows).per_topic]
      BY <1>1 DEF Rebuilt, Written, Undisturbed
    <2>2. Rollup(tx[r].rows)
            = [overall |-> Rollup(tx[r].rows).overall, per_topic |-> Rollup(tx[r].rows).per_topic]
      BY DEF Rollup, RollupOf
    <2>3. Rollup(tx[r].rows) = RollupOf(evals', Evaluations)
      BY <1>5 DEF Rollup
    <2> QED BY <2>1, <2>2, <2>3
  <1>7. state' = "COMPLETED" <=> Cleared'
    <2>1. CASE StillFlagged(tx[r].rows)
      BY <1>5, <2>1 DEF StillFlagged, Cleared, ClearedInv, CompletedMeansCleared
    <2>2. CASE ~StillFlagged(tx[r].rows)
      BY <1>1, <1>5, <2>2 DEF StillFlagged, Cleared
    <2> QED BY <2>1, <2>2
  <1> QED BY <1>6, <1>7

\* An override that nobody disturbed leaves the report and the state current, among
\* any number of others (override_evaluation, rebuild_report).
THEOREM OverrideReported == Spec => OverrideIsReported
  <1>1. Init => TypeOK /\ ClearedInv /\ HeldInv
    <2>1. Init => HeldInv
      BY DEF Init, HeldInv, HoldsOrWritesNothing, SummedItsOwn
    <2> QED BY <2>1, InitType, InitCleared
  <1>2. TypeOK /\ ClearedInv /\ HeldInv /\ [Next]_vars => TypeOK' /\ ClearedInv' /\ HeldInv'
    BY TypeStep, ClearedStep, HeldStep
  <1>3. TypeOK /\ ClearedInv /\ HeldInv /\ [Next]_vars
          => [\A r \in Recruiters :
                Commit(r) /\ Undisturbed(r) =>
                  /\ report' = RollupOf(evals', Evaluations)
                  /\ state' = "COMPLETED" <=> Cleared']_vars
    BY <1>2, UndisturbedReports
  <1> QED BY <1>1, <1>2, <1>3, PTL DEF Spec, OverrideIsReported

=============================================================================
