----------------------------- MODULE VoiceProofs -----------------------------
(***************************************************************************)
(* Theorems about Voice, for any number of tabs, lines, questions, clips.  *)
(***************************************************************************)
EXTENDS Voice, FunctionTheorems, FiniteSetTheorems, WellFoundedInduction, TLAPS

-----------------------------------------------------------------------------
(* The inductive invariant: clips and slots *)

Cells == Lines \X Questions
Clip  == [id : Nat, line : Lines, q : Questions]
Recorders == [pc : Recorder, row : SUBSET Clip]

\* The lines whose request passed the check of the cap and has not committed, those
\* that have a clip, and the transcriptions that run.
Admitted(q) == {l \in Lines : rec[l][q].pc \in {"ready", "running", "flushed"}}
Holders(q)  == {r.line : r \in RowsFor(q)}
Running     == {x \in Cells : rec[x[1]][x[2]].pc = "running"}

Shapes ==
  /\ rec \in [Lines -> [Questions -> Recorders]]
  /\ rows \subseteq Clip /\ IsFiniteSet(rows)
  /\ heard \in Seq(Questions)

\* What a request is about to commit is one clip, of its line and its question.
FlushedOwn ==
  \A l \in Lines, q \in Questions : rec[l][q].pc = "flushed" =>
    \E i \in Nat : rec[l][q].row = {[id |-> i, line |-> l, q |-> q]}

\* What is above the cap belongs to as many lines that have nothing under way.
Capped ==
  \A q \in Questions :
    Cardinality(RowsFor(q)) < MaxClips + Cardinality(Holders(q) \ Admitted(q))

SlotsLeft == slots \in Nat /\ slots = Concurrency - Cardinality(Running)

VoiceIInv == Shapes /\ FlushedOwn /\ Capped /\ SlotsLeft

-----------------------------------------------------------------------------
(* Finite sets *)

LEMMA Finite ==
  /\ \A S : S \subseteq Lines => IsFiniteSet(S) /\ Cardinality(S) \in Nat
  /\ \A S : S \subseteq Cells => IsFiniteSet(S) /\ Cardinality(S) \in Nat
  <1>1. IsFiniteSet(Lines) /\ IsFiniteSet(Questions)
    BY FS_Interval, VoiceAssumption DEF Questions
  <1>2. IsFiniteSet(Cells)
    BY <1>1, FS_Product DEF Cells
  <1> QED BY <1>1, <1>2, FS_Subset, FS_CardinalityType

LEMMA FiniteRows ==
  ASSUME IsFiniteSet(rows), NEW q
  PROVE  IsFiniteSet(RowsFor(q)) /\ Cardinality(RowsFor(q)) \in Nat
  <1>1. RowsFor(q) \subseteq rows
    BY DEF RowsFor
  <1> QED BY <1>1, FS_Subset, FS_CardinalityType

LEMMA HoldersAreLines ==
  ASSUME rows \subseteq Clip, NEW q
  PROVE  Holders(q) \subseteq Lines
  BY DEF Holders, RowsFor, Clip

\* A recorder moves on, and no other one.
LEMMA OneCell ==
  ASSUME Shapes, NEW l, NEW q, NEW pc \in Recorder, Goto(l, q, pc)
  PROVE  /\ rec' \in [Lines -> [Questions -> Recorders]]
         /\ \A u \in Lines, p \in Questions :
              /\ rec'[u][p].row = rec[u][p].row
              /\ u = l /\ p = q => rec'[u][p].pc = pc
              /\ ~(u = l /\ p = q) => rec'[u][p].pc = rec[u][p].pc
  <1> DEFINE r == [rec[l][q] EXCEPT !.pc = pc]
             f == [rec[l] EXCEPT ![q] = r]
  <1>1. /\ rec \in [Lines -> [Questions -> Recorders]]
        /\ l \in Lines => rec[l] \in [Questions -> Recorders]
    BY DEF Shapes
  <1>2. rec' = [rec EXCEPT ![l] = f]
    BY DEF Goto
  <1>3. l \in Lines /\ q \in Questions => r \in Recorders /\ r.pc = pc /\ r.row = rec[l][q].row
    <2> SUFFICES ASSUME l \in Lines, q \in Questions PROVE r \in Recorders /\ r.pc = pc /\ r.row = rec[l][q].row
      OBVIOUS
    <2>1. rec[l][q] \in Recorders
      BY <1>1
    <2> QED BY <2>1 DEF Recorders
  <1> HIDE DEF r
  <1>4. l \in Lines => /\ f \in [Questions -> Recorders]
                       /\ \A p \in Questions : f[p] = IF p = q THEN r ELSE rec[l][p]
    BY <1>1, <1>3
  <1> HIDE DEF f
  <1>5. /\ rec' \in [Lines -> [Questions -> Recorders]]
        /\ \A u \in Lines : rec'[u] = IF u = l THEN f ELSE rec[u]
    BY <1>1, <1>2, <1>4
  <1> QED BY <1>3, <1>4, <1>5

-----------------------------------------------------------------------------
(* One lemma per kind of step *)

LEMMA InitInv == Init => VoiceIInv
  <1> SUFFICES ASSUME Init PROVE VoiceIInv
    OBVIOUS
  <1>1. rec = [l \in Lines |-> [q \in Questions |-> [pc |-> "idle", row |-> {}]]]
    BY DEF Init
  <1>2. Shapes
    <2>1. [pc |-> "idle", row |-> {}] \in Recorders
      BY DEF Recorders, Recorder
    <2> QED BY <1>1, <2>1, FS_EmptySet DEF Init, Shapes
  <1>3. \A l \in Lines, q \in Questions : rec[l][q].pc = "idle"
    BY <1>1
  <1>4. Capped
    <2>1. \A q : RowsFor(q) = {}
      BY DEF Init, RowsFor
    <2>2. \A q : Holders(q) = {}
      BY <2>1 DEF Holders
    <2>3. \A q : Cardinality(RowsFor(q)) = 0 /\ Cardinality(Holders(q) \ Admitted(q)) = 0
      <3>1. \A q : Holders(q) \ Admitted(q) = {}
        BY <2>2
      <3> QED BY <2>1, <3>1, FS_EmptySet
    <2> QED BY <2>3, VoiceAssumption DEF Capped
  <1>5. SlotsLeft
    <2>1. Running = {}
      BY <1>3 DEF Running, Cells
    <2> QED BY <2>1, FS_EmptySet, VoiceAssumption DEF Init, SlotsLeft
  <1> QED BY <1>2, <1>3, <1>4, <1>5 DEF VoiceIInv, FlushedOwn

\* The cap of a question whose clips stay and to which no line is admitted.
LEMMA CapStays ==
  ASSUME VoiceIInv, NEW q \in Questions, RowsFor(q)' = RowsFor(q), Admitted(q)' \subseteq Admitted(q)
  PROVE  Cardinality(RowsFor(q))' < MaxClips + Cardinality(Holders(q) \ Admitted(q))'
  <1> DEFINE S == Holders(q) \ Admitted(q)
             U == Holders(q)' \ Admitted(q)'
  <1>1. Holders(q)' = Holders(q)
    BY DEF Holders
  <1>2. S \subseteq U /\ S \subseteq Lines /\ U \subseteq Lines
    BY <1>1, HoldersAreLines DEF VoiceIInv, Shapes
  <1>3. IsFiniteSet(U) /\ Cardinality(S) \in Nat /\ Cardinality(U) \in Nat
    BY <1>2, Finite
  <1>4. Cardinality(S) <= Cardinality(U)
    BY <1>2, <1>3, FS_Subset
  <1>5. Cardinality(RowsFor(q)) < MaxClips + Cardinality(S) /\ Cardinality(RowsFor(q)) \in Nat
    BY FiniteRows DEF VoiceIInv, Capped, Shapes
  <1> HIDE DEF S, U
  <1>6. Cardinality(RowsFor(q)) < MaxClips + Cardinality(U)
    BY <1>3, <1>4, <1>5, VoiceAssumption
  <1> QED BY <1>6 DEF U

\* The candidate's steps, and what ends a request without a clip.
LEMMA QuietStep ==
  ASSUME VoiceIInv, UNCHANGED <<rows, heard, slots>>,
         rec' \in [Lines -> [Questions -> Recorders]],
         \A u \in Lines, p \in Questions :
           \/ rec'[u][p].pc = rec[u][p].pc /\ rec'[u][p].row = rec[u][p].row
           \/ rec[u][p].pc # "running" /\ rec'[u][p].pc \notin {"ready", "running", "flushed"}
  PROVE  VoiceIInv'
  <1>1. Shapes'
    BY DEF VoiceIInv, Shapes
  <1>2. FlushedOwn'
    BY DEF VoiceIInv, FlushedOwn
  <1>3. Capped'
    <2>1. ASSUME NEW q \in Questions
          PROVE  RowsFor(q)' = RowsFor(q) /\ Admitted(q)' \subseteq Admitted(q)
      BY DEF RowsFor, Admitted
    <2> QED BY <2>1, CapStays DEF Capped
  <1>4. Running' = Running
    <2>1. \A u \in Lines, p \in Questions : rec'[u][p].pc = "running" <=> rec[u][p].pc = "running"
      OBVIOUS
    <2> QED BY <2>1 DEF Running, Cells
  <1>5. SlotsLeft'
    BY <1>4 DEF VoiceIInv, SlotsLeft
  <1> QED BY <1>1, <1>2, <1>3, <1>5 DEF VoiceIInv

\* A recorder that goes where no request is under way.
LEMMA QuietGoto ==
  ASSUME VoiceIInv, UNCHANGED <<rows, heard, slots>>, NEW l, NEW q,
         NEW pc \in Recorder \ {"ready", "running", "flushed"}, Goto(l, q, pc),
         rec[l][q].pc # "running"
  PROVE  VoiceIInv'
  <1>1. /\ rec' \in [Lines -> [Questions -> Recorders]]
        /\ \A u \in Lines, p \in Questions :
              /\ rec'[u][p].row = rec[u][p].row
              /\ u = l /\ p = q => rec'[u][p].pc = pc
              /\ ~(u = l /\ p = q) => rec'[u][p].pc = rec[u][p].pc
    BY OneCell DEF VoiceIInv
  <1>2. ASSUME NEW u \in Lines, NEW p \in Questions
        PROVE  \/ rec'[u][p].pc = rec[u][p].pc /\ rec'[u][p].row = rec[u][p].row
               \/ rec[u][p].pc # "running" /\ rec'[u][p].pc \notin {"ready", "running", "flushed"}
    BY <1>1
  <1> QED BY <1>1, <1>2, QuietStep

LEMMA CandidateStep ==
  ASSUME VoiceIInv, NEW t \in Tabs,
         Record(t) \/ Stop(t) \/ Type(t) \/ Paste(t) \/ Copy(t) \/ Erase(t) \/ Drop(t)
           \/ Send(t) \/ Submit(t) \/ LoadQuestion(t)
  PROVE  VoiceIInv'
  <1>1. ASSUME UNCHANGED <<rows, heard, slots, rec>> PROVE VoiceIInv'
    BY <1>1, QuietStep DEF VoiceIInv, Shapes
  <1>2. CASE Record(t)
    BY <1>2, QuietGoto DEF Record, db, Recorder
  <1>3. CASE Stop(t)
    BY <1>3, QuietGoto DEF Stop, db, Recorder
  <1>4. CASE Type(t) \/ Paste(t) \/ Copy(t) \/ Erase(t) \/ Drop(t) \/ Send(t) \/ Submit(t)
    BY <1>1, <1>4 DEF Type, Paste, Put, Copy, Erase, Drop, Send, Submit, db
  <1>5. CASE LoadQuestion(t)
    <2>1. \/ rec' = rec
          \/ rec[Mine(t)][page[t].q].pc = "recording" /\ Goto(Mine(t), page[t].q, "idle")
      BY <1>5 DEF LoadQuestion, Goto
    <2>2. UNCHANGED <<rows, heard, slots>>
      BY <1>5 DEF LoadQuestion, db
    <2> QED BY <1>1, <2>1, <2>2, QuietGoto DEF Recorder
  <1> QED BY <1>2, <1>3, <1>4, <1>5

\* Where nothing is flushed anew, what is flushed is still its own.
LEMMA OwnStays ==
  ASSUME VoiceIInv,
         \A u \in Lines, p \in Questions :
           /\ rec'[u][p].row = rec[u][p].row
           /\ rec'[u][p].pc = "flushed" => rec[u][p].pc = "flushed"
  PROVE  FlushedOwn'
  <1> SUFFICES ASSUME NEW u \in Lines, NEW p \in Questions, rec'[u][p].pc = "flushed"
               PROVE  \E i \in Nat : rec'[u][p].row = {[id |-> i, line |-> u, q |-> p]}
    BY DEF FlushedOwn
  <1>1. rec[u][p].pc = "flushed" /\ rec'[u][p].row = rec[u][p].row
    OBVIOUS
  <1> QED BY <1>1 DEF VoiceIInv, FlushedOwn

LEMMA AdmitStep ==
  ASSUME VoiceIInv, NEW l \in Lines, NEW q \in Questions, Admit(l, q)
  PROVE  VoiceIInv'
  <1>1. /\ rec' \in [Lines -> [Questions -> Recorders]]
        /\ \A u \in Lines, p \in Questions :
              /\ rec'[u][p].row = rec[u][p].row
              /\ u = l /\ p = q => rec'[u][p].pc = "ready"
              /\ ~(u = l /\ p = q) => rec'[u][p].pc = rec[u][p].pc
    BY OneCell DEF VoiceIInv, Admit, Recorder
  <1>2. UNCHANGED <<rows, heard, slots>> /\ rec[l][q].pc = "sent" /\ Cardinality(RowsFor(q)) < MaxClips
    BY DEF Admit, MayTranscribe, db
  <1>3. Shapes' /\ FlushedOwn'
    <2>1. Shapes'
      BY <1>1, <1>2 DEF VoiceIInv, Shapes
    <2>2. \A u \in Lines, p \in Questions : rec'[u][p].pc = "flushed" => rec[u][p].pc = "flushed"
      BY <1>1
    <2> QED BY <1>1, <2>1, <2>2, OwnStays
  <1>4. Capped'
    <2>1. ASSUME NEW p \in Questions
          PROVE  Cardinality(RowsFor(p))' < MaxClips + Cardinality(Holders(p) \ Admitted(p))'
      <3>1. RowsFor(p)' = RowsFor(p)
        BY <1>2 DEF RowsFor
      <3>2. CASE p = q
        <4> DEFINE U == Holders(p)' \ Admitted(p)'
        <4>1. U \subseteq Lines
          BY <1>3, HoldersAreLines DEF Shapes, VoiceIInv, Holders, RowsFor, Clip
        <4>2. Cardinality(U) \in Nat
          BY <4>1, Finite
        <4>3. Cardinality(RowsFor(p)) < MaxClips /\ Cardinality(RowsFor(p)) \in Nat
          BY <1>2, <3>2, FiniteRows DEF VoiceIInv, Shapes
        <4> HIDE DEF U
        <4>4. Cardinality(RowsFor(p)) < MaxClips + Cardinality(U)
          BY <4>2, <4>3, VoiceAssumption
        <4> QED BY <3>1, <4>4 DEF U
      <3>3. CASE p # q
        <4>1. Admitted(p)' \subseteq Admitted(p)
          BY <1>1, <3>3 DEF Admitted
        <4> QED BY <3>1, <4>1, CapStays
      <3> QED BY <3>2, <3>3
    <2> QED BY <2>1 DEF Capped
  <1>5. Running' = Running
    BY <1>1, <1>2 DEF Running, Cells
  <1> QED BY <1>2, <1>3, <1>4, <1>5 DEF VoiceIInv, SlotsLeft

\* A slot is taken, or given back.
LEMMA SlotStep ==
  ASSUME VoiceIInv, UNCHANGED rows, heard' \in Seq(Questions),
         NEW l \in Lines, NEW q \in Questions, FlushedOwn',
         rec' \in [Lines -> [Questions -> Recorders]],
         \A u \in Lines, p \in Questions :
           ~(u = l /\ p = q) => rec'[u][p].pc = rec[u][p].pc,
         \/ /\ rec[l][q].pc = "ready" /\ rec'[l][q].pc = "running"
            /\ slots > 0 /\ slots' = slots - 1
         \/ /\ rec[l][q].pc = "running" /\ rec'[l][q].pc \in {"idle", "flushed"}
            /\ slots' = slots + 1
  PROVE  VoiceIInv'
  <1>1. Shapes'
    BY DEF VoiceIInv, Shapes
  <1>2. Capped'
    <2>1. ASSUME NEW p \in Questions
          PROVE  RowsFor(p)' = RowsFor(p) /\ Admitted(p)' \subseteq Admitted(p)
      BY DEF RowsFor, Admitted
    <2> QED BY <2>1, CapStays DEF Capped
  <1>3. SlotsLeft'
    <2>1. IsFiniteSet(Running) /\ Cardinality(Running) \in Nat /\ slots \in Nat
          /\ slots = Concurrency - Cardinality(Running) /\ Concurrency \in Nat
      <3>1. Running \subseteq Cells
        BY DEF Running
      <3> QED BY <3>1, Finite, VoiceAssumption DEF VoiceIInv, SlotsLeft
    <2>2. <<l, q>> \in Cells /\ \A x \in Cells : x # <<l, q>> =>
            (rec'[x[1]][x[2]].pc = "running" <=> rec[x[1]][x[2]].pc = "running")
      BY DEF Cells
    <2>3. CASE rec[l][q].pc = "ready" /\ rec'[l][q].pc = "running" /\ slots > 0 /\ slots' = slots - 1
      <3>1. Running' = Running \cup {<<l, q>>} /\ <<l, q>> \notin Running
        BY <2>2, <2>3 DEF Running
      <3>2. Cardinality(Running') = Cardinality(Running) + 1
        BY <2>1, <3>1, FS_AddElement
      <3> QED BY <2>1, <2>3, <3>2 DEF SlotsLeft
    <2>4. CASE rec[l][q].pc = "running" /\ rec'[l][q].pc \in {"idle", "flushed"} /\ slots' = slots + 1
      <3>1. Running' = Running \ {<<l, q>>} /\ <<l, q>> \in Running
        BY <2>2, <2>4 DEF Running
      <3>2. Cardinality(Running') = Cardinality(Running) - 1
        BY <2>1, <3>1, FS_RemoveElement
      <3> QED BY <2>1, <2>4, <3>2 DEF SlotsLeft
    <2> QED BY <2>3, <2>4
  <1> QED BY <1>1, <1>2, <1>3 DEF VoiceIInv

\* A clip is transcribed: the recorder holds its row, and no other one moves.
LEMMA OneTranscribed ==
  ASSUME Shapes, NEW l \in Lines, NEW q \in Questions, Transcribed(l, q)
  PROVE  /\ rec[l][q].pc = "running" /\ UNCHANGED rows /\ slots' = slots + 1
         /\ heard' = Append(heard, q) /\ heard' \in Seq(Questions) /\ Len(heard) + 1 \in Nat
         /\ rec' \in [Lines -> [Questions -> Recorders]]
         /\ \A u \in Lines, p \in Questions :
              rec'[u][p] = IF u = l /\ p = q
                           THEN [pc |-> "flushed", row |-> {[id |-> Len(heard) + 1, line |-> l, q |-> q]}]
                           ELSE rec[u][p]
  <1> DEFINE n == Len(heard) + 1
             c == [id |-> n, line |-> l, q |-> q]
             r == [pc |-> "flushed", row |-> {c}]
             f == [rec[l] EXCEPT ![q] = r]
  <1>1. /\ rec' = [rec EXCEPT ![l] = f] /\ rec[l][q].pc = "running"
        /\ heard' = Append(heard, q) /\ UNCHANGED rows /\ slots' = slots + 1
    BY DEF Transcribed
  <1>2. n \in Nat /\ heard' \in Seq(Questions)
    BY <1>1 DEF Shapes
  <1>3. r \in Recorders
    <2> HIDE DEF n
    <2> QED BY <1>2 DEF Clip, Recorders, Recorder
  <1>4. rec \in [Lines -> [Questions -> Recorders]] /\ rec[l] \in [Questions -> Recorders]
    BY DEF Shapes
  <1> HIDE DEF r, c, n
  <1>5. /\ f \in [Questions -> Recorders]
        /\ \A p \in Questions : f[p] = IF p = q THEN r ELSE rec[l][p]
    BY <1>3, <1>4
  <1> HIDE DEF f
  <1>6. /\ rec' \in [Lines -> [Questions -> Recorders]]
        /\ \A u \in Lines : rec'[u] = IF u = l THEN f ELSE rec[u]
    BY <1>1, <1>4, <1>5
  <1>7. \A u \in Lines, p \in Questions : rec'[u][p] = IF u = l /\ p = q THEN r ELSE rec[u][p]
    BY <1>5, <1>6
  <1> QED BY <1>1, <1>2, <1>6, <1>7 DEF r, c, n

LEMMA TranscribeStep ==
  ASSUME VoiceIInv, NEW l \in Lines, NEW q \in Questions,
         Run(l, q) \/ Transcribed(l, q) \/ RunRaises(l, q)
  PROVE  VoiceIInv'
  <1>1. CASE Run(l, q)
    <2>1. /\ rec' \in [Lines -> [Questions -> Recorders]]
          /\ \A u \in Lines, p \in Questions :
                /\ rec'[u][p].row = rec[u][p].row
                /\ u = l /\ p = q => rec'[u][p].pc = "running"
                /\ ~(u = l /\ p = q) => rec'[u][p].pc = rec[u][p].pc
      BY <1>1, OneCell DEF VoiceIInv, Run, Recorder
    <2>2. UNCHANGED <<rows, heard>> /\ rec[l][q].pc = "ready" /\ slots > 0 /\ slots' = slots - 1
      BY <1>1 DEF Run, db
    <2>3. FlushedOwn'
      BY <2>1, <2>2, OwnStays
    <2> QED BY <2>1, <2>2, <2>3, SlotStep DEF VoiceIInv, Shapes
  <1>2. CASE RunRaises(l, q)
    <2>1. /\ rec' \in [Lines -> [Questions -> Recorders]]
          /\ \A u \in Lines, p \in Questions :
                /\ rec'[u][p].row = rec[u][p].row
                /\ u = l /\ p = q => rec'[u][p].pc = "idle"
                /\ ~(u = l /\ p = q) => rec'[u][p].pc = rec[u][p].pc
      BY <1>2, OneCell DEF VoiceIInv, RunRaises, Recorder
    <2>2. UNCHANGED <<rows, heard>> /\ rec[l][q].pc = "running" /\ slots' = slots + 1
      BY <1>2 DEF RunRaises, Freed, db
    <2>3. FlushedOwn'
      BY <2>1, <2>2, OwnStays
    <2> QED BY <2>1, <2>2, <2>3, SlotStep DEF VoiceIInv, Shapes
  <1>3. CASE Transcribed(l, q)
    <2> DEFINE n == Len(heard) + 1
               r == [pc |-> "flushed", row |-> {[id |-> n, line |-> l, q |-> q]}]
    <2>1. /\ rec[l][q].pc = "running" /\ UNCHANGED rows /\ slots' = slots + 1
          /\ heard' \in Seq(Questions) /\ n \in Nat
          /\ rec' \in [Lines -> [Questions -> Recorders]]
          /\ \A u \in Lines, p \in Questions :
                rec'[u][p] = IF u = l /\ p = q THEN r ELSE rec[u][p]
      BY <1>3, OneTranscribed DEF VoiceIInv
    <2>2. r.pc = "flushed" /\ r.row = {[id |-> n, line |-> l, q |-> q]}
      OBVIOUS
    <2> HIDE DEF r, n
    <2>3. FlushedOwn'
      <3> SUFFICES ASSUME NEW u \in Lines, NEW p \in Questions, rec'[u][p].pc = "flushed"
                   PROVE  \E i \in Nat : rec'[u][p].row = {[id |-> i, line |-> u, q |-> p]}
        BY DEF FlushedOwn
      <3>1. CASE u = l /\ p = q
        BY <2>1, <2>2, <3>1
      <3>2. CASE ~(u = l /\ p = q)
        <4>1. rec'[u][p] = rec[u][p]
          BY <2>1, <3>2
        <4> QED BY <4>1 DEF VoiceIInv, FlushedOwn
      <3> QED BY <3>1, <3>2
    <2>4. /\ rec'[l][q].pc = "flushed"
          /\ \A u \in Lines, p \in Questions :
                ~(u = l /\ p = q) => rec'[u][p].pc = rec[u][p].pc
      BY <2>1, <2>2
    <2> QED BY <2>1, <2>3, <2>4, SlotStep
  <1> QED BY <1>1, <1>2, <1>3

LEMMA CommitStep ==
  ASSUME VoiceIInv, NEW l \in Lines, NEW q \in Questions, Commit(l, q)
  PROVE  VoiceIInv'
  <1>1. rec[l][q].pc = "flushed" /\ UNCHANGED <<heard, slots>>
    BY DEF Commit
  <1>2. CASE rows' = rows /\ Goto(l, q, "idle")
    BY <1>1, <1>2, QuietGoto DEF Recorder
  <1>3. CASE rows' = rows \cup rec[l][q].row /\ Goto(l, q, "done")
    <2>1. PICK i \in Nat : rec[l][q].row = {[id |-> i, line |-> l, q |-> q]}
      BY <1>1 DEF VoiceIInv, FlushedOwn
    <2> DEFINE x == [id |-> i, line |-> l, q |-> q]
    <2>2. x \in Clip /\ x.line = l /\ x.q = q /\ rows' = rows \cup {x}
      BY <1>3, <2>1 DEF Clip
    <2> HIDE DEF x
    <2>3. /\ rec' \in [Lines -> [Questions -> Recorders]]
          /\ \A u \in Lines, p \in Questions :
                /\ rec'[u][p].row = rec[u][p].row
                /\ u = l /\ p = q => rec'[u][p].pc = "done"
                /\ ~(u = l /\ p = q) => rec'[u][p].pc = rec[u][p].pc
      BY <1>3, OneCell DEF VoiceIInv, Recorder
    <2>4. Shapes'
      BY <1>1, <2>2, <2>3, FS_AddElement DEF VoiceIInv, Shapes
    <2>5. FlushedOwn'
      BY <1>1, <2>3, OwnStays
    <2>6. Running' = Running
      BY <1>1, <2>3 DEF Running, Cells
    <2>7. Capped'
      <3>1. ASSUME NEW p \in Questions, p # q
            PROVE  Cardinality(RowsFor(p))' < MaxClips + Cardinality(Holders(p) \ Admitted(p))'
        <4>1. RowsFor(p)' = RowsFor(p)
          BY <2>2, <3>1 DEF RowsFor
        <4>2. Admitted(p)' \subseteq Admitted(p)
          BY <2>3, <3>1 DEF Admitted
        <4> QED BY <4>1, <4>2, CapStays
      <3>2. Cardinality(RowsFor(q))' < MaxClips + Cardinality(Holders(q) \ Admitted(q))'
        <4> DEFINE S == Holders(q) \ Admitted(q)
                   U == Holders(q)' \ Admitted(q)'
                   R == RowsFor(q)
        <4>1. RowsFor(q)' = R \cup {x}
          BY <2>2 DEF RowsFor
        <4>2. Holders(q)' = Holders(q) \cup {l}
          BY <2>2, <4>1 DEF Holders
        <4>3. Admitted(q)' = Admitted(q) \ {l} /\ l \in Admitted(q)
          BY <1>1, <2>3 DEF Admitted
        <4>4. S \cup {l} \subseteq U /\ l \notin S /\ S \subseteq Lines /\ U \subseteq Lines
          BY <4>2, <4>3, HoldersAreLines DEF VoiceIInv, Shapes
        <4>5. IsFiniteSet(S) /\ IsFiniteSet(U) /\ Cardinality(S) \in Nat /\ Cardinality(U) \in Nat
          BY <4>4, Finite
        <4>6. Cardinality(S \cup {l}) = Cardinality(S) + 1 /\ Cardinality(S \cup {l}) <= Cardinality(U)
          BY <4>4, <4>5, FS_AddElement, FS_Subset
        <4>7. IsFiniteSet(R) /\ Cardinality(R) \in Nat /\ Cardinality(R) < MaxClips + Cardinality(S)
          BY FiniteRows DEF VoiceIInv, Shapes, Capped
        <4>8. Cardinality(R \cup {x}) <= Cardinality(R) + 1 /\ Cardinality(R \cup {x}) \in Nat
          <5> HIDE DEF R
          <5>1. Cardinality(R \cup {x}) = IF x \in R THEN Cardinality(R) ELSE Cardinality(R) + 1
            BY <4>7, FS_AddElement
          <5> DEFINE n == Cardinality(R)
                     m == Cardinality(R \cup {x})
          <5>2. n \in Nat /\ (m = n \/ m = n + 1)
            BY <4>7, <5>1
          <5> HIDE DEF n, m
          <5>3. m <= n + 1 /\ m \in Nat
            BY <5>2
          <5> QED BY <5>3 DEF n, m
        <4> HIDE DEF S, U, R
        <4>9. Cardinality(R \cup {x}) < MaxClips + Cardinality(U)
          BY <4>5, <4>6, <4>7, <4>8, VoiceAssumption
        <4> QED BY <4>1, <4>9 DEF U
      <3> QED BY <3>1, <3>2 DEF Capped
    <2> QED BY <1>1, <2>4, <2>5, <2>6, <2>7 DEF VoiceIInv, SlotsLeft
  <1> QED BY <1>2, <1>3 DEF Commit

LEMMA RequestStep ==
  ASSUME VoiceIInv, NEW l \in Lines, NEW q \in Questions, Request(l, q)
  PROVE  VoiceIInv'
  <1>1. CASE Refuse(l, q)
    BY <1>1, QuietGoto DEF Refuse, db, Recorder
  <1> QED BY <1>1, AdmitStep, TranscribeStep, CommitStep DEF Request

LEMMA DeliverStep ==
  ASSUME VoiceIInv, NEW t \in Tabs, NEW q \in Questions, Deliver(t, q)
  PROVE  VoiceIInv'
  <1> DEFINE l == line[t][q]
  <1>1. rec[l][q].pc = "done" /\ Goto(l, q, "idle") /\ UNCHANGED <<rows, heard, slots>>
    BY DEF Deliver, db
  <1> HIDE DEF l
  <1> QED BY <1>1, QuietGoto DEF Recorder

LEMMA StepInv == ASSUME VoiceIInv, [Next]_vars PROVE VoiceIInv'
  <1>1. CASE UNCHANGED vars
    BY <1>1, QuietStep DEF vars, db, VoiceIInv, Shapes
  <1>2. CASE \E t \in Tabs : Record(t) \/ Stop(t) \/ Type(t) \/ Paste(t) \/ Copy(t) \/ Erase(t)
                            \/ Drop(t) \/ Send(t) \/ Submit(t) \/ LoadQuestion(t)
    BY <1>2, CandidateStep
  <1>3. CASE \E t \in Tabs, q \in Questions : Deliver(t, q)
    BY <1>3, DeliverStep
  <1>4. CASE \E l \in Lines, q \in Questions : Request(l, q)
    BY <1>4, RequestStep
  <1> QED BY <1>1, <1>2, <1>3, <1>4 DEF Next

-----------------------------------------------------------------------------
(* Theorems about clips and slots *)

LEMMA VoiceIInvHolds == Spec => []VoiceIInv
  <1> QED BY InitInv, StepInv, PTL DEF Spec

\* The clips of a question pass the cap by fewer than the lines that have one there,
\* however many tabs send at once and connections drop: each request was admitted on a
\* count it no longer knows to be true, and commits one clip (transcribe_answer).
THEOREM CapHolds == Spec => []ClipsAreCapped
  <1>1. VoiceIInv => ClipsAreCapped
    <2> SUFFICES ASSUME VoiceIInv, NEW q \in Questions
                 PROVE  Cardinality(RowsFor(q)) < MaxClips + Cardinality(Holders(q))
      BY DEF ClipsAreCapped, Holders
    <2> DEFINE S == Holders(q) \ Admitted(q)
               H == Holders(q)
    <2>1. S \subseteq H /\ H \subseteq Lines
      BY HoldersAreLines DEF VoiceIInv, Shapes
    <2>2. IsFiniteSet(H) /\ Cardinality(H) \in Nat /\ Cardinality(S) \in Nat
      BY <2>1, Finite
    <2>3. Cardinality(S) <= Cardinality(H)
      BY <2>1, <2>2, FS_Subset
    <2>4. Cardinality(RowsFor(q)) < MaxClips + Cardinality(S) /\ Cardinality(RowsFor(q)) \in Nat
      BY FiniteRows DEF VoiceIInv, Shapes, Capped
    <2> HIDE DEF S, H
    <2> QED BY <2>2, <2>3, <2>4, VoiceAssumption DEF H
  <1> QED BY <1>1, VoiceIInvHolds, PTL

\* No slot is lost, whether a transcription succeeds or raises, and there are never
\* more at once than VOICE_CONCURRENCY (WhisperTranscriber.transcribe).
THEOREM SlotsComeBack == Spec => [](SlotsAreGivenBack /\ slots >= 0)
  <1>1. VoiceIInv => SlotsAreGivenBack /\ slots >= 0
    BY DEF VoiceIInv, SlotsLeft, SlotsAreGivenBack, Running, Cells, Quantify
  <1> QED BY <1>1, VoiceIInvHolds, PTL

-----------------------------------------------------------------------------
(* Numbers and sequences                                                    *)

\* A set of naturals has a least one.
LEMMA LeastNatural ==
  ASSUME NEW S \in SUBSET Nat, S # {}
  PROVE  \E m \in S : \A k \in S : m <= k
  <1>1. IsWellFoundedOn(OpToRel(<, Nat), Nat)
    BY NatLessThanWellFounded
  <1>2. PICK m \in S : \A k \in S : <<k, m>> \notin OpToRel(<, Nat)
    BY <1>1, WFMin
  <1>3. \A k \in S : ~(k < m)
    BY <1>2 DEF OpToRel
  <1> QED BY <1>3

\* Induction over the naturals, for a set.
LEMMA SetInduction ==
  ASSUME NEW S, 0 \in S, \A n \in Nat : n \in S => n + 1 \in S
  PROVE  Nat \subseteq S
  <1> SUFFICES ASSUME Nat \ S # {} PROVE FALSE
    OBVIOUS
  <1>1. PICK m \in Nat \ S : \A k \in Nat \ S : m <= k
    BY LeastNatural
  <1>2. m # 0 /\ m - 1 \in Nat /\ m - 1 + 1 = m
    BY <1>1
  <1>3. m - 1 \in S
    BY <1>1, <1>2
  <1> QED BY <1>1, <1>2, <1>3

LEMMA MinFacts ==
  ASSUME NEW S \in SUBSET Nat, S # {}
  PROVE  Min(S) \in S /\ \A k \in S : Min(S) <= k
  BY LeastNatural DEF Min

\* What stands before a place, and after it.
Before(s, i) == SubSeq(s, 1, i - 1)
After(s, i)  == SubSeq(s, i + 1, Len(s))

LEMMA SplitAt ==
  ASSUME NEW S, NEW s \in Seq(S), NEW i \in DOMAIN s
  PROVE  /\ Len(s) \in Nat /\ DOMAIN s = 1 .. Len(s)
         /\ Before(s, i) \in Seq(S) /\ Len(Before(s, i)) = i - 1
         /\ DOMAIN Before(s, i) = 1 .. i - 1
         /\ \A k \in 1 .. i - 1 : Before(s, i)[k] = s[k]
         /\ After(s, i) \in Seq(S) /\ Len(After(s, i)) = Len(s) - i
         /\ DOMAIN After(s, i) = 1 .. Len(s) - i
         /\ \A k \in 1 .. Len(s) - i : After(s, i)[k] = s[k + i]
         /\ \A k \in i + 1 .. Len(s) : k - i \in 1 .. Len(s) - i /\ After(s, i)[k - i] = s[k]
  <1>1. Len(s) \in Nat /\ DOMAIN s = 1 .. Len(s) /\ i \in 1 .. Len(s)
    OBVIOUS
  <1>2. /\ Before(s, i) \in Seq(S) /\ Len(Before(s, i)) = i - 1
        /\ \A k \in 1 .. i - 1 : Before(s, i)[k] = s[k]
    BY <1>1 DEF Before
  <1>3. /\ After(s, i) \in Seq(S) /\ Len(After(s, i)) = Len(s) - i
        /\ \A k \in 1 .. Len(s) - i : After(s, i)[k] = s[k + i]
    BY <1>1 DEF After
  <1>4. DOMAIN Before(s, i) = 1 .. i - 1 /\ DOMAIN After(s, i) = 1 .. Len(s) - i
    BY <1>2, <1>3
  <1>5. \A k \in i + 1 .. Len(s) : k - i \in 1 .. Len(s) - i /\ After(s, i)[k - i] = s[k]
    <2> SUFFICES ASSUME NEW k \in i + 1 .. Len(s)
                 PROVE  k - i \in 1 .. Len(s) - i /\ After(s, i)[k - i] = s[k]
      OBVIOUS
    <2>1. k - i \in 1 .. Len(s) - i /\ (k - i) + i = k
      BY <1>1
    <2> HIDE DEF After
    <2> QED BY <1>3, <2>1
  <1> QED BY <1>1, <1>2, <1>3, <1>4, <1>5

LEMMA PositionsAreFinite ==
  ASSUME NEW S, NEW s \in Seq(S), NEW T \in SUBSET DOMAIN s
  PROVE  IsFiniteSet(T) /\ Cardinality(T) \in Nat
  <1>1. IsFiniteSet(DOMAIN s)
    <2>1. DOMAIN s = 1 .. Len(s) /\ Len(s) \in Int
      OBVIOUS
    <2> QED BY <2>1, FS_Interval
  <1> QED BY <1>1, FS_Subset, FS_CardinalityType

\* A kind of pieces is counted before a place, there, and after it.
LEMMA TimesSplit ==
  ASSUME NEW S, NEW s \in Seq(S), NEW i \in DOMAIN s, NEW K
  PROVE  Times(s, K) = Times(Before(s, i), K) + (IF s[i] \in K THEN 1 ELSE 0)
                         + Times(After(s, i), K)
  <1>0. /\ Len(s) \in Nat /\ DOMAIN s = 1 .. Len(s) /\ i \in 1 .. Len(s)
        /\ DOMAIN Before(s, i) = 1 .. i - 1
        /\ \A k \in 1 .. i - 1 : Before(s, i)[k] = s[k]
        /\ DOMAIN After(s, i) = 1 .. Len(s) - i
        /\ \A k \in 1 .. Len(s) - i : After(s, i)[k] = s[k + i]
        /\ \A k \in i + 1 .. Len(s) : k - i \in 1 .. Len(s) - i /\ After(s, i)[k - i] = s[k]
    <2>1. Len(s) \in Nat /\ DOMAIN s = 1 .. Len(s) /\ i \in 1 .. Len(s)
      OBVIOUS
    <2>2. /\ DOMAIN Before(s, i) = 1 .. i - 1
          /\ \A k \in 1 .. i - 1 : Before(s, i)[k] = s[k]
      BY SplitAt
    <2>3. /\ DOMAIN After(s, i) = 1 .. Len(s) - i
          /\ \A k \in 1 .. Len(s) - i : After(s, i)[k] = s[k + i]
      BY SplitAt
    <2>4. \A k \in i + 1 .. Len(s) : k - i \in 1 .. Len(s) - i /\ After(s, i)[k - i] = s[k]
      BY SplitAt
    <2> QED BY <2>1, <2>2, <2>3, <2>4
  <1> DEFINE All   == {k \in DOMAIN s : s[k] \in K}
             Left  == {k \in DOMAIN Before(s, i) : Before(s, i)[k] \in K}
             Here  == {k \in {i} : s[k] \in K}
             Right == {k \in DOMAIN s : k > i /\ s[k] \in K}
             Moved == {k \in DOMAIN After(s, i) : After(s, i)[k] \in K}
             f == [k \in Moved |-> k + i]
  <1>1. /\ Times(s, K) = Cardinality(All) /\ Times(Before(s, i), K) = Cardinality(Left)
        /\ Times(After(s, i), K) = Cardinality(Moved)
    BY DEF Times, Quantify
  <1>2. /\ All = (Left \cup Here) \cup Right
        /\ (Left \cup Here) \cap Right = {} /\ Left \cap Here = {}
    BY <1>0
  <1>3. f \in Bijection(Moved, Right)
    <2>1. \A k \in Moved : f[k] \in Right
      BY <1>0
    <2>2. \A k, m \in Moved : f[k] = f[m] => k = m
      BY <1>0
    <2>3. \A k \in Right : k - i \in Moved /\ f[k - i] = k
      BY <1>0
    <2> QED BY <2>1, <2>2, <2>3, Fun_IsBij
  <1>4. /\ IsFiniteSet(Moved) /\ Cardinality(Moved) \in Nat
        /\ IsFiniteSet(Right) /\ Cardinality(Right) \in Nat
        /\ IsFiniteSet(Left) /\ Cardinality(Left) \in Nat
        /\ IsFiniteSet(Here) /\ IsFiniteSet(Left \cup Here) /\ Cardinality(Left \cup Here) \in Nat
    <2>1. Left \subseteq DOMAIN s /\ Here \subseteq DOMAIN s /\ Right \subseteq DOMAIN s
      BY <1>0
    <2>2. After(s, i) \in Seq(S) /\ Moved \subseteq DOMAIN After(s, i)
      BY SplitAt
    <2> HIDE DEF Left, Here, Right, Moved
    <2>3. IsFiniteSet(Moved) /\ Cardinality(Moved) \in Nat
      BY <2>2, PositionsAreFinite
    <2>4. Left \cup Here \subseteq DOMAIN s
      BY <2>1
    <2> QED BY <2>1, <2>3, <2>4, PositionsAreFinite
  <1>5. Cardinality(Moved) = Cardinality(Right)
    <2> HIDE DEF Moved, Right, f
    <2>1. ExistsBijection(Moved, Right)
      BY <1>3 DEF ExistsBijection
    <2> QED BY <1>4, <2>1, FS_Bijection
  <1>6. Cardinality(Here) = IF s[i] \in K THEN 1 ELSE 0
    <2>1. Here = IF s[i] \in K THEN {i} ELSE {}
      OBVIOUS
    <2> QED BY <2>1, FS_EmptySet, FS_Singleton
  <1>7. Cardinality({}) = 0
    BY FS_EmptySet
  <1> HIDE DEF All, Left, Here, Right, Moved, f
  <1>8. Cardinality(Left \cup Here) = Cardinality(Left) + Cardinality(Here)
    <2>1. Cardinality(Left \cup Here) = Cardinality(Left) + Cardinality(Here) - Cardinality(Left \cap Here)
      BY <1>4, FS_Union
    <2>2. Cardinality(Left \cap Here) = 0
      BY <1>2, <1>7
    <2>3. Cardinality(Here) \in Nat
      BY <1>6
    <2> QED BY <1>4, <2>1, <2>2, <2>3
  <1>9. Cardinality(All) = Cardinality(Left \cup Here) + Cardinality(Right)
    <2>1. Cardinality((Left \cup Here) \cup Right)
            = Cardinality(Left \cup Here) + Cardinality(Right) - Cardinality((Left \cup Here) \cap Right)
      BY <1>4, FS_Union
    <2>2. Cardinality((Left \cup Here) \cap Right) = 0
      BY <1>2, <1>7
    <2>3. Cardinality(All) = Cardinality((Left \cup Here) \cup Right)
      BY <1>2
    <2> QED BY <1>4, <2>1, <2>2, <2>3
  <1> QED BY <1>1, <1>4, <1>5, <1>6, <1>8, <1>9

\* How many pieces are of a kind is a number.
LEMMA TimesIsCount ==
  ASSUME NEW S, NEW s \in Seq(S), NEW K
  PROVE  Times(s, K) \in Nat /\ (s = <<>> => Times(s, K) = 0)
  <1> DEFINE T == {i \in DOMAIN s : s[i] \in K}
  <1>1. Times(s, K) = Cardinality(T) /\ T \subseteq DOMAIN s
    BY DEF Times, Quantify
  <1>2. s = <<>> => T = {}
    OBVIOUS
  <1> HIDE DEF T
  <1> QED BY <1>1, <1>2, PositionsAreFinite, FS_EmptySet

\* Texts of the same pieces at the same places.
LEMMA SameSeq ==
  ASSUME NEW S, NEW s \in Seq(S), NEW r \in Seq(S), Len(s) = Len(r),
         \A k \in 1 .. Len(s) : s[k] = r[k]
  PROVE  s = r
  OBVIOUS

\* Two texts one after the other have what both have.
LEMMA TimesConcat ==
  ASSUME NEW S, NEW r \in Seq(S), NEW s \in Seq(S), NEW K
  PROVE  r \o s \in Seq(S) /\ Times(r \o s, K) = Times(r, K) + Times(s, K)
  <1> DEFINE n == Len(r)
             m == Len(s)
             both == r \o s
  <1>1. /\ n \in Nat /\ m \in Nat /\ both \in Seq(S) /\ Len(both) = n + m
        /\ \A k \in 1 .. n : both[k] = r[k]
        /\ \A k \in 1 .. m : both[k + n] = s[k]
        /\ n = 0 => r = <<>>
        /\ n # 0 => n \in DOMAIN both /\ n \in DOMAIN r /\ n \in 1 .. n
    OBVIOUS
  <1>2. Times(r, K) \in Nat /\ Times(s, K) \in Nat /\ (r = <<>> => Times(r, K) = 0)
    BY TimesIsCount
  <1>3. CASE n = 0
    <2>1. both = s
      <3>1. r = <<>>
        BY <1>1, <1>3
      <3> QED BY <3>1
    <2> HIDE DEF both, n
    <2> QED BY <1>1, <1>2, <1>3, <2>1 DEF both
  <1>4. CASE n # 0
    <2> HIDE DEF both, n, m
    <2>1. n \in DOMAIN both /\ n \in DOMAIN r /\ both \in Seq(S)
      BY <1>1, <1>4
    <2>2. Before(both, n) = Before(r, n)
      <3>1. /\ Before(both, n) \in Seq(S) /\ Len(Before(both, n)) = n - 1
            /\ \A k \in 1 .. n - 1 : Before(both, n)[k] = both[k]
        BY <1>1, <2>1, SplitAt
      <3>2. /\ Before(r, n) \in Seq(S) /\ Len(Before(r, n)) = n - 1
            /\ \A k \in 1 .. n - 1 : Before(r, n)[k] = r[k]
        BY <2>1, SplitAt
      <3>3. \A k \in 1 .. n - 1 : Before(both, n)[k] = Before(r, n)[k]
        BY <1>1, <3>1, <3>2
      <3> HIDE DEF Before
      <3> QED BY <3>1, <3>2, <3>3, SameSeq
    <2>3. After(both, n) = s
      <3>1. /\ After(both, n) \in Seq(S) /\ Len(After(both, n)) = Len(both) - n
            /\ \A k \in 1 .. Len(both) - n : After(both, n)[k] = both[k + n]
        BY <2>1, SplitAt
      <3>2. Len(both) - n = m
        BY <1>1
      <3>3. Len(After(both, n)) = Len(s) /\ \A k \in 1 .. Len(s) : After(both, n)[k] = s[k]
        BY <1>1, <3>1, <3>2 DEF m
      <3> QED BY <3>1, <3>3, SameSeq
    <2>4. After(r, n) = <<>>
      <3>1. After(r, n) \in Seq(S) /\ Len(After(r, n)) = Len(r) - n
        BY <2>1, SplitAt
      <3>2. Len(After(r, n)) = 0
        BY <1>1, <3>1 DEF n
      <3> QED BY <3>1, <3>2
    <2>5. both[n] = r[n]
      BY <1>1, <1>4
    <2>6. Times(both, K) = Times(Before(both, n), K) + (IF both[n] \in K THEN 1 ELSE 0)
                                + Times(After(both, n), K)
      BY <1>1, <2>1, TimesSplit
    <2>7. Times(r, K) = Times(Before(r, n), K) + (IF r[n] \in K THEN 1 ELSE 0)
                                + Times(After(r, n), K)
      BY <2>1, TimesSplit
    <2>8. Times(After(r, n), K) = 0 /\ Times(Before(r, n), K) \in Nat
      <3>1. After(r, n) \in Seq(S) /\ Before(r, n) \in Seq(S)
        BY <2>1, SplitAt
      <3> QED BY <2>4, <3>1, TimesIsCount
    <2>9. Times(both, K) = Times(r, K) + Times(s, K)
      BY <1>2, <2>2, <2>3, <2>5, <2>6, <2>7, <2>8
    <2> QED BY <1>1, <2>9 DEF both
  <1> QED BY <1>3, <1>4

\* A text is what comes up to a place and what comes after it.
LEMMA Halves ==
  ASSUME NEW S, NEW s \in Seq(S), NEW i \in 0 .. Len(s)
  PROVE  /\ SubSeq(s, 1, i) \in Seq(S) /\ SubSeq(s, i + 1, Len(s)) \in Seq(S)
         /\ SubSeq(s, 1, i) \o SubSeq(s, i + 1, Len(s)) = s
  <1> DEFINE a == SubSeq(s, 1, i)
             b == SubSeq(s, i + 1, Len(s))
             c == a \o b
  <1>1. Len(s) \in Nat /\ i \in Nat /\ i <= Len(s)
    OBVIOUS
  <1>2. a \in Seq(S) /\ Len(a) = i /\ \A k \in 1 .. i : a[k] = s[k]
    BY <1>1
  <1>3. b \in Seq(S) /\ Len(b) = Len(s) - i /\ \A k \in 1 .. Len(s) - i : b[k] = s[k + i]
    BY <1>1
  <1> HIDE DEF a, b
  <1>4. c \in Seq(S) /\ Len(c) = Len(s) /\ \A k \in 1 .. Len(s) : c[k] = s[k]
    <2>1. /\ c \in Seq(S) /\ Len(c) = Len(a) + Len(b)
          /\ \A k \in 1 .. Len(a) + Len(b) : c[k] = IF k <= Len(a) THEN a[k] ELSE b[k - Len(a)]
      BY <1>2, <1>3
    <2> HIDE DEF c
    <2>2. Len(c) = Len(s)
      BY <1>1, <1>2, <1>3, <2>1
    <2>3. ASSUME NEW k \in 1 .. Len(s) PROVE c[k] = s[k]
      <3>1. CASE k <= i
        BY <1>1, <1>2, <1>3, <2>1, <3>1
      <3>2. CASE k > i
        <4>1. k - i \in 1 .. Len(s) - i /\ (k - i) + i = k
          BY <1>1, <3>2
        <4>2. c[k] = b[k - i]
          BY <1>1, <1>2, <1>3, <2>1, <3>2
        <4> QED BY <1>3, <4>1, <4>2
      <3> QED BY <1>1, <3>1, <3>2
    <2> QED BY <2>1, <2>2, <2>3
  <1> HIDE DEF c
  <1>5. c = s
    BY <1>4, SameSeq
  <1> QED BY <1>2, <1>3, <1>5 DEF a, b, c

\* A piece put into a text is added to what it has.
LEMMA TimesInserted ==
  ASSUME NEW S, NEW s \in Seq(S), NEW i \in 0 .. Len(s), NEW x \in S, NEW K
  PROVE  LET r == SubSeq(s, 1, i) \o <<x>> \o SubSeq(s, i + 1, Len(s))
         IN  r \in Seq(S) /\ Times(r, K) = Times(s, K) + (IF x \in K THEN 1 ELSE 0)
  <1> DEFINE a == SubSeq(s, 1, i)
             b == SubSeq(s, i + 1, Len(s))
             one == <<x>>
             c == a \o one
             o == IF x \in K THEN 1 ELSE 0
  <1>1. a \in Seq(S) /\ b \in Seq(S) /\ one \in Seq(S) /\ a \o b = s
    <2>1. a \in Seq(S) /\ b \in Seq(S) /\ a \o b = s
      <3> HIDE DEF one, c, o
      <3> QED BY Halves
    <2>2. one \in Seq(S)
      OBVIOUS
    <2> QED BY <2>1, <2>2
  <1>8. a \in Seq(S) /\ b \in Seq(S)
    BY <1>1
  <1>2. Times(one, K) = o
    <2>1. 1 \in DOMAIN one /\ one[1] = x /\ Before(one, 1) = <<>> /\ After(one, 1) = <<>>
      BY DEF Before, After
    <2>2. Times(<<>>, K) = 0
      <3>1. <<>> \in Seq(S)
        OBVIOUS
      <3> QED BY <3>1, TimesIsCount
    <2>3. Times(one, K) = 0 + (IF x \in K THEN 1 ELSE 0) + 0
      <3> HIDE DEF one
      <3> QED BY <1>1, <2>1, <2>2, TimesSplit
    <2> QED BY <2>3
  <1> HIDE DEF a, b, one
  <1>3. c \in Seq(S) /\ Times(c, K) = Times(a, K) + o
    BY <1>1, <1>2, TimesConcat
  <1>4. Times(s, K) = Times(a, K) + Times(b, K) /\ Times(a, K) \in Nat /\ Times(b, K) \in Nat
    <2>1. Times(a \o b, K) = Times(a, K) + Times(b, K)
      <3> HIDE DEF c, o
      <3> QED BY <1>8, TimesConcat
    <2>2. Times(a, K) \in Nat /\ Times(b, K) \in Nat
      BY <1>1, TimesIsCount
    <2> QED BY <1>1, <2>1, <2>2
  <1> HIDE DEF c
  <1>5. c \o b \in Seq(S) /\ Times(c \o b, K) = Times(c, K) + Times(b, K)
    BY <1>1, <1>3, TimesConcat
  <1>6. o \in Nat
    OBVIOUS
  <1> HIDE DEF o
  <1>7. Times(c \o b, K) = Times(s, K) + o
    BY <1>1, <1>3, <1>4, <1>5, <1>6
  <1> QED BY <1>5, <1>7 DEF a, b, c, one, o

\* A piece of another kind at the end of a text changes nothing.
LEMMA TimesAppended ==
  ASSUME NEW S, NEW s \in Seq(S), NEW x \in S, NEW K, x \notin K
  PROVE  Append(s, x) \in Seq(S) /\ Times(Append(s, x), K) = Times(s, K)
  <1> DEFINE r == Append(s, x)
  <1>1. /\ r \in Seq(S) /\ DOMAIN r = DOMAIN s \cup {Len(s) + 1} /\ r[Len(s) + 1] = x
        /\ \A k \in DOMAIN s : r[k] = s[k]
    OBVIOUS
  <1> HIDE DEF r
  <1>2. {k \in DOMAIN r : r[k] \in K} = {k \in DOMAIN s : s[k] \in K}
    BY <1>1
  <1> QED BY <1>1, <1>2 DEF r, Times, Quantify

\* A text that a piece is taken out of has no more than it had.
LEMMA TimesErased ==
  ASSUME NEW S, NEW s \in Seq(S), NEW i \in DOMAIN s, NEW K
  PROVE  LET r == SubSeq(s, 1, i - 1) \o SubSeq(s, i + 1, Len(s))
         IN  r \in Seq(S) /\ Times(r, K) <= Times(s, K)
  <1>1. Before(s, i) \in Seq(S) /\ After(s, i) \in Seq(S)
    BY SplitAt
  <1>2. /\ Before(s, i) \o After(s, i) \in Seq(S)
        /\ Times(Before(s, i) \o After(s, i), K) = Times(Before(s, i), K) + Times(After(s, i), K)
    BY <1>1, TimesConcat
  <1>3. Times(Before(s, i), K) \in Nat /\ Times(After(s, i), K) \in Nat
    BY <1>1, TimesIsCount
  <1>4. Times(s, K) = Times(Before(s, i), K) + (IF s[i] \in K THEN 1 ELSE 0) + Times(After(s, i), K)
    BY TimesSplit
  <1>5. Times(Before(s, i) \o After(s, i), K) <= Times(s, K)
    BY <1>2, <1>3, <1>4
  <1> QED BY <1>2, <1>5 DEF Before, After

-----------------------------------------------------------------------------
(* What DictatedChars computes                                              *)

\* The places where a text and the drafts have a piece in common, and the first.
Matching(text, clips) == {y \in (DOMAIN text) \X (DOMAIN clips) : text[y[1]] = clips[y[2]]}
At(text, clips)   == Min({y[1] : y \in Matching(text, clips)})
From(text, clips) ==
  Min({y[2] : y \in {z \in Matching(text, clips) : z[1] = At(text, clips)}})

DictStep(F, text, clips) ==
  IF text = <<>> \/ clips = <<>> THEN 0
  ELSE IF Matching(text, clips) = {} THEN Runs * Counted(Coincidence)
  ELSE F[Before(text, At(text, clips))][Before(clips, From(text, clips))] + Counted(Chars)
         + F[After(text, At(text, clips))][After(clips, From(text, clips))]
Dictates(F) == F = [text \in Seq(Pieces) |-> [clips \in Seq(Clips) |-> DictStep(F, text, clips)]]

LEMMA DictatedIs == DictatedChars = CHOOSE F : Dictates(F)
  BY DEF DictatedChars, Dictates, DictStep, Matching, At, From, Before, After

LEMMA FirstMatch ==
  ASSUME NEW text \in Seq(Pieces), NEW clips \in Seq(Clips), Matching(text, clips) # {}
  PROVE  /\ At(text, clips) \in DOMAIN text /\ From(text, clips) \in DOMAIN clips
         /\ text[At(text, clips)] = clips[From(text, clips)]
         /\ \A k \in DOMAIN text, m \in DOMAIN clips :
              k < At(text, clips) => text[k] # clips[m]
  <1> DEFINE M == Matching(text, clips)
             I == {y[1] : y \in M}
             i == At(text, clips)
             J == {y[2] : y \in {z \in M : z[1] = i}}
             j == From(text, clips)
  <1>1. /\ Len(text) \in Nat /\ DOMAIN text = 1 .. Len(text)
        /\ Len(clips) \in Nat /\ DOMAIN clips = 1 .. Len(clips)
    OBVIOUS
  <1>2. \A y \in M : y[1] \in DOMAIN text /\ y[2] \in DOMAIN clips /\ text[y[1]] = clips[y[2]]
    BY DEF Matching
  <1>3. \A k \in DOMAIN text, m \in DOMAIN clips : text[k] = clips[m] => <<k, m>> \in M
    BY DEF Matching
  <1>4. i = Min(I) /\ j = Min(J) /\ M # {}
    BY DEF At, From
  <1> HIDE DEF M, i, j
  <1>5. I \in SUBSET Nat /\ I # {}
    BY <1>1, <1>2, <1>4
  <1>6. i \in I /\ \A k \in I : i <= k
    BY <1>4, <1>5, MinFacts
  <1>7. J \in SUBSET Nat /\ J # {}
    <2>1. PICK y \in M : y[1] = i
      BY <1>6
    <2> QED BY <1>1, <1>2, <2>1
  <1>8. j \in J
    BY <1>4, <1>7, MinFacts
  <1>9. i \in DOMAIN text /\ j \in DOMAIN clips /\ text[i] = clips[j]
    <2>1. PICK z \in M : z[1] = i /\ z[2] = j
      BY <1>8
    <2> QED BY <1>2, <2>1
  <1>10. ASSUME NEW k \in DOMAIN text, NEW m \in DOMAIN clips, text[k] = clips[m]
         PROVE  k \in I
    <2>1. <<k, m>> \in M /\ <<k, m>>[1] = k
      BY <1>3, <1>10
    <2> QED BY <2>1
  <1> HIDE DEF I, J
  <1>11. \A k \in DOMAIN text, m \in DOMAIN clips : k < i => text[k] # clips[m]
    BY <1>1, <1>6, <1>9, <1>10
  <1> QED BY <1>9, <1>11 DEF i, j

\* The step looks at shorter texts only.
LEMMA StepLooksShorter ==
  ASSUME NEW text \in Seq(Pieces), NEW clips \in Seq(Clips), NEW F, NEW G,
         \A t \in Seq(Pieces), c \in Seq(Clips) : Len(t) < Len(text) => F[t][c] = G[t][c]
  PROVE  DictStep(F, text, clips) = DictStep(G, text, clips)
  <1> SUFFICES ASSUME Matching(text, clips) # {}
               PROVE  DictStep(F, text, clips) = DictStep(G, text, clips)
    BY DEF DictStep
  <1> DEFINE i == At(text, clips)
             j == From(text, clips)
  <1>1. i \in DOMAIN text /\ j \in DOMAIN clips
    BY FirstMatch
  <1> HIDE DEF i, j
  <1>2. /\ Before(text, i) \in Seq(Pieces) /\ Len(Before(text, i)) < Len(text)
        /\ After(text, i) \in Seq(Pieces) /\ Len(After(text, i)) < Len(text)
    <2>1. /\ Len(text) \in Nat /\ DOMAIN text = 1 .. Len(text)
          /\ Before(text, i) \in Seq(Pieces) /\ Len(Before(text, i)) = i - 1
          /\ After(text, i) \in Seq(Pieces) /\ Len(After(text, i)) = Len(text) - i
      BY <1>1, SplitAt
    <2> QED BY <1>1, <2>1
  <1>3. Before(clips, j) \in Seq(Clips) /\ After(clips, j) \in Seq(Clips)
    BY <1>1, SplitAt
  <1>4. /\ F[Before(text, i)][Before(clips, j)] = G[Before(text, i)][Before(clips, j)]
        /\ F[After(text, i)][After(clips, j)] = G[After(text, i)][After(clips, j)]
    BY <1>2, <1>3
  <1> QED BY <1>4 DEF DictStep, i, j

\* F is right on texts of up to n pieces.
RightUpTo(F, n) ==
  \A t \in Seq(Pieces), c \in Seq(Clips) : Len(t) <= n => F[t][c] = DictStep(F, t, c)

LEMMA RightOnesAgree ==
  ASSUME NEW n \in Nat, NEW m \in Nat, NEW F, NEW G, RightUpTo(F, n), RightUpTo(G, m)
  PROVE  \A t \in Seq(Pieces), c \in Seq(Clips) : Len(t) <= n /\ Len(t) <= m => F[t][c] = G[t][c]
  <1> DEFINE N == {k \in Nat : \A t \in Seq(Pieces), c \in Seq(Clips) :
                                 Len(t) < k /\ Len(t) <= n /\ Len(t) <= m => F[t][c] = G[t][c]}
  <1>0. \A t \in Seq(Pieces) : Len(t) \in Nat
    OBVIOUS
  <1>1. 0 \in N
    BY <1>0
  <1>2. ASSUME NEW k \in Nat, k \in N PROVE k + 1 \in N
    <2> SUFFICES ASSUME NEW t \in Seq(Pieces), NEW c \in Seq(Clips),
                        Len(t) < k + 1, Len(t) <= n, Len(t) <= m
                 PROVE  F[t][c] = G[t][c]
      OBVIOUS
    <2>1. \A s \in Seq(Pieces), d \in Seq(Clips) : Len(s) < Len(t) => F[s][d] = G[s][d]
      <3> SUFFICES ASSUME NEW s \in Seq(Pieces), NEW d \in Seq(Clips), Len(s) < Len(t)
                   PROVE  F[s][d] = G[s][d]
        OBVIOUS
      <3>1. Len(s) \in Nat /\ Len(t) \in Nat
        BY <1>0
      <3>2. Len(s) < k /\ Len(s) <= n /\ Len(s) <= m
        BY <3>1
      <3> QED BY <1>2, <3>2
    <2>2. DictStep(F, t, c) = DictStep(G, t, c)
      BY <2>1, StepLooksShorter
    <2>3. F[t][c] = DictStep(F, t, c) /\ G[t][c] = DictStep(G, t, c)
      BY DEF RightUpTo
    <2> QED BY <2>2, <2>3
  <1>3. Nat \subseteq N
    <2> HIDE DEF N
    <2> QED BY <1>1, <1>2, SetInduction
  <1> SUFFICES ASSUME NEW t \in Seq(Pieces), NEW c \in Seq(Clips), Len(t) <= n, Len(t) <= m
               PROVE  F[t][c] = G[t][c]
    OBVIOUS
  <1>4. Len(t) + 1 \in N
    BY <1>0, <1>3
  <1> QED BY <1>0, <1>4

LEMMA SomeOneIsRight == \A n \in Nat : \E F : RightUpTo(F, n)
  <1> DEFINE N == {n \in Nat : \E F : RightUpTo(F, n)}
             Fun(F) == [t \in Seq(Pieces) |-> [c \in Seq(Clips) |-> DictStep(F, t, c)]]
  <1>0. \A t \in Seq(Pieces) : Len(t) \in Nat
    OBVIOUS
  <1>1. 0 \in N
    <2>1. \A F : RightUpTo(Fun(F), 0)
      <3> SUFFICES ASSUME NEW F, NEW t \in Seq(Pieces), NEW c \in Seq(Clips), Len(t) <= 0
                   PROVE  Fun(F)[t][c] = DictStep(Fun(F), t, c)
        BY DEF RightUpTo
      <3>1. t = <<>>
        BY <1>0
      <3> QED BY <3>1 DEF DictStep
    <2> QED BY <2>1
  <1>2. ASSUME NEW n \in Nat, n \in N PROVE n + 1 \in N
    <2>1. PICK F : RightUpTo(F, n)
      BY <1>2
    <2> DEFINE H == Fun(F)
    <2>2. \A t \in Seq(Pieces), c \in Seq(Clips) : H[t][c] = DictStep(F, t, c)
      OBVIOUS
    <2> HIDE DEF H
    <2>3. ASSUME NEW t \in Seq(Pieces), NEW c \in Seq(Clips), Len(t) <= n + 1
          PROVE  H[t][c] = DictStep(H, t, c)
      <3>1. \A s \in Seq(Pieces), d \in Seq(Clips) : Len(s) < Len(t) => F[s][d] = H[s][d]
        <4> SUFFICES ASSUME NEW s \in Seq(Pieces), NEW d \in Seq(Clips), Len(s) < Len(t)
                     PROVE  F[s][d] = H[s][d]
          OBVIOUS
        <4>1. Len(s) <= n
          BY <1>0, <2>3
        <4> QED BY <2>1, <2>2, <4>1 DEF RightUpTo
      <3>2. DictStep(F, t, c) = DictStep(H, t, c)
        BY <3>1, StepLooksShorter
      <3> QED BY <2>2, <3>2
    <2>4. RightUpTo(H, n + 1)
      BY <2>3 DEF RightUpTo
    <2> QED BY <2>4
  <1>3. Nat \subseteq N
    <2> HIDE DEF N
    <2> QED BY <1>1, <1>2, SetInduction
  <1> QED BY <1>3

LEMMA DictatesExists == \E F : Dictates(F)
  <1> DEFINE G(n) == CHOOSE F : RightUpTo(F, n)
             H == [t \in Seq(Pieces) |-> [c \in Seq(Clips) |-> G(Len(t))[t][c]]]
  <1>0. \A t \in Seq(Pieces) : Len(t) \in Nat
    OBVIOUS
  <1>1. \A n \in Nat : RightUpTo(G(n), n)
    BY SomeOneIsRight
  <1>2. \A t \in Seq(Pieces), c \in Seq(Clips) : H[t][c] = G(Len(t))[t][c]
    OBVIOUS
  <1> HIDE DEF G, H
  <1>3. ASSUME NEW t \in Seq(Pieces), NEW c \in Seq(Clips)
        PROVE  G(Len(t))[t][c] = DictStep(H, t, c)
    <2> DEFINE n == Len(t)
    <2>1. n \in Nat /\ RightUpTo(G(n), n)
      BY <1>0, <1>1
    <2>2. \A s \in Seq(Pieces), d \in Seq(Clips) : Len(s) < n => G(n)[s][d] = H[s][d]
      <3> SUFFICES ASSUME NEW s \in Seq(Pieces), NEW d \in Seq(Clips), Len(s) < n
                   PROVE  G(n)[s][d] = H[s][d]
        OBVIOUS
      <3> DEFINE m == Len(s)
      <3>1. m \in Nat /\ RightUpTo(G(m), m) /\ m <= n
        BY <1>0, <1>1, <2>1
      <3>2. m <= m /\ G(n)[s][d] = G(m)[s][d]
        <4>1. Len(s) <= n /\ Len(s) <= m
          BY <3>1
        <4> HIDE DEF m, n
        <4> QED BY <2>1, <3>1, <4>1, RightOnesAgree
      <3> QED BY <1>2, <3>2
    <2>3. DictStep(G(n), t, c) = DictStep(H, t, c)
      <3> HIDE DEF G
      <3> QED BY <2>2, StepLooksShorter
    <2>4. G(n)[t][c] = DictStep(G(n), t, c)
      BY <2>1 DEF RightUpTo
    <2> QED BY <2>3, <2>4
  <1>4. H = [t \in Seq(Pieces) |-> [c \in Seq(Clips) |-> DictStep(H, t, c)]]
    <2>1. H = [t \in Seq(Pieces) |-> [c \in Seq(Clips) |-> G(Len(t))[t][c]]]
      BY DEF H
    <2>2. \A t \in Seq(Pieces) : [c \in Seq(Clips) |-> G(Len(t))[t][c]] = [c \in Seq(Clips) |-> DictStep(H, t, c)]
      BY <1>3
    <2> QED BY <2>1, <2>2
  <1> QED BY <1>4 DEF Dictates

LEMMA DictatedRec ==
  ASSUME NEW text \in Seq(Pieces), NEW clips \in Seq(Clips)
  PROVE  DictatedChars[text][clips] =
           IF Matching(text, clips) = {} THEN 0
           ELSE DictatedChars[Before(text, At(text, clips))][Before(clips, From(text, clips))]
                  + Chars
                  + DictatedChars[After(text, At(text, clips))][After(clips, From(text, clips))]
  <1> DEFINE D == DictatedChars
  <1>1. Dictates(D)
    BY DictatedIs, DictatesExists
  <1> HIDE DEF D
  <1>2. D[text][clips] = DictStep(D, text, clips)
    <2>1. D = [t \in Seq(Pieces) |-> [c \in Seq(Clips) |-> DictStep(D, t, c)]]
      BY <1>1 DEF Dictates
    <2>2. D[text] = [c \in Seq(Clips) |-> DictStep(D, text, c)]
      BY <2>1
    <2> QED BY <2>2
  <1>3. text = <<>> \/ clips = <<>> => Matching(text, clips) = {}
    BY DEF Matching
  <1>4. Runs * Counted(Coincidence) = 0 /\ Counted(Chars) = Chars
    BY DEF Runs, Counted, Coincidence, LongEnough, MinBlock, Chars
  <1> QED BY <1>2, <1>3, <1>4 DEF DictStep, D

\* Drafts in order: those before the one at a place are smaller, those after it bigger.
LEMMA AscendingSplit ==
  ASSUME NEW clips \in Seq(Clips), Ascending(clips), NEW j \in DOMAIN clips
  PROVE  /\ Ascending(Before(clips, j)) /\ Ascending(After(clips, j))
         /\ Before(clips, j) \in Seq(Clips) /\ After(clips, j) \in Seq(Clips)
         /\ \A v \in ToSet(Before(clips, j)) : v \in ToSet(clips) /\ v \in Nat /\ v < clips[j]
         /\ \A v \in ToSet(After(clips, j)) : v \in ToSet(clips) /\ v \in Nat /\ v > clips[j]
         /\ \A v \in ToSet(clips) : v > clips[j] => v \in ToSet(After(clips, j))
         /\ clips[j] \in Clips /\ clips[j] \in ToSet(clips)
  <1> DEFINE b == Before(clips, j)
             a == After(clips, j)
  <1>0. Clips \subseteq Nat
    BY VoiceAssumption DEF Clips
  <1>1. /\ Len(clips) \in Nat /\ DOMAIN clips = 1 .. Len(clips) /\ j \in 1 .. Len(clips)
        /\ b \in Seq(Clips) /\ DOMAIN b = 1 .. j - 1
        /\ \A k \in 1 .. j - 1 : b[k] = clips[k]
        /\ a \in Seq(Clips) /\ DOMAIN a = 1 .. Len(clips) - j
        /\ \A k \in 1 .. Len(clips) - j : a[k] = clips[k + j]
        /\ \A k \in j + 1 .. Len(clips) : k - j \in 1 .. Len(clips) - j /\ a[k - j] = clips[k]
    BY SplitAt
  <1>2. \A k \in 1 .. Len(clips) : clips[k] \in Clips /\ clips[k] \in Nat
    <2>1. \A k \in 1 .. Len(clips) : clips[k] \in Clips
      OBVIOUS
    <2> QED BY <1>0, <2>1
  <1>3. \A k, m \in 1 .. Len(clips) : k < m => clips[k] < clips[m]
    BY <1>1 DEF Ascending
  <1> HIDE DEF a, b
  <1>4. Ascending(b)
    BY <1>1, <1>3 DEF Ascending
  <1>5. Ascending(a)
    <2> SUFFICES ASSUME NEW k \in 1 .. Len(clips) - j, NEW m \in 1 .. Len(clips) - j, k < m
                 PROVE  a[k] < a[m]
      BY <1>1 DEF Ascending
    <2>1. k + j \in 1 .. Len(clips) /\ m + j \in 1 .. Len(clips) /\ k + j < m + j
      BY <1>1
    <2>2. clips[k + j] < clips[m + j]
      BY <1>3, <2>1
    <2> QED BY <1>1, <2>2
  <1>6. \A v \in ToSet(b) : v \in ToSet(clips) /\ v \in Nat /\ v < clips[j]
    <2> SUFFICES ASSUME NEW k \in 1 .. j - 1
                 PROVE  b[k] \in ToSet(clips) /\ b[k] \in Nat /\ b[k] < clips[j]
      BY <1>1 DEF ToSet
    <2>1. k \in 1 .. Len(clips) /\ k < j
      BY <1>1
    <2> QED BY <1>1, <1>2, <1>3, <2>1 DEF ToSet
  <1>7. \A v \in ToSet(a) : v \in ToSet(clips) /\ v \in Nat /\ v > clips[j]
    <2> SUFFICES ASSUME NEW k \in 1 .. Len(clips) - j
                 PROVE  a[k] \in ToSet(clips) /\ a[k] \in Nat /\ a[k] > clips[j]
      BY <1>1 DEF ToSet
    <2>1. k + j \in 1 .. Len(clips) /\ j < k + j /\ a[k] = clips[k + j]
      BY <1>1
    <2>2. clips[k + j] \in Nat /\ clips[j] \in Nat /\ clips[j] < clips[k + j]
      BY <1>1, <1>2, <1>3, <2>1
    <2>3. clips[k + j] \in ToSet(clips)
      BY <1>1, <2>1 DEF ToSet
    <2> QED BY <2>1, <2>2, <2>3
  <1>8. \A v \in ToSet(clips) : v > clips[j] => v \in ToSet(a)
    <2> SUFFICES ASSUME NEW k \in 1 .. Len(clips), clips[k] > clips[j]
                 PROVE  clips[k] \in ToSet(a)
      BY <1>1 DEF ToSet
    <2>1. k > j
      <3>1. ~(k < j) /\ k # j
        BY <1>1, <1>2, <1>3
      <3> QED BY <1>1, <3>1
    <2>2. k \in j + 1 .. Len(clips)
      BY <1>1, <2>1
    <2> QED BY <1>1, <2>2 DEF ToSet
  <1>9. clips[j] \in Clips /\ clips[j] \in ToSet(clips)
    BY <1>1, <1>2 DEF ToSet
  <1> QED BY <1>1, <1>4, <1>5, <1>6, <1>7, <1>8, <1>9 DEF a, b

LEMMA PartsOfText ==
  ASSUME NEW S, NEW s \in Seq(S), NEW i \in DOMAIN s
  PROVE  /\ ToSet(Before(s, i)) \subseteq ToSet(s) /\ ToSet(After(s, i)) \subseteq ToSet(s)
         /\ s[i] \in ToSet(s)
  <1>1. /\ Len(s) \in Nat /\ DOMAIN s = 1 .. Len(s) /\ i \in 1 .. Len(s)
        /\ DOMAIN Before(s, i) = 1 .. i - 1
        /\ \A k \in 1 .. i - 1 : Before(s, i)[k] = s[k]
        /\ DOMAIN After(s, i) = 1 .. Len(s) - i
        /\ \A k \in 1 .. Len(s) - i : After(s, i)[k] = s[k + i]
    BY SplitAt
  <1>2. ToSet(Before(s, i)) \subseteq ToSet(s)
    BY <1>1 DEF ToSet
  <1>3. ToSet(After(s, i)) \subseteq ToSet(s)
    <2> SUFFICES ASSUME NEW k \in 1 .. Len(s) - i PROVE After(s, i)[k] \in ToSet(s)
      BY <1>1 DEF ToSet
    <2>1. k + i \in DOMAIN s
      BY <1>1
    <2> QED BY <1>1, <2>1 DEF ToSet
  <1> QED BY <1>1, <1>2, <1>3 DEF ToSet

LEMMA FiniteValues ==
  ASSUME NEW S, NEW s \in Seq(S)
  PROVE  IsFiniteSet(ToSet(s)) /\ Cardinality(ToSet(s)) \in Nat
  <1>1. IsFiniteSet(DOMAIN s)
    BY PositionsAreFinite
  <1>2. ToSet(s) = {s[k] : k \in DOMAIN s}
    BY DEF ToSet
  <1>3. IsFiniteSet(ToSet(s))
    <2> DEFINE f == [k \in DOMAIN s |-> s[k]]
    <2>1. f \in Surjection(DOMAIN s, ToSet(s))
      BY <1>2 DEF Surjection
    <2> QED BY <1>1, <2>1, FS_Surjection
  <1> QED BY <1>3, FS_CardinalityType

\* Each draft is credited once at most, and only if it is in the text.
LEMMA CreditIsBounded ==
  ASSUME NEW text \in Seq(Pieces), NEW clips \in Seq(Clips), Ascending(clips)
  PROVE  /\ DictatedChars[text][clips] \in Nat
         /\ DictatedChars[text][clips] <= Chars * Cardinality(ToSet(text) \cap ToSet(clips))
  <1> DEFINE Both(t, c) == ToSet(t) \cap ToSet(c)
             Good(t, c) == /\ DictatedChars[t][c] \in Nat
                           /\ DictatedChars[t][c] <= Chars * Cardinality(Both(t, c))
             N == {n \in Nat : \A t \in Seq(Pieces), c \in Seq(Clips) :
                                 Len(t) < n /\ Ascending(c) => Good(t, c)}
  <1>0. \A t \in Seq(Pieces) : Len(t) \in Nat
    OBVIOUS
  <1>f. ASSUME NEW t \in Seq(Pieces), NEW c
        PROVE  IsFiniteSet(Both(t, c)) /\ Cardinality(Both(t, c)) \in Nat
    BY FiniteValues, FS_Subset, FS_CardinalityType
  <1>1. 0 \in N
    BY <1>0
  <1>2. ASSUME NEW n \in Nat, n \in N PROVE n + 1 \in N
    <2> SUFFICES ASSUME NEW t \in Seq(Pieces), NEW c \in Seq(Clips), Len(t) < n + 1, Ascending(c)
                 PROVE  Good(t, c)
      OBVIOUS
    <2>1. CASE Matching(t, c) = {}
      <3>1. DictatedChars[t][c] = 0
        BY <2>1, DictatedRec
      <3>2. Cardinality(Both(t, c)) \in Nat
        BY <1>f
      <3> HIDE DEF Both
      <3> QED BY <3>1, <3>2 DEF Chars
    <2>2. CASE Matching(t, c) # {}
      <3> DEFINE i == At(t, c)
                 j == From(t, c)
                 tb == Before(t, i)
                 ta == After(t, i)
                 cb == Before(c, j)
                 ca == After(c, j)
      <3>1. i \in DOMAIN t /\ j \in DOMAIN c /\ t[i] = c[j]
        BY <2>2, FirstMatch
      <3>2. DictatedChars[t][c] = DictatedChars[tb][cb] + Chars + DictatedChars[ta][ca]
        BY <2>2, DictatedRec
      <3> HIDE DEF i, j
      <3>3. /\ tb \in Seq(Pieces) /\ Len(tb) < n /\ ta \in Seq(Pieces) /\ Len(ta) < n
        <4>1. /\ Len(t) \in Nat /\ DOMAIN t = 1 .. Len(t)
              /\ tb \in Seq(Pieces) /\ Len(tb) = i - 1
              /\ ta \in Seq(Pieces) /\ Len(ta) = Len(t) - i
          BY <3>1, SplitAt
        <4> QED BY <3>1, <4>1
      <3>4. /\ Ascending(cb) /\ Ascending(ca) /\ cb \in Seq(Clips) /\ ca \in Seq(Clips)
            /\ \A v \in ToSet(cb) : v \in ToSet(c) /\ v \in Nat /\ v < c[j]
            /\ \A v \in ToSet(ca) : v \in ToSet(c) /\ v \in Nat /\ v > c[j]
            /\ c[j] \in Clips /\ c[j] \in ToSet(c)
        BY <3>1, AscendingSplit
      <3>5. ToSet(tb) \subseteq ToSet(t) /\ ToSet(ta) \subseteq ToSet(t) /\ t[i] \in ToSet(t)
        BY <3>1, PartsOfText
      <3>6. c[j] \in Nat
        BY <3>4, VoiceAssumption DEF Clips
      <3> HIDE DEF tb, ta, cb, ca
      <3>7. Good(tb, cb) /\ Good(ta, ca)
        BY <1>2, <3>3, <3>4
      <3> DEFINE L == Both(tb, cb)
                 R == Both(ta, ca)
                 A == Both(t, c)
                 x == c[j]
      <3>8. x \in A /\ x \notin L /\ L \subseteq A /\ R \subseteq A /\ R \cap (L \cup {x}) = {}
        BY <3>1, <3>4, <3>5, <3>6
      <3>9. /\ IsFiniteSet(A) /\ Cardinality(A) \in Nat
            /\ IsFiniteSet(L) /\ Cardinality(L) \in Nat
            /\ IsFiniteSet(R) /\ Cardinality(R) \in Nat
        BY <1>f, <3>3
      <3> DEFINE l == Cardinality(L)
                 r == Cardinality(R)
                 a == Cardinality(A)
                 dl == DictatedChars[tb][cb]
                 dr == DictatedChars[ta][ca]
                 d  == DictatedChars[t][c]
      <3>10. dl \in Nat /\ dl <= Chars * l /\ dr \in Nat /\ dr <= Chars * r /\ d = dl + Chars + dr
        BY <3>2, <3>7 DEF tb, cb, ta, ca
      <3>11. l + 1 + r <= a
        <4> DEFINE Lx == L \cup {x}
        <4> HIDE DEF L, R, A, x
        <4>1. IsFiniteSet(Lx) /\ Cardinality(Lx) = Cardinality(L) + 1
          BY <3>8, <3>9, FS_AddElement
        <4> HIDE DEF Lx
        <4>2. Cardinality(Lx \cup R) = Cardinality(Lx) + Cardinality(R) - Cardinality(Lx \cap R)
          BY <3>9, <4>1, FS_Union
        <4>3. Lx \cup R \subseteq A /\ Lx \cap R = {}
          BY <3>8 DEF Lx
        <4>4. Cardinality(Lx \cap R) = 0
          BY <4>3, FS_EmptySet
        <4>5. Cardinality(Lx \cup R) <= Cardinality(A)
          BY <3>9, <4>3, FS_Subset
        <4> QED BY <3>9, <4>1, <4>2, <4>4, <4>5
      <3>12. a \in Nat /\ l \in Nat /\ r \in Nat
        BY <3>9
      <3>13. Good(t, c) <=> d \in Nat /\ d <= Chars * a
        OBVIOUS
      <3> HIDE DEF L, R, A, l, r, a, dl, dr, d, Good
      <3>14. d \in Nat /\ d <= Chars * a
        BY <3>10, <3>11, <3>12 DEF Chars
      <3> QED BY <3>13, <3>14
    <2> QED BY <2>1, <2>2
  <1>3. Nat \subseteq N
    <2> HIDE DEF N
    <2> QED BY <1>1, <1>2, SetInduction
  <1>4. Len(text) + 1 \in N
    BY <1>0, <1>3
  <1> QED BY <1>0, <1>4

\* A text whose drafts are among the given ones and in their order is credited
\* with all of them.
LEMMA CreditIsFull ==
  ASSUME NEW text \in Seq(Pieces), NEW clips \in Seq(Clips), Ascending(clips),
         Spoken(text) \subseteq ToSet(clips), InOrder(text)
  PROVE  DictatedChars[text][clips] = Chars * Times(text, Clips)
  <1> DEFINE Fits(t, c) == Ascending(c) /\ Spoken(t) \subseteq ToSet(c) /\ InOrder(t)
             Good(t, c) == DictatedChars[t][c] = Chars * Times(t, Clips)
             N == {n \in Nat : \A t \in Seq(Pieces), c \in Seq(Clips) :
                                 Len(t) < n /\ Fits(t, c) => Good(t, c)}
  <1>0. \A t \in Seq(Pieces) : Len(t) \in Nat
    OBVIOUS
  <1> HIDE DEF Fits, Good
  <1>c. Clips \subseteq Nat
    BY VoiceAssumption DEF Clips
  <1>1. 0 \in N
    BY <1>0
  <1>2. ASSUME NEW n \in Nat, n \in N PROVE n + 1 \in N
    <2> SUFFICES ASSUME NEW t \in Seq(Pieces), NEW c \in Seq(Clips), Len(t) < n + 1, Fits(t, c)
                 PROVE  Good(t, c)
      OBVIOUS
    <2>0. Ascending(c) /\ Spoken(t) \subseteq ToSet(c) /\ InOrder(t)
      BY DEF Fits
    <2>a. \A k \in DOMAIN t : t[k] \in Clips => \E m \in DOMAIN c : t[k] = c[m]
      BY <2>0 DEF Spoken, ToSet
    <2>1. CASE Matching(t, c) = {}
      <3>1. DictatedChars[t][c] = 0
        BY <2>1, DictatedRec
      <3>2. {k \in DOMAIN t : t[k] \in Clips} = {}
        <4> SUFFICES ASSUME NEW k \in DOMAIN t, t[k] \in Clips PROVE FALSE
          OBVIOUS
        <4>1. PICK m \in DOMAIN c : t[k] = c[m]
          BY <2>a
        <4>2. <<k, m>> \in Matching(t, c)
          BY <4>1 DEF Matching
        <4> QED BY <2>1, <4>2
      <3>3. Times(t, Clips) = 0
        BY <3>2, FS_EmptySet DEF Times, Quantify
      <3> QED BY <3>1, <3>3 DEF Chars, Good
    <2>2. CASE Matching(t, c) # {}
      <3> DEFINE i == At(t, c)
                 j == From(t, c)
                 tb == Before(t, i)
                 ta == After(t, i)
                 cb == Before(c, j)
                 ca == After(c, j)
      <3>1. /\ i \in DOMAIN t /\ j \in DOMAIN c /\ t[i] = c[j]
            /\ \A k \in DOMAIN t, m \in DOMAIN c : k < i => t[k] # c[m]
        BY <2>2, FirstMatch
      <3>2. DictatedChars[t][c] = DictatedChars[tb][cb] + Chars + DictatedChars[ta][ca]
        BY <2>2, DictatedRec
      <3> HIDE DEF i, j
      <3>3. /\ Len(t) \in Nat /\ DOMAIN t = 1 .. Len(t) /\ i \in 1 .. Len(t)
            /\ tb \in Seq(Pieces) /\ Len(tb) = i - 1 /\ DOMAIN tb = 1 .. i - 1
            /\ \A k \in 1 .. i - 1 : tb[k] = t[k]
            /\ ta \in Seq(Pieces) /\ Len(ta) = Len(t) - i /\ DOMAIN ta = 1 .. Len(t) - i
            /\ \A k \in 1 .. Len(t) - i : ta[k] = t[k + i]
        <4>1. i \in DOMAIN t
          BY <3>1
        <4>2. /\ Len(t) \in Nat /\ DOMAIN t = 1 .. Len(t)
              /\ tb \in Seq(Pieces) /\ Len(tb) = i - 1 /\ DOMAIN tb = 1 .. i - 1
              /\ \A k \in 1 .. i - 1 : tb[k] = t[k]
              /\ ta \in Seq(Pieces) /\ Len(ta) = Len(t) - i /\ DOMAIN ta = 1 .. Len(t) - i
              /\ \A k \in 1 .. Len(t) - i : ta[k] = t[k + i]
          BY <4>1, SplitAt
        <4> HIDE DEF tb, ta
        <4> QED BY <4>1, <4>2
      <3>4. /\ Ascending(cb) /\ Ascending(ca) /\ cb \in Seq(Clips) /\ ca \in Seq(Clips)
            /\ \A v \in ToSet(c) : v > c[j] => v \in ToSet(ca)
            /\ c[j] \in Clips
        BY <2>0, <3>1, AscendingSplit
      <3>t. Times(t, Clips) = Times(tb, Clips) + (IF t[i] \in Clips THEN 1 ELSE 0) + Times(ta, Clips)
        BY <3>1, TimesSplit
      <3> HIDE DEF tb, ta, cb, ca
      <3>5. \A k \in 1 .. i - 1 : tb[k] \notin Clips
        <4> SUFFICES ASSUME NEW k \in 1 .. i - 1, t[k] \in Clips PROVE FALSE
          BY <3>3
        <4>1. k \in DOMAIN t /\ k < i
          BY <3>3
        <4> QED BY <2>a, <3>1, <4>1
      <3>6. Fits(tb, cb)
        <4>1. Spoken(tb) = {}
          BY <3>3, <3>5 DEF Spoken, ToSet
        <4>2. InOrder(tb)
          BY <3>3, <3>5 DEF InOrder
        <4> QED BY <3>4, <4>1, <4>2 DEF Fits
      <3>7. Fits(ta, ca)
        <4>1. Spoken(ta) \subseteq ToSet(ca)
          <5> SUFFICES ASSUME NEW k \in 1 .. Len(t) - i, ta[k] \in Clips
                       PROVE  ta[k] \in ToSet(ca)
            BY <3>3 DEF Spoken, ToSet
          <5>1. k + i \in DOMAIN t /\ i < k + i /\ ta[k] = t[k + i]
            BY <3>3
          <5>2. t[i] < t[k + i]
            BY <2>0, <3>1, <3>4, <5>1 DEF InOrder
          <5>3. t[k + i] \in ToSet(c)
            BY <2>a, <5>1 DEF ToSet
          <5>4. t[k + i] \in Nat /\ c[j] \in Nat /\ t[k + i] > c[j]
            BY <1>c, <3>1, <3>4, <5>1, <5>2
          <5> QED BY <3>4, <5>1, <5>3, <5>4
        <4>2. InOrder(ta)
          <5> SUFFICES ASSUME NEW k \in 1 .. Len(t) - i, NEW m \in 1 .. Len(t) - i,
                              k < m, {ta[k], ta[m]} \subseteq Clips
                       PROVE  ta[k] < ta[m]
            BY <3>3 DEF InOrder
          <5>1. k + i \in DOMAIN t /\ m + i \in DOMAIN t /\ k + i < m + i
                /\ ta[k] = t[k + i] /\ ta[m] = t[m + i]
            BY <3>3
          <5>2. t[k + i] < t[m + i]
            BY <2>0, <5>1 DEF InOrder
          <5> QED BY <5>1, <5>2
        <4> QED BY <3>4, <4>1, <4>2 DEF Fits
      <3>8. Good(tb, cb) /\ Good(ta, ca)
        <4>1. Len(tb) < n /\ Len(ta) < n
          BY <3>3
        <4> QED BY <1>2, <3>3, <3>4, <3>6, <3>7, <4>1
      <3>9. Times(tb, Clips) \in Nat /\ Times(ta, Clips) \in Nat
        BY <3>3, PositionsAreFinite DEF Times, Quantify
      <3> DEFINE l == Times(tb, Clips)
                 r == Times(ta, Clips)
                 d == DictatedChars[t][c]
                 m == Times(t, Clips)
      <3>10. d = Chars * l + Chars + Chars * r /\ m = l + 1 + r
        BY <3>1, <3>2, <3>4, <3>8, <3>t DEF tb, ta, cb, ca, Good
      <3>11. l \in Nat /\ r \in Nat
        BY <3>9
      <3>12. Good(t, c) <=> d = Chars * m
        BY DEF Good
      <3> HIDE DEF l, r, d, m
      <3>13. d = Chars * m
        BY <3>10, <3>11 DEF Chars
      <3> QED BY <3>12, <3>13
    <2> QED BY <2>1, <2>2
  <1>3. Nat \subseteq N
    <2> HIDE DEF N
    <2> QED BY <1>1, <1>2, SetInduction
  <1>4. Len(text) + 1 \in N
    BY <1>0, <1>3
  <1> QED BY <1>0, <1>4 DEF Fits, Good

-----------------------------------------------------------------------------
(* Transcripts in order, and the pieces of a text by kind                   *)

LEMMA SortedExists ==
  ASSUME NEW n \in Nat, NEW S \in SUBSET (1 .. n)
  PROVE  \E s \in [1 .. Cardinality(S) -> S] : ToSet(s) = S /\ Ascending(s)
  <1> DEFINE Sorted(U) == \E s \in [1 .. Cardinality(U) -> U] : ToSet(s) = U /\ Ascending(s)
             N == {m \in Nat : \A U \in SUBSET (1 .. m) : Sorted(U)}
  <1> HIDE DEF Sorted
  <1>1. 0 \in N
    <2>1. Sorted({})
      <3>1. 1 .. Cardinality({}) = {}
        BY FS_EmptySet
      <3>2. [k \in {} |-> k] \in [{} -> {}] /\ ToSet([k \in {} |-> k]) = {}
            /\ Ascending([k \in {} |-> k])
        BY DEF ToSet, Ascending
      <3> QED BY <3>1, <3>2 DEF Sorted
    <2>2. 1 .. 0 = {}
      OBVIOUS
    <2> QED BY <2>1, <2>2
  <1>2. ASSUME NEW m \in Nat, m \in N PROVE m + 1 \in N
    <2> SUFFICES ASSUME NEW U \in SUBSET (1 .. m + 1) PROVE Sorted(U)
      OBVIOUS
    <2> DEFINE V == U \ {m + 1}
    <2>1. V \in SUBSET (1 .. m) /\ \A v \in V : v \in Nat /\ v < m + 1
      OBVIOUS
    <2>2. Sorted(V)
      <3> HIDE DEF V
      <3> QED BY <1>2, <2>1
    <2>3. CASE m + 1 \notin U
      <3>1. V = U
        BY <2>3
      <3> QED BY <2>2, <3>1
    <2>4. CASE m + 1 \in U
      <3>1. U = V \cup {m + 1} /\ m + 1 \notin V
        BY <2>4
      <3> DEFINE c == Cardinality(V)
      <3>2. IsFiniteSet(V) /\ c \in Nat
        <4>1. IsFiniteSet(1 .. m)
          BY FS_Interval
        <4> QED BY <2>1, <4>1, FS_Subset, FS_CardinalityType
      <3>3. Cardinality(U) = c + 1
        <4> HIDE DEF V
        <4> QED BY <3>1, <3>2, FS_AddElement
      <3>4. PICK s \in [1 .. c -> V] : ToSet(s) = V /\ Ascending(s)
        BY <2>2 DEF Sorted
      <3> HIDE DEF c, V
      <3> DEFINE w == [k \in 1 .. c + 1 |-> IF k = c + 1 THEN m + 1 ELSE s[k]]
      <3>5. /\ DOMAIN w = 1 .. c + 1 /\ w[c + 1] = m + 1
            /\ \A k \in 1 .. c : w[k] = s[k] /\ s[k] \in V /\ k \in 1 .. c + 1
            /\ \A k \in 1 .. c + 1 : k = c + 1 \/ k \in 1 .. c
            /\ w = [k \in 1 .. c + 1 |-> w[k]]
        BY <3>2, <3>4
      <3> HIDE DEF w
      <3>6. w \in [1 .. c + 1 -> U]
        BY <3>1, <3>5
      <3>7. ToSet(w) = U
        <4>1. \A v \in V : \E k \in 1 .. c : s[k] = v
          BY <3>4 DEF ToSet
        <4>2. c + 1 \in 1 .. c + 1
          BY <3>2
        <4>3. U \subseteq ToSet(w)
          BY <3>1, <3>5, <4>1, <4>2 DEF ToSet
        <4>4. ToSet(w) \subseteq U
          BY <3>1, <3>5 DEF ToSet
        <4> QED BY <4>3, <4>4
      <3>8. Ascending(w)
        <4> SUFFICES ASSUME NEW k \in 1 .. c + 1, NEW l \in 1 .. c + 1, k < l
                     PROVE  w[k] < w[l]
          BY <3>5 DEF Ascending
        <4>1. k \in 1 .. c
          BY <3>2
        <4>2. CASE l = c + 1
          BY <2>1, <3>5, <4>1, <4>2
        <4>3. CASE l # c + 1
          <5>1. l \in 1 .. c
            BY <3>5, <4>3
          <5>2. s[k] < s[l]
            BY <3>4, <4>1, <5>1 DEF Ascending
          <5> QED BY <3>5, <4>1, <5>1, <5>2
        <4> QED BY <4>2, <4>3
      <3> QED BY <3>3, <3>6, <3>7, <3>8 DEF Sorted
    <2> QED BY <2>3, <2>4
  <1>3. Nat \subseteq N
    <2> HIDE DEF N
    <2> QED BY <1>1, <1>2, SetInduction
  <1>4. Sorted(S)
    BY <1>3
  <1> QED BY <1>4 DEF Sorted

LEMMA TranscriptsInOrder ==
  ASSUME NEW q, Said(q) \subseteq Clips
  PROVE  /\ Transcripts(q) \in Seq(Clips) /\ Ascending(Transcripts(q))
         /\ ToSet(Transcripts(q)) = Said(q)
  <1> DEFINE S == Said(q)
             s == Transcripts(q)
  <1>1. S \in SUBSET (1 .. MaxSpoken) /\ MaxSpoken \in Nat
    BY VoiceAssumption DEF Clips
  <1>2. s = CHOOSE u \in [1 .. Cardinality(S) -> S] : ToSet(u) = S /\ Ascending(u)
    BY DEF Transcripts
  <1> HIDE DEF S, s
  <1>3. \E u \in [1 .. Cardinality(S) -> S] : ToSet(u) = S /\ Ascending(u)
    BY <1>1, SortedExists
  <1>4. s \in [1 .. Cardinality(S) -> S] /\ ToSet(s) = S /\ Ascending(s)
    BY <1>2, <1>3
  <1>5. Cardinality(S) \in Nat
    <2>1. IsFiniteSet(1 .. MaxSpoken)
      BY <1>1, FS_Interval
    <2> QED BY <1>1, <2>1, FS_Subset, FS_CardinalityType
  <1>6. s \in Seq(Clips)
    <2> DEFINE n == Cardinality(S)
    <2>1. n \in Nat /\ s \in [1 .. n -> Clips]
      BY <1>1, <1>4, <1>5 DEF Clips
    <2> HIDE DEF n
    <2> QED BY <2>1
  <1> QED BY <1>4, <1>6 DEF S, s

LEMMA MinOfTwo ==
  ASSUME NEW a \in Nat, NEW b \in Nat
  PROVE  Min({a, b}) = IF a <= b THEN a ELSE b
  <1> DEFINE m == Min({a, b})
  <1>1. m \in {a, b} /\ \A k \in {a, b} : m <= k
    BY MinFacts
  <1> HIDE DEF m
  <1>2. m = IF a <= b THEN a ELSE b
    BY <1>1
  <1> QED BY <1>2 DEF m

\* A text is what was typed, pasted and spoken; no draft is in it more often than
\* there are spoken pieces.
LEMMA KindsAddUp ==
  ASSUME NEW s \in Seq(Pieces)
  PROVE  /\ Len(s) \in Nat
         /\ Times(s, {Typed}) \in Nat /\ Times(s, {Pasted}) \in Nat /\ Times(s, Clips) \in Nat
         /\ Len(s) = Times(s, {Typed}) + Times(s, {Pasted}) + Times(s, Clips)
         /\ Pasted \notin ToSet(s) => Times(s, {Pasted}) = 0
         /\ IsFiniteSet(Spoken(s)) /\ Cardinality(Spoken(s)) \in Nat
         /\ Cardinality(Spoken(s)) <= Times(s, Clips)
  <1> DEFINE T == {i \in DOMAIN s : s[i] \in {Typed}}
             P == {i \in DOMAIN s : s[i] \in {Pasted}}
             C == {i \in DOMAIN s : s[i] \in Clips}
  <1>1. /\ Times(s, {Typed}) = Cardinality(T) /\ Times(s, {Pasted}) = Cardinality(P)
        /\ Times(s, Clips) = Cardinality(C)
    BY DEF Times, Quantify
  <1>2. /\ IsFiniteSet(T) /\ Cardinality(T) \in Nat
        /\ IsFiniteSet(P) /\ Cardinality(P) \in Nat
        /\ IsFiniteSet(C) /\ Cardinality(C) \in Nat
    <2>1. T \in SUBSET DOMAIN s /\ P \in SUBSET DOMAIN s /\ C \in SUBSET DOMAIN s
      OBVIOUS
    <2> HIDE DEF T, P, C
    <2> QED BY <2>1, PositionsAreFinite
  <1>3. Typed \notin Clips /\ Pasted \notin Clips /\ Typed # Pasted
    BY VoiceAssumption DEF Clips, Typed, Pasted
  <1>4. \A i \in DOMAIN s : s[i] \in {Typed, Pasted} \cup Clips
    BY DEF Pieces
  <1>5. DOMAIN s = (T \cup P) \cup C /\ (T \cup P) \cap C = {} /\ T \cap P = {}
    BY <1>3, <1>4
  <1>6. Len(s) \in Nat /\ Cardinality(DOMAIN s) = Len(s)
    <2>1. DOMAIN s = 1 .. Len(s) /\ Len(s) \in Nat
      OBVIOUS
    <2>2. Cardinality(1 .. Len(s)) = Len(s)
      <3> DEFINE n == Len(s)
      <3>1. n \in Nat /\ n \in Int /\ 1 \in Int
        BY <2>1
      <3> HIDE DEF n, T, P, C
      <3>2. Cardinality(1 .. n) = n
        BY <3>1, FS_Interval
      <3> QED BY <3>2 DEF n
    <2> QED BY <2>1, <2>2
  <1>7. Pasted \notin ToSet(s) => Cardinality(P) = 0
    <2>1. Pasted \notin ToSet(s) => P = {}
      BY DEF ToSet
    <2> QED BY <2>1, FS_EmptySet
  <1>8. /\ IsFiniteSet(Spoken(s)) /\ Cardinality(Spoken(s)) \in Nat
        /\ Cardinality(Spoken(s)) <= Cardinality(C)
    <2> DEFINE f == [i \in C |-> s[i]]
    <2>1. f \in Surjection(C, Spoken(s))
      BY DEF Surjection, Spoken, ToSet
    <2> HIDE DEF f, C
    <2>2. IsFiniteSet(Spoken(s)) /\ Cardinality(Spoken(s)) <= Cardinality(C)
      BY <1>2, <2>1, FS_Surjection
    <2> QED BY <2>2, FS_CardinalityType
  <1> HIDE DEF T, P, C
  <1>9. IsFiniteSet(T \cup P) /\ Cardinality(T \cup P) = Cardinality(T) + Cardinality(P)
    <2>1. /\ IsFiniteSet(T \cup P)
          /\ Cardinality(T \cup P) = Cardinality(T) + Cardinality(P) - Cardinality(T \cap P)
      BY <1>2, FS_Union
    <2>2. Cardinality(T \cap P) = 0
      BY <1>5, FS_EmptySet
    <2> QED BY <1>2, <2>1, <2>2
  <1>10. Cardinality((T \cup P) \cup C) = Cardinality(T) + Cardinality(P) + Cardinality(C)
    <2>1. Cardinality((T \cup P) \cup C)
            = Cardinality(T \cup P) + Cardinality(C) - Cardinality((T \cup P) \cap C)
      BY <1>2, <1>9, FS_Union
    <2>2. Cardinality((T \cup P) \cap C) = 0
      BY <1>5, FS_EmptySet
    <2> QED BY <1>2, <1>9, <2>1, <2>2
  <1>11. Len(s) = Cardinality(T) + Cardinality(P) + Cardinality(C)
    BY <1>5, <1>6, <1>10
  <1> QED BY <1>1, <1>2, <1>6, <1>7, <1>8, <1>11

-----------------------------------------------------------------------------
(* Boxes, numbers and credits                                               *)

\* A page that sends, or has sent, is at a question; what is typed in its box took
\* keystrokes.
Held(p) == (p.busy # "no" => p.q # NoMore) /\ Times(p.box, {Typed}) <= p.keys
Paged ==
  /\ page \in [Tabs -> Page]
  /\ \A t \in Tabs : Held(page[t])

Lined == line \in [Tabs -> [Questions -> Lines]]

\* Each recording under way may still be numbered, and none is numbered twice: that
\* keeps the numbers within the recordings started.
UnderWay == {x \in Cells : rec[x[1]][x[2]].pc \in {"recording", "sent", "ready", "running"}}
Room ==
  /\ spoken \in Nat /\ spoken <= MaxSpoken
  /\ Len(heard) + Cardinality(UnderWay) <= spoken

\* The rows that are committed or about to be: each has a number of its own, which
\* tells its question; what is delivered was committed.
Kept == rows \cup {r \in Clip : rec[r.line][r.q].pc = "flushed" /\ r \in rec[r.line][r.q].row}
Numbered ==
  /\ \A r \in Kept : r.id \in 1 .. Len(heard) /\ heard[r.id] = r.q
  /\ \A r, s \in Kept : r.id = s.id => r = s
  /\ \A l \in Lines, q \in Questions : rec[l][q].pc = "done" => rec[l][q].row \subseteq rows

\* An answer was credited against the transcripts its question had then, in order.
Credited(h, a, q) ==
  /\ a.text \in Seq(Pieces) /\ a.keys \in Nat /\ Times(a.text, {Typed}) <= a.keys
  /\ \E c \in Seq(Clips) : /\ Ascending(c) /\ ToSet(c) = a.clips
                           /\ a.dictated = DictatedChars[a.text][c]
  /\ \A i \in a.clips : i \in 1 .. Len(h) /\ h[i] = q
Answered ==
  /\ DOMAIN answers = Questions
  /\ \A q \in Questions : answers[q].stored => Credited(heard, answers[q], q)

CreditIInv == Paged /\ Lined /\ Room /\ Numbered /\ Answered

LEMMA BlankIsHeld ==
  ASSUME NEW q \in Questions \cup {NoMore}
  PROVE  Blank(q) \in Page /\ Held(Blank(q))
  <1>1. <<>> \in Seq(Pieces)
    OBVIOUS
  <1>2. Times(<<>>, {Typed}) = 0
    BY <1>1, TimesIsCount
  <1> QED BY <1>1, <1>2, VoiceAssumption DEF Blank, Page, Held

LEMMA CreditInit == Init => CreditIInv
  <1> SUFFICES ASSUME Init PROVE CreditIInv
    OBVIOUS
  <1>1. rec = [l \in Lines |-> [q \in Questions |-> [pc |-> "idle", row |-> {}]]]
    BY DEF Init
  <1>2. \A l \in Lines, q \in Questions : rec[l][q].pc = "idle"
    BY <1>1
  <1>3. Paged
    <2>1. 1 \in Questions
      BY VoiceAssumption DEF Questions
    <2>2. Blank(1) \in Page /\ Held(Blank(1))
      BY <2>1, BlankIsHeld
    <2>3. page = [t \in Tabs |-> Blank(1)]
      BY DEF Init
    <2> QED BY <2>2, <2>3 DEF Paged
  <1>7. Lined
    BY VoiceAssumption DEF Lined, Init
  <1>4. Room
    <2>1. UnderWay = {}
      BY <1>2 DEF UnderWay, Cells
    <2>2. spoken = 0 /\ Len(heard) = 0
      BY DEF Init
    <2>3. Cardinality(UnderWay) = 0
      BY <2>1, FS_EmptySet
    <2> QED BY <2>2, <2>3, VoiceAssumption DEF Room
  <1>5. Numbered
    <2>1. Kept = {}
      <3>1. \A r \in Clip : r.line \in Lines /\ r.q \in Questions
        BY DEF Clip
      <3> QED BY <1>2, <3>1 DEF Kept, Init
    <2> QED BY <1>2, <2>1 DEF Numbered
  <1>6. Answered
    <2>1. answers = [q \in Questions |-> NoAnswer]
      BY DEF Init
    <2>2. NoAnswer.stored = FALSE
      BY DEF NoAnswer
    <2> QED BY <2>1, <2>2 DEF Answered
  <1> QED BY <1>3, <1>4, <1>5, <1>6, <1>7 DEF CreditIInv

\* No step forgets what a clip was said for, and a step that is not Transcribed
\* numbers none.
LEMMA HeardStays ==
  ASSUME VoiceIInv, [Next]_vars
  PROVE  /\ \A i \in 1 .. Len(heard) : i \in 1 .. Len(heard') /\ heard'[i] = heard[i]
         /\ heard' = heard \/ \E l \in Lines, q \in Questions : Transcribed(l, q)
  <1>1. heard \in Seq(Questions)
    BY DEF VoiceIInv, Shapes
  <1>2. heard' = heard \/ \E l \in Lines, q \in Questions : Transcribed(l, q)
    <2>1. CASE UNCHANGED vars
      BY <2>1 DEF vars, db
    <2>2. ASSUME NEW t \in Tabs,
                 Record(t) \/ Stop(t) \/ Type(t) \/ Paste(t) \/ Copy(t) \/ Erase(t) \/ Drop(t)
                   \/ Send(t) \/ Submit(t) \/ LoadQuestion(t)
          PROVE  heard' = heard
      BY <2>2 DEF Record, Stop, Type, Paste, Put, Copy, Erase, Drop, Send, Submit, LoadQuestion, db
    <2>3. ASSUME NEW l \in Lines, NEW q \in Questions, Request(l, q)
          PROVE  heard' = heard \/ Transcribed(l, q)
      BY <2>3 DEF Request, Refuse, Admit, Run, RunRaises, Commit, db
    <2>4. ASSUME NEW t \in Tabs, NEW q \in Questions, Deliver(t, q) PROVE heard' = heard
      BY <2>4 DEF Deliver, db
    <2> QED BY <2>1, <2>2, <2>3, <2>4 DEF Next
  <1>3. ASSUME NEW l \in Lines, NEW q \in Questions, Transcribed(l, q)
        PROVE  \A i \in 1 .. Len(heard) : i \in 1 .. Len(heard') /\ heard'[i] = heard[i]
    <2>1. heard' = Append(heard, q)
      BY <1>3 DEF Transcribed
    <2> QED BY <1>1, <2>1
  <1> QED BY <1>2, <1>3

\* What may be said of a recorder that no clip is added to.
LEMMA RoomStays ==
  ASSUME Room, heard \in Seq(Questions), UNCHANGED <<heard, spoken>>, UnderWay' \subseteq UnderWay
  PROVE  Room'
  <1>1. /\ IsFiniteSet(UnderWay) /\ Cardinality(UnderWay) \in Nat /\ Cardinality(UnderWay') \in Nat
    BY Finite DEF UnderWay
  <1>2. Cardinality(UnderWay') <= Cardinality(UnderWay)
    BY <1>1, FS_Subset
  <1>3. Len(heard) \in Nat
    OBVIOUS
  <1> QED BY <1>1, <1>2, <1>3, VoiceAssumption DEF Room

LEMMA NumbersStay ==
  ASSUME Numbered, UNCHANGED <<rows, heard>>,
         rec \in [Lines -> [Questions -> Recorders]], rows \subseteq Clip,
         \A u \in Lines, p \in Questions :
           rec'[u][p].pc \in {"flushed", "done"} =>
             rec'[u][p].pc = rec[u][p].pc /\ rec'[u][p].row = rec[u][p].row
  PROVE  Numbered'
  <1>1. \A r \in Clip : r.line \in Lines /\ r.q \in Questions
    BY DEF Clip
  <1>2. Kept' \subseteq Kept
    BY <1>1 DEF Kept
  <1> QED BY <1>2 DEF Numbered

\* A step of a recorder that neither starts a recording nor numbers or commits one.
LEMMA GotoKeeps ==
  ASSUME VoiceIInv, Room, Numbered, UNCHANGED <<rows, heard, spoken>>, NEW l, NEW q,
         NEW pc \in Recorder, Goto(l, q, pc),
         pc \in {"sent", "ready", "running"} => rec[l][q].pc \in {"recording", "sent", "ready"},
         pc \notin {"recording", "flushed", "done"}
  PROVE  Room' /\ Numbered'
  <1>1. /\ rec' \in [Lines -> [Questions -> Recorders]]
        /\ \A u \in Lines, p \in Questions :
              /\ rec'[u][p].row = rec[u][p].row
              /\ u = l /\ p = q => rec'[u][p].pc = pc
              /\ ~(u = l /\ p = q) => rec'[u][p].pc = rec[u][p].pc
    BY OneCell DEF VoiceIInv
  <1>2. heard \in Seq(Questions) /\ rows \subseteq Clip /\ rec \in [Lines -> [Questions -> Recorders]]
    BY DEF VoiceIInv, Shapes
  <1>3. UnderWay' \subseteq UnderWay
    <2> SUFFICES ASSUME NEW u \in Lines, NEW p \in Questions,
                        rec'[u][p].pc \in {"recording", "sent", "ready", "running"}
                 PROVE  rec[u][p].pc \in {"recording", "sent", "ready", "running"}
      BY DEF UnderWay, Cells
    <2>1. CASE u = l /\ p = q
      BY <1>1, <2>1
    <2>2. CASE ~(u = l /\ p = q)
      BY <1>1, <2>2
    <2> QED BY <2>1, <2>2
  <1>4. \A u \in Lines, p \in Questions :
           rec'[u][p].pc \in {"flushed", "done"} =>
             rec'[u][p].pc = rec[u][p].pc /\ rec'[u][p].row = rec[u][p].row
    BY <1>1
  <1> QED BY <1>2, <1>3, <1>4, RoomStays, NumbersStay

LEMMA StillKeeps ==
  ASSUME VoiceIInv, Room, Numbered, UNCHANGED <<rows, heard, spoken, rec>>
  PROVE  Room' /\ Numbered'
  <1>1. heard \in Seq(Questions) /\ rows \subseteq Clip /\ rec \in [Lines -> [Questions -> Recorders]]
    BY DEF VoiceIInv, Shapes
  <1>2. UnderWay' \subseteq UnderWay
    BY DEF UnderWay
  <1> QED BY <1>1, <1>2, RoomStays, NumbersStay

LEMMA NextIsAQuestion == NextQuestion \in Questions \cup {NoMore}
  <1> SUFFICES ASSUME Unanswered # {} PROVE Min(Unanswered) \in Questions
    BY DEF NextQuestion
  <1>1. Unanswered \in SUBSET Nat /\ Unanswered \subseteq Questions
    BY VoiceAssumption DEF Unanswered, Questions
  <1> QED BY <1>1, MinFacts

LEMMA CandidateKeeps ==
  ASSUME VoiceIInv, Paged, Lined, Room, Numbered, NEW t \in Tabs,
         Record(t) \/ Stop(t) \/ Type(t) \/ Paste(t) \/ Copy(t) \/ Erase(t) \/ Drop(t)
           \/ Send(t) \/ Submit(t) \/ LoadQuestion(t)
  PROVE  Room' /\ Numbered'
  <1>1. CASE Type(t) \/ Paste(t) \/ Copy(t) \/ Erase(t) \/ Drop(t) \/ Send(t) \/ Submit(t)
    BY <1>1, StillKeeps DEF Type, Paste, Put, Copy, Erase, Drop, Send, Submit, db
  <1>2. CASE Stop(t)
    BY <1>2, GotoKeeps DEF Stop, db, Recorder
  <1>3. CASE LoadQuestion(t)
    <2>1. \/ rec' = rec
          \/ rec[Mine(t)][page[t].q].pc = "recording" /\ Goto(Mine(t), page[t].q, "idle")
      BY <1>3 DEF LoadQuestion, Goto
    <2>2. UNCHANGED <<rows, heard, spoken>>
      BY <1>3 DEF LoadQuestion, db
    <2> QED BY <2>1, <2>2, StillKeeps, GotoKeeps DEF Recorder
  <1>4. CASE Record(t)
    <2> DEFINE q == page[t].q
               l == Mine(t)
               x == <<l, q>>
    <2>0. q \in Questions /\ l \in Lines
      <3>1. page[t] \in Page /\ q # NoMore
        BY <1>4 DEF Record, Writing, Paged
      <3>2. q \in Questions
        BY <3>1 DEF Page
      <3> QED BY <3>2 DEF Lined, Mine
    <2>1. /\ q \in Questions /\ rec[l][q].pc = "idle" /\ spoken < MaxSpoken /\ spoken' = spoken + 1
          /\ Goto(l, q, "recording") /\ UNCHANGED <<rows, heard>>
      BY <1>4, <2>0 DEF Record, db
    <2> HIDE DEF q, l
    <2>2. /\ rec' \in [Lines -> [Questions -> Recorders]]
          /\ \A u \in Lines, p \in Questions :
                /\ rec'[u][p].row = rec[u][p].row
                /\ u = l /\ p = q => rec'[u][p].pc = "recording"
                /\ ~(u = l /\ p = q) => rec'[u][p].pc = rec[u][p].pc
      BY <2>1, OneCell DEF VoiceIInv, Recorder
    <2>3. heard \in Seq(Questions) /\ rows \subseteq Clip /\ rec \in [Lines -> [Questions -> Recorders]]
      BY DEF VoiceIInv, Shapes
    <2>4. Numbered'
      <3>1. \A u \in Lines, p \in Questions :
               rec'[u][p].pc \in {"flushed", "done"} =>
                 rec'[u][p].pc = rec[u][p].pc /\ rec'[u][p].row = rec[u][p].row
        BY <2>2
      <3> QED BY <2>1, <2>3, <3>1, NumbersStay
    <2>5. UnderWay' = UnderWay \cup {x} /\ x \notin UnderWay
      BY <2>0, <2>1, <2>2 DEF UnderWay, Cells
    <2>6. IsFiniteSet(UnderWay) /\ Cardinality(UnderWay) \in Nat
      BY Finite DEF UnderWay
    <2>7. Cardinality(UnderWay') = Cardinality(UnderWay) + 1
      BY <2>5, <2>6, FS_AddElement
    <2>8. Len(heard) \in Nat
      BY <2>3
    <2>9. Room'
      BY <2>1, <2>6, <2>7, <2>8, VoiceAssumption DEF Room
    <2> QED BY <2>4, <2>9
  <1> QED BY <1>1, <1>2, <1>3, <1>4

LEMMA TranscribedKeeps ==
  ASSUME VoiceIInv, Room, Numbered, NEW l \in Lines, NEW q \in Questions, Transcribed(l, q)
  PROVE  Room' /\ Numbered'
  <1> DEFINE n == Len(heard) + 1
             new == [id |-> n, line |-> l, q |-> q]
             x == <<l, q>>
  <1>1. /\ rec[l][q].pc = "running" /\ UNCHANGED rows /\ n \in Nat
        /\ heard' = Append(heard, q) /\ heard' \in Seq(Questions)
        /\ rec' \in [Lines -> [Questions -> Recorders]]
        /\ \A u \in Lines, p \in Questions :
             rec'[u][p] = IF u = l /\ p = q THEN [pc |-> "flushed", row |-> {new}] ELSE rec[u][p]
    BY OneTranscribed DEF VoiceIInv
  <1>2. heard \in Seq(Questions) /\ rows \subseteq Clip /\ rec \in [Lines -> [Questions -> Recorders]]
    BY DEF VoiceIInv, Shapes
  <1>3. /\ Len(heard) \in Nat /\ Len(heard') = n /\ heard'[n] = q
        /\ \A i \in 1 .. Len(heard) : i \in 1 .. n /\ heard'[i] = heard[i] /\ i # n
    BY <1>1, <1>2
  <1>4. new.id = n /\ new.line = l /\ new.q = q
    OBVIOUS
  <1>5. /\ rec'[l][q].pc = "flushed" /\ rec'[l][q].row = {new}
        /\ \A u \in Lines, p \in Questions : ~(u = l /\ p = q) => rec'[u][p] = rec[u][p]
    BY <1>1
  <1>6. Room'
    <2>1. UnderWay' = UnderWay \ {x} /\ x \in UnderWay
      BY <1>1, <1>5 DEF UnderWay, Cells
    <2>2. IsFiniteSet(UnderWay) /\ Cardinality(UnderWay) \in Nat
      BY Finite DEF UnderWay
    <2>3. Cardinality(UnderWay') = Cardinality(UnderWay) - 1
      BY <2>1, <2>2, FS_RemoveElement
    <2>4. spoken' = spoken
      BY DEF Transcribed
    <2> QED BY <1>3, <2>2, <2>3, <2>4 DEF Room
  <1>7. Kept' \subseteq Kept \cup {new}
    <2> HIDE DEF new
    <2> SUFFICES ASSUME NEW r \in Clip, rec'[r.line][r.q].pc = "flushed", r \in rec'[r.line][r.q].row
                 PROVE  r \in Kept \cup {new}
      BY <1>1 DEF Kept
    <2>1. r.line \in Lines /\ r.q \in Questions
      BY DEF Clip
    <2>2. CASE r.line = l /\ r.q = q
      BY <1>5, <2>2
    <2>3. CASE ~(r.line = l /\ r.q = q)
      <3>1. rec'[r.line][r.q] = rec[r.line][r.q]
        BY <1>5, <2>1, <2>3
      <3> QED BY <3>1 DEF Kept
    <2> QED BY <2>2, <2>3
  <1>8. \A r \in Kept : r.id \in 1 .. Len(heard) /\ heard[r.id] = r.q
    BY DEF Numbered
  <1>9. \A r \in Kept' : r.id \in 1 .. Len(heard') /\ heard'[r.id] = r.q
    <2> HIDE DEF new
    <2> QED BY <1>1, <1>3, <1>4, <1>7, <1>8
  <1>10. \A r, s \in Kept' : r.id = s.id => r = s
    <2> HIDE DEF new
    <2>1. \A r \in Kept : r.id # new.id
      BY <1>3, <1>4, <1>8
    <2> QED BY <1>7, <2>1 DEF Numbered
  <1>11. \A u \in Lines, p \in Questions : rec'[u][p].pc = "done" => rec'[u][p].row \subseteq rows'
    BY <1>1, <1>5 DEF Numbered
  <1> QED BY <1>6, <1>9, <1>10, <1>11 DEF Numbered

LEMMA CommitKeeps ==
  ASSUME VoiceIInv, Room, Numbered, NEW l \in Lines, NEW q \in Questions, Commit(l, q)
  PROVE  Room' /\ Numbered'
  <1>1. rec[l][q].pc = "flushed" /\ UNCHANGED <<heard, spoken>>
    BY DEF Commit
  <1>2. CASE rows' = rows /\ Goto(l, q, "idle")
    BY <1>1, <1>2, GotoKeeps DEF Recorder
  <1>3. CASE rows' = rows \cup rec[l][q].row /\ Goto(l, q, "done")
    <2>1. PICK i \in Nat : rec[l][q].row = {[id |-> i, line |-> l, q |-> q]}
      BY <1>1 DEF VoiceIInv, FlushedOwn
    <2> DEFINE x == [id |-> i, line |-> l, q |-> q]
    <2>2. x \in Clip /\ x.line = l /\ x.q = q /\ rows' = rows \cup {x} /\ rec[l][q].row = {x}
      BY <1>3, <2>1 DEF Clip
    <2> HIDE DEF x
    <2>3. /\ rec' \in [Lines -> [Questions -> Recorders]]
          /\ \A u \in Lines, p \in Questions :
                /\ rec'[u][p].row = rec[u][p].row
                /\ u = l /\ p = q => rec'[u][p].pc = "done"
                /\ ~(u = l /\ p = q) => rec'[u][p].pc = rec[u][p].pc
      BY <1>3, OneCell DEF VoiceIInv, Recorder
    <2>4. heard \in Seq(Questions) /\ rows \subseteq Clip /\ rec \in [Lines -> [Questions -> Recorders]]
      BY DEF VoiceIInv, Shapes
    <2>5. UnderWay' \subseteq UnderWay
      <3> SUFFICES ASSUME NEW u \in Lines, NEW p \in Questions,
                          rec'[u][p].pc \in {"recording", "sent", "ready", "running"}
                   PROVE  rec[u][p].pc \in {"recording", "sent", "ready", "running"}
        BY DEF UnderWay, Cells
      <3> QED BY <2>3
    <2>6. Kept' \subseteq Kept
      <3>1. x \in Kept
        BY <1>1, <2>2 DEF Kept
      <3>2. \A r \in Clip : r.line \in Lines /\ r.q \in Questions
        BY DEF Clip
      <3>3. ASSUME NEW r \in Clip, rec'[r.line][r.q].pc = "flushed", r \in rec'[r.line][r.q].row
            PROVE  r \in Kept
        <4>1. rec[r.line][r.q].pc = "flushed" /\ r \in rec[r.line][r.q].row
          BY <2>3, <3>2, <3>3
        <4> QED BY <4>1 DEF Kept
      <3>4. rows \subseteq Kept
        BY DEF Kept
      <3> QED BY <2>2, <3>1, <3>3, <3>4 DEF Kept
    <2>7. \A u \in Lines, p \in Questions : rec'[u][p].pc = "done" => rec'[u][p].row \subseteq rows'
      <3> SUFFICES ASSUME NEW u \in Lines, NEW p \in Questions, rec'[u][p].pc = "done"
                   PROVE  rec'[u][p].row \subseteq rows'
        OBVIOUS
      <3>1. CASE u = l /\ p = q
        BY <2>2, <2>3, <3>1
      <3>2. CASE ~(u = l /\ p = q)
        BY <2>2, <2>3, <3>2 DEF Numbered
      <3> QED BY <3>1, <3>2
    <2>8. Numbered'
      BY <1>1, <2>6, <2>7 DEF Numbered
    <2> QED BY <1>1, <2>4, <2>5, <2>8, RoomStays
  <1> QED BY <1>2, <1>3 DEF Commit

LEMMA RequestKeeps ==
  ASSUME VoiceIInv, Room, Numbered, NEW l \in Lines, NEW q \in Questions, Request(l, q)
  PROVE  Room' /\ Numbered'
  <1>1. CASE Refuse(l, q)
    BY <1>1, GotoKeeps DEF Refuse, db, Recorder
  <1>2. CASE Admit(l, q)
    BY <1>2, GotoKeeps DEF Admit, db, Recorder
  <1>3. CASE Run(l, q)
    BY <1>3, GotoKeeps DEF Run, db, Recorder
  <1>4. CASE RunRaises(l, q)
    BY <1>4, GotoKeeps DEF RunRaises, db, Recorder
  <1> QED BY <1>1, <1>2, <1>3, <1>4, TranscribedKeeps, CommitKeeps DEF Request

LEMMA DeliverKeeps ==
  ASSUME VoiceIInv, Room, Numbered, NEW t \in Tabs, NEW q \in Questions, Deliver(t, q)
  PROVE  Room' /\ Numbered'
  <1> DEFINE l == line[t][q]
  <1>1. rec[l][q].pc = "done" /\ Goto(l, q, "idle") /\ UNCHANGED <<rows, heard, spoken>>
    BY DEF Deliver, db
  <1> HIDE DEF l
  <1> QED BY <1>1, GotoKeeps DEF Recorder

\* A recorder is always on some line.
LEMMA LinesKeep ==
  ASSUME Paged, Lined, [Next]_vars
  PROVE  Lined'
  <1>1. CASE UNCHANGED vars
    BY <1>1 DEF vars, Lined
  <1>2. ASSUME NEW t \in Tabs,
               Record(t) \/ Stop(t) \/ Type(t) \/ Paste(t) \/ Copy(t) \/ Erase(t)
                 \/ Send(t) \/ Submit(t) \/ LoadQuestion(t)
        PROVE  line' = line
    BY <1>2 DEF Record, Stop, Type, Paste, Put, Copy, Erase, Send, Submit, LoadQuestion
  <1>3. ASSUME NEW t \in Tabs, Drop(t) PROVE Lined'
    <2>1. PICK l \in Lines : line' = [line EXCEPT ![t][page[t].q] = l]
      BY <1>3 DEF Drop
    <2>2. line[t] \in [Questions -> Lines]
      BY DEF Lined
    <2> DEFINE f == [line[t] EXCEPT ![page[t].q] = l]
    <2>3. f \in [Questions -> Lines] /\ line' = [line EXCEPT ![t] = f]
      BY <2>1, <2>2
    <2> HIDE DEF f
    <2> QED BY <2>3 DEF Lined
  <1>4. ASSUME NEW t \in Tabs, NEW q \in Questions, Deliver(t, q) PROVE line' = line
    BY <1>4 DEF Deliver
  <1>5. ASSUME NEW l \in Lines, NEW q \in Questions, Request(l, q) PROVE line' = line
    BY <1>5 DEF Request, Refuse, Admit, Run, Transcribed, RunRaises, Commit
  <1>6. ASSUME line' = line PROVE Lined'
    BY <1>6 DEF Lined
  <1> QED BY <1>1, <1>2, <1>3, <1>4, <1>5, <1>6 DEF Next

\* The numbers of a question's clips are clips, said for that question.
LEMMA SaidFacts ==
  ASSUME VoiceIInv, Room, Numbered
  PROVE  /\ Len(heard) \in Nat /\ Len(heard) <= spoken /\ spoken \in 0 .. MaxSpoken
         /\ \A r \in rows : r \in Clip /\ r.id \in Clips /\ r.id \in 1 .. Len(heard) /\ heard[r.id] = r.q
         /\ \A q : Said(q) \subseteq Clips /\ \A i \in Said(q) : i \in 1 .. Len(heard) /\ heard[i] = q
  <1>1. Len(heard) \in Nat /\ rows \subseteq Clip
    BY DEF VoiceIInv, Shapes
  <1>2. Cardinality(UnderWay) \in Nat
    BY Finite DEF UnderWay
  <1>3. Len(heard) <= spoken /\ spoken \in 0 .. MaxSpoken
    BY <1>1, <1>2, VoiceAssumption DEF Room
  <1>4. 1 .. Len(heard) \subseteq Clips
    BY <1>1, <1>3, VoiceAssumption DEF Clips
  <1>5. \A r \in rows : r.id \in 1 .. Len(heard) /\ heard[r.id] = r.q
    BY DEF Numbered, Kept
  <1>6. \A q : \A i \in Said(q) : \E r \in rows : r.id = i /\ r.q = q
    BY DEF Said, RowsFor
  <1> QED BY <1>1, <1>3, <1>4, <1>5, <1>6

LEMMA PagesKeep ==
  ASSUME VoiceIInv, Paged, Lined, Room, Numbered, [Next]_vars
  PROVE  Paged'
  <1>0. ASSUME page' = page PROVE Paged'
    BY <1>0 DEF Paged
  <1>1. ASSUME NEW t \in Tabs, NEW p \in Page, Held(p), page' = [page EXCEPT ![t] = p]
        PROVE  Paged'
    <2>1. page' \in [Tabs -> Page] /\ \A u \in Tabs : page'[u] = IF u = t THEN p ELSE page[u]
      BY <1>1 DEF Paged
    <2> QED BY <1>1, <2>1 DEF Paged
  <1>2. ASSUME NEW t \in Tabs
        PROVE  /\ page[t] \in Page /\ page[t].box \in Seq(Pieces) /\ page[t].keys \in 0 .. MaxKeys
               /\ Held(page[t])
    BY DEF Paged, Page
  <1>3. ASSUME NEW t \in Tabs, NEW b \in Seq(Pieces), NEW k \in 0 .. MaxKeys,
               Times(b, {Typed}) <= k,
               page' = [page EXCEPT ![t] = [[page[t] EXCEPT !.box = b] EXCEPT !.keys = k]]
        PROVE  Paged'
    <2> DEFINE p == [[page[t] EXCEPT !.box = b] EXCEPT !.keys = k]
    <2>1. p \in Page /\ p.box = b /\ p.keys = k /\ p.busy = page[t].busy /\ p.q = page[t].q
      BY <1>2 DEF Page
    <2>2. Held(p)
      BY <1>2, <1>3, <2>1 DEF Held
    <2> HIDE DEF p
    <2> QED BY <1>1, <1>3, <2>1, <2>2 DEF p
  <1>4. ASSUME NEW t \in Tabs, NEW x \in Pieces, NEW k \in {0, 1}, Put(t, x, k),
               page[t].keys + k <= MaxKeys, x = Typed => k = 1
        PROVE  Paged'
    <2> DEFINE s == page[t].box
               n == page[t].keys + k
    <2>1. PICK i \in 0 .. Len(s) :
            page' = [page EXCEPT ![t].box = SubSeq(@, 1, i) \o <<x>> \o SubSeq(@, i + 1, Len(@)),
                                 ![t].keys = @ + k]
      BY <1>4 DEF Put
    <2> DEFINE b == SubSeq(s, 1, i) \o <<x>> \o SubSeq(s, i + 1, Len(s))
    <2>2. /\ b \in Seq(Pieces)
          /\ Times(b, {Typed}) = Times(s, {Typed}) + (IF x \in {Typed} THEN 1 ELSE 0)
      <3>1. s \in Seq(Pieces)
        BY <1>2
      <3> HIDE DEF s
      <3> QED BY <3>1, TimesInserted
    <2>3. page' = [page EXCEPT ![t] = [[page[t] EXCEPT !.box = b] EXCEPT !.keys = n]]
      BY <1>2, <2>1 DEF Paged
    <2> HIDE DEF b
    <2>4. n \in 0 .. MaxKeys /\ Times(b, {Typed}) <= n
      <3>1. page[t].keys \in Nat /\ Times(s, {Typed}) <= page[t].keys /\ Times(s, {Typed}) \in Nat
        <4>1. s \in Seq(Pieces)
          BY <1>2
        <4>2. page[t].keys \in Nat
          BY <1>2, VoiceAssumption
        <4>3. Times(s, {Typed}) <= page[t].keys
          BY <1>2 DEF Held
        <4> HIDE DEF s
        <4> QED BY <4>1, <4>2, <4>3, TimesIsCount
      <3>2. (IF x \in {Typed} THEN 1 ELSE 0) <= k
        BY <1>4
      <3> QED BY <1>4, <2>2, <3>1, <3>2, VoiceAssumption
    <2> HIDE DEF n
    <2> QED BY <1>3, <2>2, <2>3, <2>4
  <1>5. ASSUME NEW t \in Tabs, NEW b \in {"sending", "sent"}, page[t].q # NoMore,
               page' = [page EXCEPT ![t].busy = b]
        PROVE  Paged'
    <2> DEFINE p == [page[t] EXCEPT !.busy = b]
    <2>1. page' = [page EXCEPT ![t] = p]
      BY <1>5
    <2>2. p \in Page /\ p.q = page[t].q /\ p.box = page[t].box /\ p.keys = page[t].keys
      BY <1>2, <1>5 DEF Page
    <2>3. Held(p)
      BY <1>2, <1>5, <2>2 DEF Held
    <2> HIDE DEF p
    <2> QED BY <1>1, <2>1, <2>2, <2>3
  <1>6. CASE UNCHANGED vars
    BY <1>0, <1>6 DEF vars
  <1>7. ASSUME NEW t \in Tabs, Record(t) \/ Stop(t) \/ Drop(t) PROVE Paged'
    BY <1>0, <1>7 DEF Record, Stop, Drop
  <1>8. ASSUME NEW t \in Tabs, Type(t) PROVE Paged'
    <2>1. Typed \in Pieces /\ Put(t, Typed, 1) /\ page[t].keys + 1 <= MaxKeys
      BY <1>8 DEF Pieces, Type, Within
    <2> QED BY <1>4, <2>1
  <1>9. ASSUME NEW t \in Tabs, Paste(t) PROVE Paged'
    <2>1. Pasted \in Pieces /\ Put(t, Pasted, 0) /\ page[t].keys + 0 <= MaxKeys /\ Pasted # Typed
      BY <1>9 DEF Pieces, Paste, Within, Pasted, Typed
    <2> QED BY <1>4, <2>1
  <1>10. ASSUME NEW t \in Tabs, Copy(t) PROVE Paged'
    <2>1. PICK c \in Clips : Put(t, c, 0)
      BY <1>10 DEF Copy
    <2>2. c \in Pieces /\ c # Typed
      BY VoiceAssumption DEF Pieces, Clips, Typed
    <2>3. page[t].keys + 0 <= MaxKeys
      BY <1>2, VoiceAssumption
    <2> QED BY <1>4, <2>1, <2>2, <2>3
  <1>11. ASSUME NEW t \in Tabs, Erase(t) PROVE Paged'
    <2> DEFINE s == page[t].box
    <2>1. PICK i \in DOMAIN s, k \in {0, 1} :
            /\ page[t].keys + k <= MaxKeys
            /\ page' = [page EXCEPT ![t].box = SubSeq(@, 1, i - 1) \o SubSeq(@, i + 1, Len(@)),
                                    ![t].keys = @ + k]
      BY <1>11 DEF Erase
    <2> DEFINE b == SubSeq(s, 1, i - 1) \o SubSeq(s, i + 1, Len(s))
               n == page[t].keys + k
    <2>2. b \in Seq(Pieces) /\ Times(b, {Typed}) <= Times(s, {Typed})
      <3>1. s \in Seq(Pieces)
        BY <1>2
      <3> HIDE DEF s
      <3> QED BY <3>1, TimesErased
    <2>3. page' = [page EXCEPT ![t] = [[page[t] EXCEPT !.box = b] EXCEPT !.keys = n]]
      BY <1>2, <2>1 DEF Paged
    <2> HIDE DEF b
    <2>4. n \in 0 .. MaxKeys /\ Times(b, {Typed}) <= n
      <3>1. /\ page[t].keys \in Nat /\ Times(s, {Typed}) <= page[t].keys
            /\ Times(s, {Typed}) \in Nat /\ Times(b, {Typed}) \in Nat
        <4>1. s \in Seq(Pieces)
          BY <1>2
        <4>2. page[t].keys \in Nat
          BY <1>2, VoiceAssumption
        <4>3. Times(s, {Typed}) <= page[t].keys
          BY <1>2 DEF Held
        <4> HIDE DEF s
        <4> QED BY <2>2, <4>1, <4>2, <4>3, TimesIsCount
      <3> QED BY <2>1, <2>2, <3>1, VoiceAssumption
    <2> HIDE DEF n
    <2> QED BY <1>3, <2>2, <2>3, <2>4
  <1>12. ASSUME NEW t \in Tabs, Send(t) PROVE Paged'
    BY <1>5, <1>12 DEF Send, Writing
  <1>13. ASSUME NEW t \in Tabs, Submit(t) PROVE Paged'
    BY <1>2, <1>5, <1>13 DEF Submit, Held
  <1>14. ASSUME NEW t \in Tabs, LoadQuestion(t) PROVE Paged'
    <2>1. Blank(NextQuestion) \in Page /\ Held(Blank(NextQuestion))
      BY NextIsAQuestion, BlankIsHeld
    <2>2. page' = [page EXCEPT ![t] = Blank(NextQuestion)]
      BY <1>14 DEF LoadQuestion
    <2> QED BY <1>1, <2>1, <2>2
  <1>15. ASSUME NEW t \in Tabs, NEW q \in Questions, Deliver(t, q) PROVE Paged'
    <2>1. CASE page' = page
      BY <1>0, <2>1
    <2> DEFINE l == line[t][q]
               s == page[t].box
    <2>2. ASSUME NEW r \in rec[l][q].row, page' = [page EXCEPT ![t].box = Append(@, r.id)]
          PROVE  Paged'
      <3>1. l \in Lines
        BY DEF Lined
      <3>2. rec[l][q].row \subseteq rows
        BY <1>15, <3>1 DEF Deliver, Numbered
      <3>3. r.id \in Clips
        BY <2>2, <3>2, SaidFacts
      <3>4. r.id \in Pieces /\ r.id # Typed
        BY <3>3, VoiceAssumption DEF Pieces, Clips, Typed
      <3>5. s \in Seq(Pieces)
        BY <1>2
      <3> DEFINE b == Append(s, r.id)
                 n == page[t].keys
      <3>6. b \in Seq(Pieces) /\ Times(b, {Typed}) = Times(s, {Typed})
        BY <3>4, <3>5, TimesAppended
      <3>7. page' = [page EXCEPT ![t] = [[page[t] EXCEPT !.box = b] EXCEPT !.keys = n]]
        BY <1>2, <2>2 DEF Paged, Page
      <3> HIDE DEF b
      <3>8. n \in 0 .. MaxKeys /\ Times(b, {Typed}) <= n
        BY <1>2, <3>6 DEF Held
      <3> HIDE DEF n
      <3> QED BY <1>3, <3>6, <3>7, <3>8
    <2> QED BY <1>15, <2>1, <2>2 DEF Deliver
  <1>16. ASSUME NEW l \in Lines, NEW q \in Questions, Request(l, q) PROVE Paged'
    BY <1>0, <1>16 DEF Request, Refuse, Admit, Run, Transcribed, RunRaises, Commit
  <1> QED BY <1>6, <1>7, <1>8, <1>9, <1>10, <1>11, <1>12, <1>13, <1>14, <1>15, <1>16 DEF Next

LEMMA CreditStays ==
  ASSUME NEW h, NEW k, NEW a, NEW q, Credited(h, a, q),
         \A i \in 1 .. Len(h) : i \in 1 .. Len(k) /\ k[i] = h[i]
  PROVE  Credited(k, a, q)
  BY DEF Credited

LEMMA AnswersKeep ==
  ASSUME VoiceIInv, CreditIInv, [Next]_vars
  PROVE  Answered'
  <1>1. \A i \in 1 .. Len(heard) : i \in 1 .. Len(heard') /\ heard'[i] = heard[i]
    BY HeardStays
  <1>2. DOMAIN answers = Questions /\ \A q \in Questions : answers[q].stored => Credited(heard, answers[q], q)
    BY DEF CreditIInv, Answered
  <1>3. ASSUME answers' = answers PROVE Answered'
    BY <1>1, <1>2, <1>3, CreditStays DEF Answered
  <1>4. ASSUME NEW t \in Tabs, Submit(t) PROVE Answered'
    <2> DEFINE q == page[t].q
               text == page[t].box
               keys == page[t].keys
               a == Answer(text, keys, q)
    <2>1. /\ q \in Questions /\ text \in Seq(Pieces)
          /\ keys \in Nat /\ Times(text, {Typed}) <= keys
      <3>1. page[t] \in Page /\ Held(page[t]) /\ page[t].busy = "sending"
        BY <1>4 DEF CreditIInv, Paged, Submit
      <3>2. q \in Questions /\ text \in Seq(Pieces) /\ keys \in 0 .. MaxKeys
        BY <3>1 DEF Page, Held
      <3> QED BY <3>1, <3>2 DEF Held
    <2>2. answers' = answers \/ answers' = [answers EXCEPT ![q] = a]
      BY <1>4 DEF Submit
    <2>3. heard' = heard
      BY <1>4 DEF Submit, db
    <2>4. Credited(heard, a, q)
      <3>1. Said(q) \subseteq Clips /\ \A i \in Said(q) : i \in 1 .. Len(heard) /\ heard[i] = q
        BY SaidFacts DEF CreditIInv
      <3>2. a.text = text /\ a.keys = keys /\ a.clips = Said(q) /\ a.dictated = DictatedChars[text][Transcripts(q)]
        BY DEF Answer
      <3>3. /\ Transcripts(q) \in Seq(Clips) /\ Ascending(Transcripts(q))
            /\ ToSet(Transcripts(q)) = Said(q)
        BY <3>1, TranscriptsInOrder
      <3> HIDE DEF a, text, keys, q
      <3> QED BY <2>1, <3>1, <3>2, <3>3 DEF Credited
    <2> HIDE DEF a, text, keys, q
    <2>5. CASE answers' = [answers EXCEPT ![q] = a]
      <3>1. DOMAIN answers' = Questions /\ \A p \in Questions : answers'[p] = IF p = q THEN a ELSE answers[p]
        BY <1>2, <2>5
      <3>2. \A p \in Questions : answers'[p].stored => Credited(heard', answers'[p], p)
        <4> SUFFICES ASSUME NEW p \in Questions, answers'[p].stored
                     PROVE  Credited(heard', answers'[p], p)
          OBVIOUS
        <4>1. CASE p = q
          BY <2>3, <2>4, <3>1, <4>1
        <4>2. CASE p # q
          BY <1>2, <2>3, <3>1, <4>2
        <4> QED BY <4>1, <4>2
      <3> QED BY <3>1, <3>2 DEF Answered
    <2> QED BY <1>3, <2>2, <2>5
  <1>5. CASE UNCHANGED vars
    BY <1>3, <1>5 DEF vars
  <1>6. ASSUME NEW t \in Tabs,
               Record(t) \/ Stop(t) \/ Type(t) \/ Paste(t) \/ Copy(t) \/ Erase(t) \/ Drop(t)
                 \/ Send(t) \/ LoadQuestion(t)
        PROVE  answers' = answers
    BY <1>6 DEF Record, Stop, Type, Paste, Put, Copy, Erase, Drop, Send, LoadQuestion
  <1>7. ASSUME NEW l \in Lines, NEW q \in Questions, Request(l, q) PROVE answers' = answers
    BY <1>7 DEF Request, Refuse, Admit, Run, Transcribed, RunRaises, Commit
  <1>8. ASSUME NEW t \in Tabs, NEW q \in Questions, Deliver(t, q) PROVE answers' = answers
    BY <1>8 DEF Deliver
  <1> QED BY <1>3, <1>4, <1>5, <1>6, <1>7, <1>8 DEF Next

LEMMA CreditStep ==
  ASSUME VoiceIInv, CreditIInv, [Next]_vars
  PROVE  CreditIInv'
  <1>1. Paged' /\ Lined' /\ Answered'
    BY PagesKeep, LinesKeep, AnswersKeep DEF CreditIInv
  <1>2. Room' /\ Numbered'
    <2>1. CASE UNCHANGED vars
      BY <2>1, StillKeeps DEF vars, db, CreditIInv
    <2> QED BY <2>1, CandidateKeeps, DeliverKeeps, RequestKeeps DEF Next, CreditIInv
  <1> QED BY <1>1, <1>2 DEF CreditIInv

LEMMA CreditIInvHolds == Spec => [](VoiceIInv /\ CreditIInv)
  <1>1. VoiceIInv /\ CreditIInv /\ [Next]_vars => (VoiceIInv /\ CreditIInv)'
    BY StepInv, CreditStep
  <1> QED BY <1>1, InitInv, CreditInit, PTL DEF Spec

-----------------------------------------------------------------------------
(* Theorems about credits and signals                                       *)

\* What an answer was credited with, and what that is bounded by.
LEMMA CreditFacts ==
  ASSUME VoiceIInv, CreditIInv, NEW q \in Stored
  PROVE  /\ answers[q].text \in Seq(Pieces)
         /\ answers[q].keys \in Nat /\ Times(answers[q].text, {Typed}) <= answers[q].keys
         /\ answers[q].dictated \in Nat
         /\ answers[q].dictated <= Chars * Cardinality({i \in Spoken(answers[q].text) : heard[i] = q})
         /\ Spoken(answers[q].text) \subseteq answers[q].clips /\ InOrder(answers[q].text) =>
              answers[q].dictated = Chars * Times(answers[q].text, Clips)
  <1> DEFINE a == answers[q]
             S == {i \in Spoken(a.text) : heard[i] = q}
  <1>1. Credited(heard, a, q)
    BY DEF CreditIInv, Answered, Stored
  <1> HIDE DEF a
  <1>2. a.text \in Seq(Pieces) /\ \A i \in a.clips : heard[i] = q
    BY <1>1 DEF Credited
  <1>3. PICK c \in Seq(Clips) : Ascending(c) /\ ToSet(c) = a.clips
                                /\ a.dictated = DictatedChars[a.text][c]
    BY <1>1 DEF Credited
  <1>4. a.dictated \in Nat /\ a.dictated <= Chars * Cardinality(ToSet(a.text) \cap ToSet(c))
    BY <1>2, <1>3, CreditIsBounded
  <1>5. ToSet(c) \subseteq Clips
    BY DEF ToSet
  <1>6. ToSet(a.text) \cap ToSet(c) \subseteq S
    BY <1>2, <1>3, <1>5 DEF Spoken
  <1>7. /\ IsFiniteSet(S) /\ Cardinality(S) \in Nat
        /\ Cardinality(ToSet(a.text) \cap ToSet(c)) \in Nat
        /\ Cardinality(ToSet(a.text) \cap ToSet(c)) <= Cardinality(S)
    <2>1. S \subseteq ToSet(a.text)
      BY DEF Spoken
    <2>2. IsFiniteSet(ToSet(a.text))
      BY <1>2, FiniteValues
    <2>3. IsFiniteSet(S)
      BY <2>1, <2>2, FS_Subset
    <2> HIDE DEF S
    <2> QED BY <1>6, <2>3, FS_Subset, FS_CardinalityType
  <1>8. Spoken(a.text) \subseteq a.clips /\ InOrder(a.text) => a.dictated = Chars * Times(a.text, Clips)
    BY <1>2, <1>3, CreditIsFull
  <1>9. a.dictated <= Chars * Cardinality(S)
    <2> DEFINE m == Cardinality(ToSet(a.text) \cap ToSet(c))
               n == Cardinality(S)
               d == a.dictated
    <2>1. d \in Nat /\ m \in Nat /\ n \in Nat /\ m <= n /\ d <= Chars * m
      BY <1>4, <1>7
    <2> HIDE DEF m, n, d
    <2>2. d <= Chars * n
      BY <2>1 DEF Chars
    <2> QED BY <2>2 DEF n, d
  <1>10. a.keys \in Nat /\ Times(a.text, {Typed}) <= a.keys
    BY <1>1 DEF Credited
  <1> QED BY <1>2, <1>4, <1>8, <1>9, <1>10 DEF a

\* Types; the slots, the cap; each transcript is credited once, and only to the
\* question it was said for (transcribe_answer, dictated_chars).
THEOREM ClipsAndCredits == Spec => []VoiceInv
  <1>1. VoiceIInv /\ CreditIInv => TypeOK
    <2> SUFFICES ASSUME VoiceIInv, CreditIInv PROVE TypeOK
      OBVIOUS
    <2>1. /\ Len(heard) \in Nat /\ Len(heard) <= spoken /\ spoken \in 0 .. MaxSpoken
          /\ \A r \in rows : r \in Clip /\ r.id \in Clips
      BY SaidFacts DEF CreditIInv
    <2>2. rows \subseteq Row
      BY <2>1 DEF Clip, Row
    <2>3. \A l \in Lines, q \in Questions : rec[l][q].pc \in Recorder
      <3> SUFFICES ASSUME NEW l \in Lines, NEW q \in Questions PROVE rec[l][q].pc \in Recorder
        OBVIOUS
      <3>1. rec[l][q] \in Recorders
        BY DEF VoiceIInv, Shapes
      <3> QED BY <3>1 DEF Recorders
    <2>4. \A r \in rows, s \in rows : r.id = s.id => r = s
      BY DEF CreditIInv, Numbered, Kept
    <2>5. heard \in Seq(Questions) /\ \A t \in Tabs : page[t] \in Page
      BY DEF VoiceIInv, Shapes, CreditIInv, Paged
    <2>6. line \in [Tabs -> [Questions -> Lines]]
      BY DEF CreditIInv, Lined
    <2> QED BY <2>1, <2>2, <2>3, <2>4, <2>5, <2>6 DEF TypeOK
  <1>2. VoiceIInv /\ CreditIInv => SpeechCountsOnce
    BY CreditFacts DEF SpeechCountsOnce
  <1> QED BY <1>1, <1>2, CreditIInvHolds, CapHolds, SlotsComeBack, PTL DEF VoiceInv

\* What assess_answer computes, in numbers.
LEMMA SignalFacts ==
  ASSUME VoiceIInv, CreditIInv, NEW q \in Stored
  PROVE  LET a     == answers[q]
             n     == Len(a.text)
             typed == Times(a.text, {Typed})
             said  == Cardinality({i \in Spoken(a.text) : heard[i] = q})
             credit == IF a.dictated <= Chars * n THEN a.dictated ELSE Chars * n
         IN  /\ said \in Nat /\ said <= Cardinality(Spoken(a.text))
             /\ "mostly_pasted" \in Signals(q) <=>
                  10 * (IF Chars * n <= Chars * a.keys + credit THEN Chars * n ELSE Chars * a.keys + credit)
                    < 4 * (Chars * n)
             /\ "too_fast" \in Signals(q) =>
                  /\ Chars * n - credit >= Chars
                  /\ Chars * n - credit >
                       12 * (TypeSecs * typed + SpeakSecs * said + PasteSecs * (n - typed - said))
             /\ Signals(q) \subseteq {"mostly_pasted", "too_fast"}
  <1> DEFINE a     == answers[q]
             n     == Len(a.text)
             typed == Times(a.text, {Typed})
             Said1 == {i \in Spoken(a.text) : heard[i] = q}
             said  == Cardinality(Said1)
             chars == Chars * n
             d     == a.dictated
             k     == a.keys
             keys  == Chars * k
             credit == IF d <= chars THEN d ELSE chars
             secs == TypeSecs * typed + SpeakSecs * said + PasteSecs * (n - typed - said)
             pasted == 10 * Min({chars, keys + Min({d, chars})}) < 4 * chars
             fast == secs > 0 /\ chars - Min({d, chars}) >= Chars /\ chars - Min({d, chars}) > 12 * secs
  <1>1. a.text \in Seq(Pieces) /\ d \in Nat /\ k \in Nat
    BY CreditFacts
  <1>2. /\ n \in Nat /\ typed \in Nat
        /\ IsFiniteSet(Spoken(a.text)) /\ Cardinality(Spoken(a.text)) \in Nat
    BY <1>1, KindsAddUp
  <1>3. said \in Nat /\ said <= Cardinality(Spoken(a.text))
    <2>1. Said1 \subseteq Spoken(a.text)
      OBVIOUS
    <2> HIDE DEF Said1
    <2> QED BY <1>2, <2>1, FS_Subset, FS_CardinalityType
  <1>4. Signals(q) = (IF pasted THEN {"mostly_pasted"} ELSE {}) \cup (IF fast THEN {"too_fast"} ELSE {})
    BY DEF Signals, Telemetry, TypedChars, Spoken
  <1> HIDE DEF a, n, typed, said, d, k
  <1>5. chars \in Nat /\ keys \in Nat
    BY <1>1, <1>2 DEF Chars
  <1> HIDE DEF chars, keys
  <1>6. Min({d, chars}) = credit /\ credit \in Nat
    BY <1>1, <1>5, MinOfTwo
  <1> HIDE DEF credit
  <1>7. Min({chars, keys + credit}) = IF chars <= keys + credit THEN chars ELSE keys + credit
    BY <1>5, <1>6, MinOfTwo
  <1>8. "mostly_pasted" \in Signals(q) <=>
          10 * (IF chars <= keys + credit THEN chars ELSE keys + credit) < 4 * chars
    <2>1. "mostly_pasted" \in Signals(q) <=> pasted
      BY <1>4
    <2> QED BY <1>6, <1>7, <2>1
  <1>9. "too_fast" \in Signals(q) => chars - credit >= Chars /\ chars - credit > 12 * secs
    <2>1. "too_fast" \in Signals(q) => fast
      BY <1>4
    <2> QED BY <1>6, <2>1
  <1>10. Signals(q) \subseteq {"mostly_pasted", "too_fast"}
    BY <1>4
  <1> QED BY <1>3, <1>8, <1>9, <1>10 DEF a, n, typed, said, chars, d, k, keys, credit

\* Whatever is typed between drafts of the question, each in its turn, the answer is
\* neither "mostly pasted" nor "too fast": the drafts are credited in full, and what is
\* left was typed at a typist's pace (assess_answer).
THEOREM HonestIsClean == Spec => []HonestIsNotFlagged
  <1>1. VoiceIInv /\ CreditIInv => HonestIsNotFlagged
    <2> SUFFICES ASSUME VoiceIInv, CreditIInv, NEW q \in Stored,
                        Pasted \notin ToSet(answers[q].text),
                        Spoken(answers[q].text) \subseteq answers[q].clips, InOrder(answers[q].text)
                 PROVE  Signals(q) = {}
      BY DEF HonestIsNotFlagged
    <2> DEFINE text  == answers[q].text
               n     == Len(text)
               typed == Times(text, {Typed})
               drafts == Times(text, Clips)
               own   == Cardinality(Spoken(text))
               said  == Cardinality({i \in Spoken(text) : heard[i] = q})
               keys  == answers[q].keys
               d     == answers[q].dictated
               credit == IF d <= Chars * n THEN d ELSE Chars * n
    <2>1. text \in Seq(Pieces) /\ d = Chars * drafts /\ keys \in Nat /\ typed <= keys
      BY CreditFacts
    <2>2. /\ n \in Nat /\ typed \in Nat /\ drafts \in Nat /\ n = typed + drafts
          /\ own \in Nat /\ own <= drafts
      <3>1. /\ n \in Nat /\ typed \in Nat /\ drafts \in Nat /\ own \in Nat /\ own <= drafts
            /\ n = typed + Times(text, {Pasted}) + drafts /\ Times(text, {Pasted}) = 0
        BY <2>1, KindsAddUp
      <3> HIDE DEF n, typed, drafts, own
      <3> QED BY <3>1
    <2>3. /\ said \in Nat /\ said <= own
          /\ "mostly_pasted" \in Signals(q) <=>
               10 * (IF Chars * n <= Chars * keys + credit THEN Chars * n ELSE Chars * keys + credit)
                 < 4 * (Chars * n)
          /\ "too_fast" \in Signals(q) =>
               /\ Chars * n - credit >= Chars
               /\ Chars * n - credit >
                    12 * (TypeSecs * typed + SpeakSecs * said + PasteSecs * (n - typed - said))
          /\ Signals(q) \subseteq {"mostly_pasted", "too_fast"}
      BY SignalFacts
    <2> HIDE DEF n, typed, drafts, own, said, d, keys
    <2>4. credit = Chars * drafts
      BY <2>1, <2>2 DEF Chars
    <2> HIDE DEF credit
    <2>5. "mostly_pasted" \notin Signals(q)
      <3>1. ~ (10 * (IF Chars * n <= Chars * keys + credit THEN Chars * n ELSE Chars * keys + credit)
                 < 4 * (Chars * n))
        BY <2>1, <2>2, <2>4 DEF Chars
      <3> QED BY <2>3, <3>1
    <2>6. "too_fast" \notin Signals(q)
      <3>1. ~ (Chars * n - credit >
                 12 * (TypeSecs * typed + SpeakSecs * said + PasteSecs * (n - typed - said)))
            \/ ~ (Chars * n - credit >= Chars)
        BY <2>2, <2>3, <2>4 DEF Chars, TypeSecs, SpeakSecs, PasteSecs
      <3> QED BY <2>3, <3>1
    <2> QED BY <2>3, <2>5, <2>6
  <1> QED BY <1>1, CreditIInvHolds, PTL

\* No recording hides what was pasted, nor the same draft pasted over and over: what
\* is credited is each draft once, and the keys pressed (assess_answer, dictated_chars).
THEOREM PasteShows == Spec => []PasteIsFlagged
  <1>1. VoiceIInv /\ CreditIInv => PasteIsFlagged
    <2> SUFFICES ASSUME VoiceIInv, CreditIInv, NEW q \in Stored,
                        10 * (answers[q].keys + Cardinality(Spoken(answers[q].text)))
                          < 4 * Len(answers[q].text)
                 PROVE  "mostly_pasted" \in Signals(q)
      BY DEF PasteIsFlagged
    <2> DEFINE text   == answers[q].text
               n      == Len(text)
               keys   == answers[q].keys
               own    == Cardinality(Spoken(text))
               said   == Cardinality({i \in Spoken(text) : heard[i] = q})
               d      == answers[q].dictated
               credit == IF d <= Chars * n THEN d ELSE Chars * n
    <2>1. text \in Seq(Pieces) /\ d \in Nat /\ d <= Chars * said /\ keys \in Nat
      BY CreditFacts
    <2>2. n \in Nat /\ own \in Nat
      BY <2>1, KindsAddUp
    <2>3. /\ said \in Nat /\ said <= own
          /\ "mostly_pasted" \in Signals(q) <=>
               10 * (IF Chars * n <= Chars * keys + credit THEN Chars * n ELSE Chars * keys + credit)
                 < 4 * (Chars * n)
      BY SignalFacts
    <2>4. 10 * (keys + own) < 4 * n
      OBVIOUS
    <2> HIDE DEF n, keys, own, said, d
    <2>5. credit \in Nat /\ credit <= Chars * own
      BY <2>1, <2>2, <2>3 DEF Chars
    <2> HIDE DEF credit
    <2>6. 10 * (Chars * keys + credit) < 4 * (Chars * n)
      BY <2>1, <2>2, <2>4, <2>5 DEF Chars
    <2>7. Chars * n \in Nat /\ Chars * keys + credit \in Nat
      BY <2>1, <2>2, <2>5 DEF Chars
    <2>8. 10 * (IF Chars * n <= Chars * keys + credit THEN Chars * n ELSE Chars * keys + credit)
            < 4 * (Chars * n)
      BY <2>1, <2>2, <2>5, <2>6 DEF Chars
    <2> QED BY <2>3, <2>8
  <1> QED BY <1>1, CreditIInvHolds, PTL

=============================================================================
