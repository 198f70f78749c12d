------------------------------- MODULE Voice -------------------------------
(***************************************************************************)
(* Spoken answers: the recorder and the answer box of the page, the route  *)
(* that transcribes a clip and keeps the transcript, and the submit that   *)
(* measures how much of an answer was spoken, from which the integrity     *)
(* signals are read.                                                       *)
(*                                                                         *)
(* An answer is a sequence of pieces of Chars characters each: typed,      *)
(* pasted, or the transcript of a clip.  A clip is numbered when its row   *)
(* is flushed, which is also what created_at orders by.                    *)
(*                                                                         *)
(* A recorder has one request at a time on its connection.  When that      *)
(* drops it is free again, on another one, and the server goes on with a   *)
(* request nobody waits for.                                               *)
(***************************************************************************)
EXTENDS Integers, FiniteSetsExt, SequencesExt

CONSTANTS Tabs,        \* pages open on the session
          Lines,       \* bound: their connections; each tab begins on its own
          Count,       \* questions 1 .. Count
          MaxClips,    \* VOICE_MAX_CLIPS_PER_QUESTION
          Concurrency, \* VOICE_CONCURRENCY
          MaxSpoken,   \* bound: recordings started
          MaxPieces,   \* bound: pieces typed or pasted that any box holds
          MaxKeys      \* bound: pieces' worth of keystrokes any box has had

ASSUME VoiceAssumption ==
  /\ IsFiniteSet(Lines) /\ Tabs \subseteq Lines
  /\ Count \in Nat \ {0} /\ MaxClips \in Nat \ {0} /\ Concurrency \in Nat \ {0}
  /\ MaxSpoken \in Nat /\ MaxPieces \in Nat /\ MaxKeys \in Nat

Questions == 1 .. Count
NoMore    == 0          \* the page is out of questions
Typed     == 0
Pasted    == -1
Clips     == 1 .. MaxSpoken
Pieces    == {Typed, Pasted} \cup Clips

\* INTEGRITY_MIN_CHARS, a fast typist's 8 and a speaker's 13 characters a second.
Chars      == 120
TypeSecs   == 15
SpeakSecs  == 9
PasteSecs  == 1
MinBlock   == 8
\* A text from elsewhere shares short runs with any transcript.
Runs        == 8
Coincidence == 7

VARIABLES
  rows,     \* committed transcripts
  heard,    \* the question of each clip flushed so far
  spoken,   \* recordings started
  rec,      \* the recording and the request of a line at a question
  line,     \* the line a tab's recorder at a question is on
  slots,    \* transcriptions that may still start
  page,     \* question on screen, answer box and keystrokes of a tab
  answers   \* the answer of each question

db   == <<rows, heard>>
vars == <<db, spoken, rec, line, slots, page, answers>>

Row  == [id : Clips, line : Lines, q : Questions]
Page == [q : Questions \cup {NoMore}, box : Seq(Pieces), keys : 0 .. MaxKeys,
         busy : {"no", "sending", "sent"}]
NoAnswer == [stored |-> FALSE]

Recorder == {"idle", "recording", "sent", "ready", "running", "flushed", "done"}
Blank(q) == [q |-> q, box |-> <<>>, keys |-> 0, busy |-> "no"]

TypeOK ==
  /\ rows \subseteq Row
  /\ heard \in Seq(Questions) /\ Len(heard) <= spoken /\ spoken \in 0 .. MaxSpoken
  /\ \A l \in Lines, q \in Questions : rec[l][q].pc \in Recorder
  /\ line \in [Tabs -> [Questions -> Lines]]
  /\ \A t \in Tabs : page[t] \in Page
  /\ \A r \in rows, s \in rows : r.id = s.id => r = s

Init ==
  /\ rows = {} /\ heard = <<>> /\ spoken = 0
  /\ rec = [l \in Lines |-> [q \in Questions |-> [pc |-> "idle", row |-> {}]]]
  /\ line = [t \in Tabs |-> [q \in Questions |-> t]]
  /\ slots = Concurrency
  /\ page = [t \in Tabs |-> Blank(1)]
  /\ answers = [q \in Questions |-> NoAnswer]

Goto(l, q, pc) == rec' = [rec EXCEPT ![l][q].pc = pc]

\* The line of the recorder on a tab's screen.
Mine(t) == line[t][page[t].q]

-----------------------------------------------------------------------------
(* The candidate: recorder and answer box *)

Writing(t) == page[t].q # NoMore /\ page[t].busy = "no"

Record(t) ==
  /\ Writing(t) /\ spoken < MaxSpoken
  /\ rec[Mine(t)][page[t].q].pc = "idle"
  /\ spoken' = spoken + 1
  /\ Goto(Mine(t), page[t].q, "recording")
  /\ UNCHANGED <<db, line, slots, page, answers>>

\* The clip is sent; nothing keeps the page on its question meanwhile.
Stop(t) ==
  /\ page[t].q # NoMore
  /\ rec[Mine(t)][page[t].q].pc = "recording"
  /\ Goto(Mine(t), page[t].q, "sent")
  /\ UNCHANGED <<db, spoken, line, slots, page, answers>>

\* The connection drops: the recorder is idle, the request goes on without it.  (One
\* that is off the screen, or has its answer, loses no more than Deliver can.)
Drop(t) ==
  /\ page[t].q # NoMore
  /\ rec[Mine(t)][page[t].q].pc \in {"sent", "ready", "running", "flushed"}
  /\ \E l \in Lines : /\ rec[l][page[t].q].pc = "idle"
                      /\ \A u \in Tabs : line[u][page[t].q] # l
                      /\ line' = [line EXCEPT ![t][page[t].q] = l]
  /\ UNCHANGED <<db, spoken, rec, slots, page, answers>>

\* How many pieces of a text are of a kind.
Times(text, kind) == Quantify(DOMAIN text, LAMBDA i : text[i] \in kind)

\* Bounds, for a tab to go on while the others are below them too.
Within(keys) ==
  \A t \in Tabs : /\ Times(page[t].box, {Typed, Pasted}) < MaxPieces
                  /\ page[t].keys + keys <= MaxKeys

\* A piece comes in anywhere, for so many pieces' worth of keystrokes.
Put(t, piece, keys) ==
  /\ Writing(t)
  /\ \E i \in 0 .. Len(page[t].box) :
       page' = [page EXCEPT ![t].box = SubSeq(@, 1, i) \o <<piece>> \o SubSeq(@, i + 1, Len(@)),
                            ![t].keys = @ + keys]
  /\ UNCHANGED <<db, spoken, rec, line, slots, answers>>

Type(t)  == Within(1) /\ Put(t, Typed, 1)
Paste(t) == Within(0) /\ Put(t, Pasted, 0)

\* A draft can be copied out of the box and pasted back.
Copy(t) ==
  /\ Len(page[t].box) <= MaxPieces
  /\ \E c \in ToSet(page[t].box) \cap Clips : Put(t, c, 0)

\* What is taken out stays counted, and so do the keys that took it out: one for a
\* selection, one each for characters.
Erase(t) ==
  /\ Writing(t)
  /\ \E i \in DOMAIN page[t].box, keys \in {0, 1} :
       /\ \A u \in Tabs : page[u].keys + keys <= MaxKeys
       /\ page' = [page EXCEPT ![t].box = SubSeq(@, 1, i - 1) \o SubSeq(@, i + 1, Len(@)),
                               ![t].keys = @ + keys]
  /\ UNCHANGED <<db, spoken, rec, line, slots, answers>>

Send(t) ==
  /\ Writing(t) /\ page[t].box # <<>>
  /\ page' = [page EXCEPT ![t].busy = "sending"]
  /\ UNCHANGED <<db, spoken, rec, line, slots, answers>>

\* The page appends the draft, unless there is none, to whatever question it
\* shows by now.
Deliver(t, q) ==
  LET l == line[t][q] IN
  /\ rec[l][q].pc = "done"
  /\ Goto(l, q, "idle")
  /\ \/ page' = page
     \/ /\ page[t].q # NoMore
        /\ \E r \in rec[l][q].row : page' = [page EXCEPT ![t].box = Append(@, r.id)]
  /\ UNCHANGED <<db, spoken, line, slots, answers>>

-----------------------------------------------------------------------------
(* transcribe_answer and the transcriber *)

RowsFor(q) == {r \in rows : r.q = q}

MayTranscribeOneMore(q) == Cardinality(RowsFor(q)) <= MaxClips

MayTranscribe(q) == Cardinality(RowsFor(q)) < MaxClips

\* 404, 409, 429; a clip that is empty, too big, unreadable or too long; no model.
Refuse(l, q) ==
  /\ rec[l][q].pc \in {"sent", "ready"}
  /\ Goto(l, q, "idle")
  /\ UNCHANGED <<db, spoken, line, slots, page, answers>>

Admit(l, q) ==
  /\ rec[l][q].pc = "sent" /\ MayTranscribe(q)
  /\ Goto(l, q, "ready")
  /\ UNCHANGED <<db, spoken, line, slots, page, answers>>

\* Decoding and loading come before the slot; the model's lock only delays.
Run(l, q) ==
  /\ rec[l][q].pc = "ready" /\ slots > 0
  /\ slots' = slots - 1
  /\ Goto(l, q, "running")
  /\ UNCHANGED <<db, spoken, line, page, answers>>

FreedOnSuccess == slots

\* `with self._slots` gives the slot back however the run ends.
Freed == slots + 1

\* The transcript's row is flushed, which numbers it.
Transcribed(l, q) ==
  /\ rec[l][q].pc = "running"
  /\ slots' = slots + 1
  /\ heard' = Append(heard, q)
  /\ rec' = [rec EXCEPT ![l][q] =
               [pc |-> "flushed", row |-> {[id |-> Len(heard) + 1, line |-> l, q |-> q]}]]
  /\ UNCHANGED <<rows, spoken, line, page, answers>>

RunRaises(l, q) ==
  /\ rec[l][q].pc = "running"
  /\ slots' = Freed
  /\ Goto(l, q, "idle")
  /\ UNCHANGED <<db, spoken, line, page, answers>>

\* get_db commits before the response goes out, or fails the request.
Commit(l, q) ==
  /\ rec[l][q].pc = "flushed"
  /\ \/ rows' = rows \cup rec[l][q].row /\ Goto(l, q, "done")
     \/ rows' = rows /\ Goto(l, q, "idle")
  /\ UNCHANGED <<heard, spoken, line, slots, page, answers>>

-----------------------------------------------------------------------------
(* submit_answer: how much of the answer was spoken *)

AnyLength(n)  == n > 0
LongEnough(n) == n >= MinBlock

Counted(n) == IF LongEnough(n) THEN n ELSE 0

\* Characters in the runs two texts share, coincidences apart: the longest run first,
\* then to its left and right.
DictatedChars[text \in Seq(Pieces)] == [clips \in Seq(Clips) |->
  LET pairs == {y \in (DOMAIN text) \X (DOMAIN clips) : text[y[1]] = clips[y[2]]} IN
  IF text = <<>> \/ clips = <<>> THEN 0
  ELSE IF pairs = {} THEN Runs * Counted(Coincidence)
  ELSE LET i == Min({y[1] : y \in pairs})
           j == Min({y[2] : y \in {z \in pairs : z[1] = i}})
       IN  DictatedChars[SubSeq(text, 1, i - 1)][SubSeq(clips, 1, j - 1)] + Counted(Chars)
             + DictatedChars[SubSeq(text, i + 1, Len(text))][SubSeq(clips, j + 1, Len(clips))]]

Said(q) == {r.id : r \in RowsFor(q)}

Ascending(s) == \A i, j \in DOMAIN s : i < j => s[i] < s[j]

Transcripts(q) ==
  CHOOSE s \in [1 .. Cardinality(Said(q)) -> Said(q)] : ToSet(s) = Said(q) /\ Ascending(s)

\* Telemetry since the question was loaded: every key that typed or erased, and at
\* least the time of what is left, typed, said for this question, and pasted.
Telemetry(text, keys, q) ==
  LET said  == {i \in ToSet(text) \cap Clips : heard[i] = q}
      typed == Times(text, {Typed})
  IN  [keys |-> Chars * keys,
       secs |-> TypeSecs * typed + SpeakSecs * Cardinality(said)
                  + PasteSecs * (Len(text) - typed - Cardinality(said))]

Answer(text, keys, q) ==
  [stored |-> TRUE, text |-> text, keys |-> keys, clips |-> Said(q),
   dictated |-> DictatedChars[text][Transcripts(q)]]

\* One answer per question: the key is the question's.
Submit(t) ==
  /\ page[t].busy = "sending"
  /\ answers' = IF answers[page[t].q].stored THEN answers
                ELSE [answers EXCEPT ![page[t].q] =
                        Answer(page[t].box, page[t].keys, page[t].q)]
  /\ page' = [page EXCEPT ![t].busy = "sent"]
  /\ UNCHANGED <<db, spoken, rec, line, slots>>

Unanswered == {q \in Questions : ~answers[q].stored}
NextQuestion == IF Unanswered = {} THEN NoMore ELSE Min(Unanswered)

\* loadQuestion: the recorder goes, with a recording it was making.
LoadQuestion(t) ==
  /\ page[t].busy = "sent"
  /\ page' = [page EXCEPT ![t] = Blank(NextQuestion)]
  /\ rec' = IF rec[Mine(t)][page[t].q].pc = "recording" /\ NextQuestion # page[t].q
            THEN [rec EXCEPT ![Mine(t)][page[t].q].pc = "idle"] ELSE rec
  /\ UNCHANGED <<db, spoken, line, slots, answers>>

-----------------------------------------------------------------------------

Request(l, q) == \/ Refuse(l, q) \/ Admit(l, q) \/ Run(l, q)
                 \/ Transcribed(l, q) \/ RunRaises(l, q) \/ Commit(l, q)

Next ==
  \/ \E t \in Tabs : Record(t) \/ Stop(t) \/ Type(t) \/ Paste(t) \/ Copy(t) \/ Erase(t)
                     \/ Drop(t) \/ Send(t) \/ Submit(t) \/ LoadQuestion(t)
  \/ \E t \in Tabs, q \in Questions : Deliver(t, q)
  \/ \E l \in Lines, q \in Questions : Request(l, q)

Spec == Init /\ [][Next]_vars

-----------------------------------------------------------------------------
(* integrity.assess_answer *)

AllChars(chars, dictated)   == chars
TypedChars(chars, dictated) == chars - dictated

Signals(q) ==
  LET a        == answers[q]
      chars    == Chars * Len(a.text)
      dictated == Min({a.dictated, chars})
      typed    == TypedChars(chars, dictated)
      client   == Telemetry(a.text, a.keys, q)
      pasted   == 10 * Min({chars, client.keys + dictated}) < 4 * chars
      fast     == client.secs > 0 /\ typed >= Chars /\ typed > 12 * client.secs
  IN  (IF pasted THEN {"mostly_pasted"} ELSE {}) \cup (IF fast THEN {"too_fast"} ELSE {})

Stored == {q \in Questions : answers[q].stored}

Spoken(text) == ToSet(text) \cap Clips
Unwritten(a) == Times(a.text, {Pasted}) + Times(a.text, Clips) - Cardinality(Spoken(a.text))

\* The drafts of a text come in the order they were said.
InOrder(text) ==
  \A i, j \in DOMAIN text : i < j /\ {text[i], text[j]} \subseteq Clips => text[i] < text[j]

-----------------------------------------------------------------------------
(* Properties *)

\* An answer that was all typed and spoken, its drafts those of its own question
\* and in the order they came, carries no signal: speech is neither "pasted" nor
\* "too fast", whatever typing it is mixed with.
HonestIsNotFlagged ==
  \A q \in Stored :
    LET a == answers[q] IN
    /\ Pasted \notin ToSet(a.text)
    /\ Spoken(a.text) \subseteq a.clips
    /\ InOrder(a.text)
    => Signals(q) = {}

\* A text of which the keys pressed and the drafts said for it, each once, do not make
\* 40% is flagged, whatever the candidate recorded for the question: neither short runs
\* in common nor copies of a draft count.  Keys spent on text that is gone do count,
\* which favours the candidate (assess_answer).
PasteIsFlagged ==
  \A q \in Stored :
    LET a == answers[q] IN
    10 * (a.keys + Cardinality(Spoken(a.text))) < 4 * Len(a.text) => "mostly_pasted" \in Signals(q)

\* No transcript is credited twice, nor one of another question.
SpeechCountsOnce ==
  \A q \in Stored :
    answers[q].dictated <= Chars * Cardinality({i \in Spoken(answers[q].text) : heard[i] = q})

\* One tab whose connection holds keeps to the cap.  Tabs together, and those a dropped
\* connection lets record again, pass it by what they had under way when it was reached,
\* one clip for each line.
ClipsAreCapped ==
  \A q \in Questions :
    RowsFor(q) # {} => Cardinality(RowsFor(q)) < MaxClips + Cardinality({r.line : r \in RowsFor(q)})

\* However a transcription ends, its slot is given back: what may start is what is
\* not running (transcribe).
SlotsAreGivenBack ==
  slots = Concurrency - Quantify(Lines \X Questions, LAMBDA x : rec[x[1]][x[2]].pc = "running")

\* What holds of clips and credits whatever the tabs do at once: types, the slots, the
\* cap, each transcript credited once.
VoiceInv == TypeOK /\ SlotsAreGivenBack /\ ClipsAreCapped /\ SpeechCountsOnce

\* What is said for a question is part of no other question's answer.
DraftsStayWithTheirQuestion ==
  \A q \in Stored : \A i \in Spoken(answers[q].text) : heard[i] = q

\* No question is given more clips than VOICE_MAX_CLIPS_PER_QUESTION.
CapIsKept == \A q \in Questions : Cardinality(RowsFor(q)) <= MaxClips

\* More than 60% pasted is flagged, also after something typed was taken out.
MostlyPastedIsFlagged ==
  \A q \in Stored :
    10 * Unwritten(answers[q]) > 6 * Len(answers[q].text) => "mostly_pasted" \in Signals(q)

=============================================================================
