------------------------------ MODULE Library ------------------------------
(***************************************************************************)
(* The knowledge base over time: the files its authors edit, the           *)
(* ingestions that chunk and embed them, one transaction each, and the     *)
(* questions whose citations are chunk ids, stored while ingestions go on  *)
(* and read back when the answer is graded or reviewed.                    *)
(*                                                                         *)
(* Nothing keeps two ingestions apart but the database's row locks and     *)
(* unique keys: a document has one row, and one chunk at each ordinal.     *)
(* Files change at any time, so a reading finds any content.               *)
(*                                                                         *)
(* How a file is split is Chunking's; here a content has its passages.     *)
(* Which passages a question gets is Grounding's; here any it could see.   *)
(***************************************************************************)
EXTENDS Naturals, SequencesExt

CONSTANTS Files,      \* paths under the knowledge base's root
          Contents,   \* what a file may hold and not be refused
          Passages,   \* the passages of each content
          Absent,     \* no such row
          Models,     \* embedding models an operator may configure
          Ingestions, \* those that may be under way at once
          Questions,
          MaxIds,     \* bound: chunk rows ever written
          MaxSources  \* bound: sources of a question

ASSUME LibraryAssumption ==
  /\ Absent \notin Contents
  /\ DOMAIN Passages = Contents
  /\ \A c \in Contents : Passages[c] \in Seq(ToSet(Passages[c])) /\ Passages[c] # <<>>
  /\ MaxIds \in Nat /\ MaxSources \in Nat

Texts == UNION {ToSet(Passages[c]) : c \in Contents}
Ids   == 1 .. MaxIds
Rows  == [id : Ids, file : Files, ordinal : Nat, text : Texts, model : Models]

VARIABLES
  docs,      \* kb_documents: the content each file was last hashed with
  chunks,    \* kb_chunks
  work,      \* each ingestion, and what its transaction has written
  question,  \* where each question is
  cited,     \* source_chunk_ids
  shown,     \* history: the passages the model was shown for it
  graded,    \* the reference its grader was given
  last       \* the last chunk id given

kb   == <<docs, chunks, work, last>>
qs   == <<question, cited, shown, graded>>
vars == <<kb, qs>>

Nothing == [f \in Files |-> Absent]
Idle    == [on |-> FALSE, force |-> FALSE, model |-> Absent, seen |-> {}, at |-> {},
            done |-> {}, hash |-> Nothing, chunks |-> {}, alone |-> FALSE]

Held    == [Files -> Contents \cup {Absent}]
Reading == [file : Files, raw : Contents, loaded : Contents \cup {Absent}]
Tries   == [on : BOOLEAN, force : BOOLEAN, model : Models \cup {Absent},
            seen : SUBSET Files, at : SUBSET Reading, done : SUBSET Files,
            hash : Held, chunks : SUBSET Rows, alone : BOOLEAN]

TypeOK ==
  /\ docs \in Held /\ chunks \subseteq Rows
  /\ work \in [Ingestions -> Tries] /\ \A r \in Ingestions : work[r].on => work[r].model \in Models
  /\ question \in [Questions -> {"new", "asked", "stored", "graded"}]
  /\ cited \in [Questions -> Seq(Ids)] /\ \A q \in Questions : Len(cited[q]) <= MaxSources
  /\ shown \in [Questions -> Seq(Texts)] /\ graded \in [Questions -> SUBSET Texts]
  /\ last \in 0 .. MaxIds

Init ==
  /\ docs = Nothing /\ chunks = {} /\ last = 0 /\ work = [r \in Ingestions |-> Idle]
  /\ question = [q \in Questions |-> "new"]
  /\ cited = [q \in Questions |-> <<>>]
  /\ shown = [q \in Questions |-> <<>>] /\ graded = [q \in Questions |-> {}]

-----------------------------------------------------------------------------
(* ingest_kb *)

NoGuard(m) == TRUE

\* _guard_against_mixed_models.
OneModel(m) == \A c \in chunks : c.model = m

\* Without --force, not into an index of another model.  (alone is history: no other
\* ingestion has changed the tables since.)
Start(r, force, m) ==
  /\ ~work[r].on
  /\ force \/ OneModel(m)
  /\ work' = [work EXCEPT ![r] = [Idle EXCEPT !.on = TRUE, !.force = force, !.model = m,
                                              !.alone = TRUE]]
  /\ UNCHANGED <<docs, chunks, last, qs>>

\* An unchanged document is skipped.
Come(w, f, raw) ==
  [w EXCEPT !.seen = @ \cup {f},
            !.at = IF docs[f] = raw /\ ~w.force THEN {}
                   ELSE {[file |-> f, raw |-> raw, loaded |-> docs[f]]}]

\* The next file is read and its document loaded.  Each file is come to once, and one
\* that is not on disk never.
Read(r, f, raw) ==
  /\ work[r].on /\ f \notin work[r].seen /\ work[r].at = {}
  /\ work' = [work EXCEPT ![r] = Come(@, f, raw)]
  /\ UNCHANGED <<docs, chunks, last, qs>>

\* A row per passage, from the id after n.
NewRows(f, c, n, m) ==
  {[id |-> n + i, file |-> f, ordinal |-> i, text |-> Passages[c][i], model |-> m]
     : i \in DOMAIN Passages[c]}

\* The hash is written only if it differs from the one loaded.
Put(w, a, n) ==
  [w EXCEPT !.at = {}, !.done = @ \cup {a.file},
            !.hash[a.file] = IF a.raw = a.loaded THEN @ ELSE a.raw,
            !.chunks = @ \cup NewRows(a.file, a.raw, n, w.model)]

\* A file another ingestion has written waits for that one's end; a document inserted
\* meanwhile is refused.
Rewrite(r) ==
  \E a \in work[r].at :
    /\ \A s \in Ingestions \ {r} : a.file \notin work[s].done
    /\ a.loaded = Absent => docs[a.file] = Absent
    /\ last + Len(Passages[a.raw]) <= MaxIds
    /\ work' = [work EXCEPT ![r] = Put(@, a, last)]
    /\ last' = last + Len(Passages[a.raw])
    /\ UNCHANGED <<docs, chunks, qs>>

\* A file that is gone, refused or empty, an embedder's error, a row that another
\* ingestion inserted or deleted first, a deadlock, a crash: rolled back.
Fail(r) ==
  /\ work[r].on
  /\ work' = [work EXCEPT ![r] = Idle]
  /\ UNCHANGED <<docs, chunks, last, qs>>

\* A passage takes over the row of the one it replaces, id and all.
Updated(r) ==
  LET old(c) == {d \in chunks : d.file = c.file /\ d.ordinal = c.ordinal}
  IN  {c \in chunks : c.file \notin work[r].done}
        \cup {IF old(c) = {} THEN c ELSE [c EXCEPT !.id = (CHOOSE d \in old(c) : TRUE).id]
                : c \in work[r].chunks}

\* Rows past the new passages stay.
Merged(r) ==
  {c \in chunks : ~ \E d \in work[r].chunks : d.file = c.file /\ d.ordinal = c.ordinal}
    \cup work[r].chunks

\* The documents' chunks are deleted and written anew; those no longer on disk are
\* reported and left in place.
Replaced(r) == {c \in chunks : c.file \notin work[r].done} \cup work[r].chunks

\* One commit at the end.
Commit(r) ==
  /\ work[r].on /\ work[r].at = {}
  /\ docs' = [f \in Files |-> IF work[r].hash[f] = Absent THEN docs[f] ELSE work[r].hash[f]]
  /\ chunks' = Replaced(r)
  /\ work' = [s \in Ingestions |-> IF s = r THEN Idle
                             ELSE [work[s] EXCEPT !.alone = @ /\ work[r].done = {}]]
  /\ UNCHANGED <<last, qs>>

-----------------------------------------------------------------------------
(* Questions *)

\* check_rag: there are chunks, all of them embedded by the model.
ReadyFor(m, rows) == rows # {} /\ \A c \in rows : c.model = m

TextOf(id) == (CHOOSE c \in chunks : c.id = id).text
Stored(id) == \E c \in chunks : c.id = id

\* The prompt is built on the chunks retrieved; then the model is asked.
Ask(q, ids) ==
  /\ question[q] = "new"
  /\ \A i \in DOMAIN ids : Stored(ids[i])
  /\ question' = [question EXCEPT ![q] = "asked"]
  /\ cited' = [cited EXCEPT ![q] = ids]
  /\ shown' = [shown EXCEPT ![q] = [i \in DOMAIN ids |-> TextOf(ids[i])]]
  /\ UNCHANGED <<kb, graded>>

\* Its question is stored with the ids, whatever became of the rows meanwhile.
Store(q) ==
  /\ question[q] = "asked"
  /\ question' = [question EXCEPT ![q] = "stored"]
  /\ UNCHANGED <<kb, cited, shown, graded>>

\* _cited_sources, load_citations: without the chunks that are gone.
Resolved(q) == {TextOf(cited[q][i]) : i \in {k \in DOMAIN cited[q] : Stored(cited[q][k])}}

Grade(q) ==
  /\ question[q] = "stored"
  /\ question' = [question EXCEPT ![q] = "graded"]
  /\ graded' = [graded EXCEPT ![q] = Resolved(q)]
  /\ UNCHANGED <<kb, cited, shown>>

Next ==
  \/ \E r \in Ingestions :
       \/ \E force \in BOOLEAN, m \in Models : Start(r, force, m)
       \/ \E f \in Files, raw \in Contents : Read(r, f, raw)
       \/ Rewrite(r) \/ Fail(r) \/ Commit(r)
  \/ \E q \in Questions :
       \/ \E n \in 1 .. MaxSources : \E ids \in [1 .. n -> Ids] :
            IsInjective(ids) /\ Ask(q, ids)
       \/ Store(q) \/ Grade(q)

Spec == Init /\ [][Next]_vars

-----------------------------------------------------------------------------
(* Properties *)

RowsOf(f) == {c \in chunks : c.file = f}

\* They are the passages of a content, each once, embedded by one model.
Holds(rows, c, m) ==
  /\ Cardinality(rows) = Len(Passages[c])
  /\ {<<r.ordinal, r.text, r.model>> : r \in rows} = {<<i, Passages[c][i], m>> : i \in DOMAIN Passages[c]}

\* The tables other sessions read are those of whole files: what is stored of one is
\* all of one content, never a mix of two edits, a leftover, or part of an ingestion
\* that failed, whatever ingestions overlapped (ingest_kb).
StoredIsWhole ==
  \A f \in Files :
    IF docs[f] = Absent THEN RowsOf(f) = {}
    ELSE \E c \in Contents, m \in Models : Holds(RowsOf(f), c, m)

\* What holds of the committed tables.
LibraryInv == TypeOK /\ StoredIsWhole

\* A citation is never a lie: what it resolves to, for the grader or for a reviewer,
\* are passages the model was shown for that question, whatever was edited and
\* ingested between the two (ingest_kb, _cited_sources, load_citations).
CitationsNeverLie ==
  \A q \in Questions :
    /\ \A i \in DOMAIN cited[q] : Stored(cited[q][i]) => TextOf(cited[q][i]) = shown[q][i]
    /\ graded[q] \subseteq ToSet(shown[q])

Ends(r) == work[r].on /\ ~work'[r].on

\* A chunk goes only with a new reading of its own file: renaming or deleting a file
\* costs no citation (ingest_kb's orphans).
OrphansAreKept ==
  [][\A c \in chunks : c \notin chunks' => \E r \in Ingestions : Ends(r) /\ c.file \in work[r].done]_vars

\* An ingestion without --force that changed the tables, and during which no other one
\* did, leaves an index its model can search (_guard_against_mixed_models, check_rag).
PlainIngestIsReady ==
  [][\A r \in Ingestions : Ends(r) /\ ~work[r].force /\ work[r].alone /\ chunks' # chunks
                       => ReadyFor(work[r].model, chunks')]_vars

HashIsRight(f) == docs[f] # Absent => \E m \in Models : Holds(RowsOf(f), docs[f], m)

\* Only a --force that another ingestion overlapped puts the chunks of one content under
\* the hash of another: it loaded the document before the other wrote it (ingest_kb).
LabelsAreRight ==
  [][\A f \in Files : HashIsRight(f) /\ ~HashIsRight(f)' =>
       \E r \in Ingestions : Ends(r) /\ work[r].force /\ ~work[r].alone /\ f \in work[r].done]_vars

\* What an ingestion may never do: drop what it has not read anew, leave on its own an
\* index its model cannot search, or on its own mislabel a file.
IngestIsCareful == OrphansAreKept /\ PlainIngestIsReady /\ LabelsAreRight

\* What a citation records survives a re-ingest or a withdrawn document (citations.py).
CitationsSurvive ==
  \A q \in Questions : \A i \in DOMAIN cited[q] : Stored(cited[q][i])

\* Ingestion refuses to mix embedding models (kb_ingest.py).
ModelsAreNotMixed == \A c, d \in chunks : c.model = d.model

\* A file whose hash is stored is one whose chunks are (kb_ingest.py: idempotent by
\* content hash).
HashTellsTheChunks == \A f \in Files : HashIsRight(f)

=============================================================================
