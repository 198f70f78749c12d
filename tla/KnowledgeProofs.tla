--------------------------- MODULE KnowledgeProofs ---------------------------
(***************************************************************************)
(* Theorems about Library, Grounding and Chunking, for any number of       *)
(* files, contents, models, ingestions, questions and sources, any         *)
(* requirements, skills, passages and budget, and any document.            *)
(***************************************************************************)
EXTENDS Library, Grounding, Chunking, FiniteSetTheorems, FunctionTheorems, WellFoundedInduction, TLAPS

-----------------------------------------------------------------------------
(* The inductive invariant of Library *)

Of(rows, f) == {c \in rows : c.file = f}

\* A committed file has the rows of some content, written at once.
Whole ==
  \A f \in Files :
    IF docs[f] = Absent THEN Of(chunks, f) = {}
    ELSE \E c \in Contents, n \in Nat, m \in Models : Of(chunks, f) = NewRows(f, c, n, m)

\* What is committed, and what an ingestion is to commit.
Live == chunks \cup UNION {work[r].chunks : r \in Ingestions}

\* An id is given to one row, and to none that came before it.
Numbered ==
  /\ \A c \in Live : c.id <= last
  /\ \A c, d \in Live : c.id = d.id => c = d

\* Whatever a cited id can ever resolve to is what was shown.
Faithful ==
  \A q \in Questions :
    /\ DOMAIN cited[q] = DOMAIN shown[q]
    /\ \A i \in DOMAIN cited[q] :
         /\ cited[q][i] <= last
         /\ \A c \in Live : c.id = cited[q][i] => c.text = shown[q][i]
    /\ graded[q] \subseteq ToSet(shown[q])
    /\ question[q] # "graded" => graded[q] = {}

\* A file that an ingestion w has written has the rows of one content, under that
\* content's hash; or w is forced, the document had a hash already, and that was this
\* one unless another ingestion changed it.
Wrote(w, f) ==
  \E c \in Contents, n \in Nat :
    /\ Of(w.chunks, f) = NewRows(f, c, n, w.model)
    /\ \/ w.hash[f] = c
       \/ /\ w.hash[f] = Absent /\ w.force /\ docs[f] # Absent
          /\ w.alone => docs[f] = c

\* What an ingestion w knows is true of the tables until another one commits.
Loaded(w, a) ==
  /\ a.file \in w.seen /\ a.file \notin w.done
  /\ a.loaded # Absent => docs[a.file] # Absent
  /\ w.alone => docs[a.file] = a.loaded
  /\ a.raw = a.loaded => w.force

Careful(w) ==
  /\ (w.on => w.model \in Models) /\ (w.at # {} => w.on)
  /\ w.done \subseteq w.seen
  /\ \A c \in w.chunks : c.file \in w.done /\ c.model = w.model
  /\ \A f \in w.done : Wrote(w, f)
  /\ \A f \in Files : w.hash[f] # Absent => f \in w.done
  /\ \A a \in w.at : Loaded(w, a)
  /\ w.on /\ ~w.force /\ w.alone => \A c \in chunks : c.model = w.model

\* CitationsNeverLie is not inductive: an ingestion under way may hold the row that
\* makes a citation lie.
LibraryIInv ==
  TypeOK /\ Whole /\ Numbered /\ Faithful /\ \A r \in Ingestions : Careful(work[r])

-----------------------------------------------------------------------------
(* Rows *)

LEMMA PassageTypes ==
  ASSUME NEW c \in Contents
  PROVE  /\ Passages[c] \in Seq(Texts) /\ Len(Passages[c]) \in Nat
         /\ DOMAIN Passages[c] = 1 .. Len(Passages[c]) /\ 1 \in DOMAIN Passages[c]
         /\ \A i \in DOMAIN Passages[c] : Passages[c][i] \in Texts
  <1>1. Passages[c] \in Seq(ToSet(Passages[c])) /\ ToSet(Passages[c]) \subseteq Texts
        /\ Passages[c] # <<>>
    BY LibraryAssumption DEF Texts
  <1>2. Passages[c] \in Seq(Texts)
    BY <1>1
  <1> QED BY <1>1, <1>2

\* A content has as many rows as passages.
LEMMA RowsCount ==
  ASSUME NEW f, NEW c \in Contents, NEW n \in Nat, NEW m
  PROVE  Cardinality(NewRows(f, c, n, m)) = Len(Passages[c])
  <1> DEFINE row(i) == [id |-> n + i, file |-> f, ordinal |-> i, text |-> Passages[c][i], model |-> m]
             k == Len(Passages[c])
             g == [i \in 1 .. k |-> row(i)]
  <1>1. k \in Nat /\ DOMAIN Passages[c] = 1 .. k
    BY PassageTypes
  <1>2. g \in [1 .. k -> NewRows(f, c, n, m)]
    BY <1>1 DEF NewRows
  <1>3. \A i, j \in 1 .. k : g[i] = g[j] => i = j
    <2>1. \A i \in 1 .. k : g[i].ordinal = i
      OBVIOUS
    <2> QED BY <2>1
  <1>4. \A r \in NewRows(f, c, n, m) : \E i \in 1 .. k : g[i] = r
    BY <1>1 DEF NewRows
  <1>5. g \in Bijection(1 .. k, NewRows(f, c, n, m))
    BY <1>2, <1>3, <1>4 DEF Bijection, Injection, Surjection, IsInjective
  <1>6. ExistsBijection(1 .. k, NewRows(f, c, n, m))
    BY <1>5 DEF ExistsBijection
  <1> QED BY <1>1, <1>6, FS_CountingElements

\* The rows of a content are what Holds says they are.
LEMMA RowsAre ==
  ASSUME NEW f, NEW c \in Contents, NEW n \in Nat, NEW m
  PROVE  Holds(NewRows(f, c, n, m), c, m)
  <1> DEFINE D == DOMAIN Passages[c]
             row(i) == [id |-> n + i, file |-> f, ordinal |-> i, text |-> Passages[c][i], model |-> m]
             rows == NewRows(f, c, n, m)
  <1>1. Cardinality(rows) = Len(Passages[c])
    BY RowsCount
  <1>2. rows = {row(i) : i \in D}
    BY DEF NewRows
  <1>3. \A i \in D : row(i).ordinal = i /\ row(i).text = Passages[c][i] /\ row(i).model = m
    OBVIOUS
  <1> HIDE DEF row, D, rows
  <1>4. {<<r.ordinal, r.text, r.model>> : r \in rows} = {<<i, Passages[c][i], m>> : i \in D}
    BY <1>2, <1>3
  <1> QED BY <1>1, <1>4 DEF Holds, D, rows

\* A whole table is what StoredIsWhole says it is.
LEMMA WholeIsStored ==
  ASSUME Whole
  PROVE  StoredIsWhole
  <1>1. \A f : RowsOf(f) = Of(chunks, f)
    BY DEF RowsOf, Of
  <1> QED BY <1>1, RowsAre DEF Whole, StoredIsWhole

LEMMA RowsAreLabelled ==
  ASSUME NEW f, NEW c \in Contents, NEW n \in Nat, NEW m \in Models,
         Of(chunks', f) = NewRows(f, c, n, m), docs'[f] = c
  PROVE  HashIsRight(f)'
  <1>1. RowsOf(f)' = Of(chunks', f)
    BY DEF RowsOf, Of
  <1>2. Holds(RowsOf(f)', docs'[f], m)
    BY <1>1, RowsAre
  <1> QED BY <1>2 DEF HashIsRight

-----------------------------------------------------------------------------
(* Steps of Library *)

LEMMA IdleIsCareful ==
  /\ Idle \in Tries /\ Idle.on = FALSE /\ Idle.chunks = {} /\ Idle.done = {} /\ Idle.at = {}
  /\ Idle.seen = {} /\ Idle.hash = Nothing /\ Idle.alone = FALSE
  /\ Careful(Idle)
  <1>1. /\ Idle \in Tries /\ Idle.on = FALSE /\ Idle.chunks = {} /\ Idle.done = {} /\ Idle.at = {}
        /\ Idle.seen = {} /\ Idle.hash = Nothing /\ Idle.alone = FALSE
    BY DEF Idle, Tries, Held, Nothing
  <1>2. \A f \in Files : Nothing[f] = Absent
    BY DEF Nothing
  <1> QED BY <1>1, <1>2 DEF Careful

LEMMA InitInv == Init => LibraryIInv
  <1> SUFFICES ASSUME Init PROVE LibraryIInv
    OBVIOUS
  <1>1. \A r \in Ingestions : work[r] = Idle
    BY DEF Init
  <1>2. TypeOK
    <2>1. work \in [Ingestions -> Tries] /\ \A r \in Ingestions : work[r].on => work[r].model \in Models
      BY <1>1, IdleIsCareful DEF Init
    <2> QED BY <2>1, LibraryAssumption DEF Init, TypeOK, Held, Nothing
  <1>3. Whole
    BY DEF Init, Whole, Nothing, Of
  <1>4. Live = {}
    BY <1>1, IdleIsCareful DEF Init, Live
  <1>5. Numbered /\ Faithful
    BY <1>4 DEF Init, Numbered, Faithful, ToSet
  <1>6. \A r \in Ingestions : Careful(work[r])
    BY <1>1, IdleIsCareful
  <1> QED BY <1>2, <1>3, <1>5, <1>6 DEF LibraryIInv

\* Careful depends on what is committed and on the ingestion, and on nothing else.
LEMMA CarefulStays ==
  ASSUME NEW w, Careful(w), UNCHANGED <<docs, chunks>>
  PROVE  Careful(w)'
  BY DEF Careful, Wrote, Loaded

\* A step of one ingestion: the rows it adds have ids above every one that was ever
\* given or cited.
LEMMA RunStep ==
  ASSUME LibraryIInv, NEW r \in Ingestions, NEW t \in Tries, Careful(t),
         UNCHANGED <<docs, chunks, qs>>, work' = [work EXCEPT ![r] = t],
         last' \in Nat, last <= last', last' <= MaxIds,
         \A c \in t.chunks \ work[r].chunks : c.id > last /\ c.id <= last',
         \A c, d \in t.chunks \ work[r].chunks : c.id = d.id => c = d
  PROVE  LibraryIInv'
  <1> DEFINE new == t.chunks \ work[r].chunks
  <1>0. /\ new \subseteq Rows /\ t.chunks \subseteq work[r].chunks \cup new
        /\ \A c \in new : c.id > last /\ c.id <= last'
        /\ \A c, d \in new : c.id = d.id => c = d
    BY DEF Tries
  <1> HIDE DEF new
  <1>1. /\ work \in [Ingestions -> Tries] /\ last \in Nat /\ MaxIds \in Nat
        /\ UNCHANGED <<question, cited, shown, graded>>
    BY LibraryAssumption DEF LibraryIInv, TypeOK, qs
  <1>2. work' \in [Ingestions -> Tries] /\ \A s \in Ingestions : work'[s] = IF s = r THEN t ELSE work[s]
    BY <1>1
  <1>3. TypeOK'
    <2>1. \A s \in Ingestions : work'[s].on => work'[s].model \in Models
      BY <1>2 DEF LibraryIInv, TypeOK, Careful
    <2>2. last' \in 0 .. MaxIds
      BY <1>1
    <2> QED BY <1>1, <1>2, <2>1, <2>2 DEF LibraryIInv, TypeOK
  <1>4. Live' \subseteq Live \cup new
    BY <1>0, <1>2 DEF Live
  <1>5. \A c \in Live : c.id <= last /\ c.id \in Nat
    BY <1>1 DEF LibraryIInv, Numbered, Live, TypeOK, Tries, Rows, Ids
  <1>6. \A c \in new : c.id \in Nat
    BY <1>0 DEF Rows, Ids
  <1>7. Numbered'
    <2>1. \A c \in Live' : c.id <= last'
      BY <1>0, <1>1, <1>4, <1>5, <1>6
    <2>2. \A c, d \in Live' : c.id = d.id => c = d
      BY <1>0, <1>1, <1>4, <1>5, <1>6 DEF LibraryIInv, Numbered
    <2> QED BY <2>1, <2>2 DEF Numbered
  <1>8. Faithful'
    <2> SUFFICES ASSUME NEW q \in Questions
                 PROVE  /\ DOMAIN cited[q] = DOMAIN shown[q]
                        /\ \A i \in DOMAIN cited[q] :
                             /\ cited[q][i] <= last'
                             /\ \A c \in Live' : c.id = cited[q][i] => c.text = shown[q][i]
                        /\ graded[q] \subseteq ToSet(shown[q])
                        /\ question[q] # "graded" => graded[q] = {}
      BY <1>1 DEF Faithful
    <2>1. \A i \in DOMAIN cited[q] : cited[q][i] \in Nat
      BY <1>1 DEF LibraryIInv, TypeOK, Ids
    <2> QED BY <1>0, <1>1, <1>4, <1>6, <2>1 DEF LibraryIInv, Faithful
  <1>9. Whole'
    BY DEF LibraryIInv, Whole
  <1>10. \A s \in Ingestions : Careful(work[s])'
    <2> SUFFICES ASSUME NEW s \in Ingestions PROVE Careful(work[s])'
      OBVIOUS
    <2>1. CASE s = r
      <3>1. Careful(t)'
        BY CarefulStays
      <3> QED BY <1>2, <2>1, <3>1
    <2>2. CASE s # r
      <3> DEFINE w == work[s]
      <3>1. work'[s] = w
        BY <1>2, <2>2
      <3>2. Careful(w)
        BY DEF LibraryIInv
      <3> QED BY <3>1, <3>2 DEF Careful, Wrote, Loaded
    <2> QED BY <2>1, <2>2
  <1> QED BY <1>3, <1>7, <1>8, <1>9, <1>10 DEF LibraryIInv

LEMMA StartStep ==
  ASSUME LibraryIInv, NEW r \in Ingestions, NEW force \in BOOLEAN, NEW m \in Models, Start(r, force, m)
  PROVE  LibraryIInv'
  <1> DEFINE t == [Idle EXCEPT !.on = TRUE, !.force = force, !.model = m, !.alone = TRUE]
  <1>1. /\ UNCHANGED <<docs, chunks, last, qs>> /\ work' = [work EXCEPT ![r] = t]
        /\ force \/ \A c \in chunks : c.model = m
    BY DEF Start, OneModel
  <1>2. /\ t \in Tries /\ t.on /\ t.force = force /\ t.model = m /\ t.chunks = {} /\ t.done = {}
        /\ t.seen = {} /\ t.at = {} /\ t.hash = Nothing
    BY DEF Idle, Tries, Held, Nothing
  <1> HIDE DEF t
  <1>3. Careful(t)
    <2>1. \A f \in Files : Nothing[f] = Absent
      BY DEF Nothing
    <2> QED BY <1>1, <1>2, <2>1 DEF Careful
  <1>4. last \in Nat /\ last <= MaxIds
    BY LibraryAssumption DEF LibraryIInv, TypeOK
  <1>5. /\ UNCHANGED <<docs, chunks, qs>> /\ last' \in Nat /\ last <= last' /\ last' <= MaxIds
    BY <1>1, <1>4
  <1>6. t \in Tries /\ Careful(t) /\ work' = [work EXCEPT ![r] = t] /\ t.chunks \ work[r].chunks = {}
    BY <1>1, <1>2, <1>3
  <1> QED BY <1>5, <1>6, RunStep

LEMMA ReadStep ==
  ASSUME LibraryIInv, NEW r \in Ingestions, NEW f \in Files, NEW raw \in Contents, Read(r, f, raw)
  PROVE  LibraryIInv'
  <1> DEFINE w == work[r]
             a == [file |-> f, raw |-> raw, loaded |-> docs[f]]
             at == IF docs[f] = raw /\ ~w.force THEN {} ELSE {a}
             t == Come(w, f, raw)
  <1>1. /\ UNCHANGED <<docs, chunks, last, qs>> /\ f \notin w.seen /\ w.on
        /\ w \in Tries /\ Careful(w)
    BY DEF Read, LibraryIInv, TypeOK
  <1>2. work' = [work EXCEPT ![r] = t]
    BY DEF Read
  <1>3. a \in Reading /\ a.file = f /\ a.raw = raw /\ a.loaded = docs[f]
    BY DEF LibraryIInv, TypeOK, Held, Reading
  <1>4. at \in SUBSET Reading /\ \A b \in at : b = a /\ (docs[f] = raw => w.force)
    BY <1>3
  <1> HIDE DEF a, at
  <1>5. /\ t \in Tries /\ t.on = w.on /\ t.force = w.force /\ t.model = w.model
        /\ t.chunks = w.chunks /\ t.done = w.done /\ t.hash = w.hash /\ t.alone = w.alone
        /\ t.seen = w.seen \cup {f} /\ t.at = at
    BY <1>1, <1>4 DEF Tries, Come, at, a
  <1> HIDE DEF t
  <1>6. Careful(t)
    <2>1. \A b \in t.at : Loaded(t, b)
      BY <1>1, <1>3, <1>4, <1>5 DEF Careful, Loaded
    <2>2. \A g \in t.done : Wrote(t, g)
      BY <1>1, <1>5 DEF Careful, Wrote
    <2> QED BY <1>1, <1>5, <2>1, <2>2 DEF Careful
  <1>7. last \in Nat /\ last <= MaxIds
    BY LibraryAssumption DEF LibraryIInv, TypeOK
  <1>8. /\ UNCHANGED <<docs, chunks, qs>> /\ last' \in Nat /\ last <= last' /\ last' <= MaxIds
    BY <1>1, <1>7
  <1>9. t \in Tries /\ Careful(t) /\ t.chunks \ work[r].chunks = {}
    BY <1>5, <1>6
  <1> HIDE DEF w
  <1> QED BY <1>2, <1>8, <1>9, RunStep

LEMMA RewriteStep ==
  ASSUME LibraryIInv, NEW r \in Ingestions, Rewrite(r)
  PROVE  LibraryIInv'
  <1> DEFINE w == work[r]
  <1>1. PICK a \in w.at :
          /\ a.loaded = Absent => docs[a.file] = Absent
          /\ last + Len(Passages[a.raw]) <= MaxIds
          /\ work' = [work EXCEPT ![r] = Put(work[r], a, last)]
          /\ last' = last + Len(Passages[a.raw])
          /\ UNCHANGED <<docs, chunks, qs>>
    BY DEF Rewrite
  <1> DEFINE f == a.file
             c == a.raw
             k == Len(Passages[c])
             new == NewRows(f, c, last, w.model)
             h == [w.hash EXCEPT ![f] = IF c = a.loaded THEN w.hash[f] ELSE c]
             t == Put(w, a, last)
  <1>2. /\ w \in Tries /\ Careful(w) /\ a \in Reading /\ f \in Files /\ c \in Contents
        /\ a.loaded \in Contents \cup {Absent} /\ Loaded(w, a) /\ docs \in Held
        /\ last \in Nat /\ MaxIds \in Nat
    BY LibraryAssumption DEF LibraryIInv, TypeOK, Tries, Reading, Careful
  <1>3. work' = [work EXCEPT ![r] = t]
    BY <1>1
  <1>4. k \in Nat /\ DOMAIN Passages[c] = 1 .. k /\ \A i \in 1 .. k : Passages[c][i] \in Texts
    BY <1>2, PassageTypes
  <1>5. w.model \in Models
    <2>1. w.on
      BY <1>2 DEF Careful
    <2> QED BY <1>2, <2>1 DEF Careful
  <1>6. new \subseteq Rows
    BY <1>1, <1>2, <1>4, <1>5 DEF NewRows, Rows, Ids
  <1>7. \A x \in new : x.id > last /\ x.id <= last' /\ x.file = f /\ x.model = w.model
    BY <1>1, <1>2, <1>4 DEF NewRows
  <1>8. \A x, y \in new : x.id = y.id => x = y
    BY <1>2, <1>4 DEF NewRows
  <1>9. h \in Held /\ \A g \in Files : h[g] = IF g = f /\ c # a.loaded THEN c ELSE w.hash[g]
    BY <1>2 DEF Tries, Held
  <1> HIDE DEF new, h
  <1>10. /\ t \in Tries /\ t.on = w.on /\ t.force = w.force /\ t.model = w.model
         /\ t.chunks = w.chunks \cup new /\ t.done = w.done \cup {f} /\ t.hash = h
         /\ t.alone = w.alone /\ t.seen = w.seen /\ t.at = {}
    <2>1. t = [w EXCEPT !.at = {}, !.done = w.done \cup {f}, !.hash = h,
                        !.chunks = w.chunks \cup new]
      BY <1>2 DEF Put, h, new
    <2> HIDE DEF t, w
    <2> QED BY <1>2, <1>6, <1>9, <2>1 DEF Tries
  <1> HIDE DEF t, w, f, c, k
  <1>11. /\ \A x \in w.chunks : x.file \in w.done /\ x.model = w.model
         /\ f \notin w.done /\ f \in w.seen
    BY <1>2 DEF Careful, Loaded, f
  <1>12. ASSUME NEW g \in w.done PROVE Wrote(t, g)
    <2>1. g # f /\ g \in Files
      BY <1>2, <1>11 DEF Tries
    <2>2. Of(t.chunks, g) = Of(w.chunks, g)
      BY <1>7, <1>10, <2>1 DEF Of
    <2>3. Wrote(w, g)
      BY <1>2 DEF Careful
    <2>4. t.hash[g] = w.hash[g]
      BY <1>9, <1>10, <2>1
    <2> QED BY <1>10, <2>2, <2>3, <2>4 DEF Wrote
  <1>13. Wrote(t, f)
    <2>1. Of(t.chunks, f) = new
      BY <1>7, <1>10, <1>11 DEF Of
    <2>2. new = NewRows(f, c, last, t.model)
      BY <1>10 DEF new
    <2>3. w.hash[f] = Absent
      BY <1>2, <1>11 DEF Careful
    <2>4. CASE c # a.loaded
      <3>1. t.hash[f] = c
        BY <1>2, <1>9, <1>10, <2>4
      <3> QED BY <1>2, <2>1, <2>2, <3>1 DEF Wrote
    <2>5. CASE c = a.loaded
      <3>1. t.hash[f] = Absent
        BY <1>2, <1>9, <1>10, <2>3, <2>5
      <3>2. w.force /\ docs[f] # Absent /\ (w.alone => docs[f] = c)
        BY <1>2, <2>5, LibraryAssumption DEF Loaded, f, c
      <3> QED BY <1>2, <1>10, <2>1, <2>2, <3>1, <3>2 DEF Wrote
    <2> QED BY <2>4, <2>5
  <1>14. Careful(t)
    <2>1. \A g \in t.done : Wrote(t, g)
      BY <1>10, <1>12, <1>13
    <2>2. \A x \in t.chunks : x.file \in t.done /\ x.model = t.model
      BY <1>7, <1>10, <1>11
    <2>3. \A g \in Files : t.hash[g] # Absent => g \in t.done
      BY <1>2, <1>9, <1>10 DEF Careful
    <2> QED BY <1>2, <1>10, <1>11, <2>1, <2>2, <2>3 DEF Careful
  <1>15. last' \in Nat /\ last <= last' /\ last' <= MaxIds
    BY <1>1, <1>2, <1>4 DEF k, c
  <1>16. \A x \in t.chunks \ work[r].chunks : x \in new
    BY <1>10 DEF w
  <1>17. /\ \A x \in t.chunks \ work[r].chunks : x.id > last /\ x.id <= last'
         /\ \A x, y \in t.chunks \ work[r].chunks : x.id = y.id => x = y
    BY <1>7, <1>8, <1>16
  <1>18. UNCHANGED <<docs, chunks, qs>> /\ t \in Tries
    BY <1>1, <1>10
  <1> QED BY <1>3, <1>14, <1>15, <1>17, <1>18, RunStep

LEMMA FailStep ==
  ASSUME LibraryIInv, NEW r \in Ingestions, Fail(r)
  PROVE  LibraryIInv'
  <1>1. UNCHANGED <<docs, chunks, last, qs>> /\ work' = [work EXCEPT ![r] = Idle]
    BY DEF Fail
  <1>2. last \in Nat /\ last <= MaxIds
    BY LibraryAssumption DEF LibraryIInv, TypeOK
  <1>3. /\ UNCHANGED <<docs, chunks, qs>> /\ last' \in Nat /\ last <= last' /\ last' <= MaxIds
    BY <1>1, <1>2
  <1>4. Idle \in Tries /\ Careful(Idle) /\ Idle.chunks \ work[r].chunks = {}
    BY IdleIsCareful
  <1> HIDE DEF Idle
  <1> QED BY <1>1, <1>3, <1>4, RunStep

\* What a commit leaves of each file.
LEMMA Committed ==
  ASSUME LibraryIInv, NEW r \in Ingestions, Commit(r), NEW f \in Files
  PROVE  /\ f \notin work[r].done => docs'[f] = docs[f] /\ Of(chunks', f) = Of(chunks, f)
         /\ f \in work[r].done =>
              /\ docs'[f] # Absent
              /\ \E c \in Contents, n \in Nat :
                   /\ Of(chunks', f) = NewRows(f, c, n, work[r].model)
                   /\ docs'[f] = c \/ (work[r].force /\ ~work[r].alone)
  <1> DEFINE w == work[r]
  <1>1. /\ Careful(w) /\ w \in Tries
        /\ docs'[f] = IF w.hash[f] = Absent THEN docs[f] ELSE w.hash[f]
        /\ chunks' = {c \in chunks : c.file \notin w.done} \cup w.chunks
    BY DEF LibraryIInv, TypeOK, Commit, Replaced
  <1> HIDE DEF w
  <1>2. CASE f \notin w.done
    <2>1. w.hash[f] = Absent /\ \A c \in w.chunks : c.file # f
      BY <1>1, <1>2 DEF Careful
    <2> QED BY <1>1, <1>2, <2>1 DEF Of, w
  <1>3. CASE f \in w.done
    <2>1. Of(chunks', f) = Of(w.chunks, f)
      BY <1>1, <1>3 DEF Of
    <2>2. PICK c \in Contents, n \in Nat :
            /\ Of(w.chunks, f) = NewRows(f, c, n, w.model)
            /\ \/ w.hash[f] = c
               \/ w.hash[f] = Absent /\ w.force /\ docs[f] # Absent /\ (w.alone => docs[f] = c)
      BY <1>1, <1>3 DEF Careful, Wrote
    <2>3. docs'[f] # Absent /\ (docs'[f] = c \/ (w.force /\ ~w.alone))
      BY <1>1, <2>2, LibraryAssumption
    <2> QED BY <1>3, <2>1, <2>2, <2>3 DEF w
  <1> QED BY <1>2, <1>3 DEF w

\* What another ingestion knows, once one has committed.
LEMMA CarefulOfAnother ==
  ASSUME NEW v \in Tries, NEW u \in Tries, Careful(v),
         u.on = v.on, u.force = v.force, u.model = v.model, u.seen = v.seen, u.at = v.at,
         u.done = v.done, u.hash = v.hash, u.chunks = v.chunks,
         u.alone => v.alone /\ chunks' = chunks,
         \A f \in Files : (docs[f] # Absent => docs'[f] # Absent) /\ (u.alone => docs'[f] = docs[f])
  PROVE  Careful(u)'
  <1>1. ASSUME NEW f \in u.done PROVE Wrote(u, f)'
    <2>1. f \in Files /\ Wrote(v, f)
      BY <1>1 DEF Careful, Tries
    <2>2. PICK c \in Contents, n \in Nat :
            /\ Of(v.chunks, f) = NewRows(f, c, n, v.model)
            /\ \/ v.hash[f] = c
               \/ v.hash[f] = Absent /\ v.force /\ docs[f] # Absent /\ (v.alone => docs[f] = c)
      BY <2>1 DEF Wrote
    <2>3. /\ Of(u.chunks, f) = NewRows(f, c, n, u.model)
          /\ \/ u.hash[f] = c
             \/ u.hash[f] = Absent /\ u.force /\ docs'[f] # Absent /\ (u.alone => docs'[f] = c)
      BY <2>1, <2>2
    <2> QED BY <2>3 DEF Wrote
  <1>2. ASSUME NEW a \in u.at PROVE Loaded(u, a)'
    <2>1. a.file \in Files /\ Loaded(v, a)
      BY <1>2 DEF Careful, Tries, Reading
    <2> QED BY <2>1 DEF Loaded
  <1> QED BY <1>1, <1>2 DEF Careful

LEMMA CommitStep ==
  ASSUME LibraryIInv, NEW r \in Ingestions, Commit(r)
  PROVE  LibraryIInv'
  <1> DEFINE w == work[r]
             left(s) == [work[s] EXCEPT !.alone = @ /\ w.done = {}]
  <1>1. /\ UNCHANGED <<last, question, cited, shown, graded>> /\ w.on
        /\ docs' = [f \in Files |-> IF w.hash[f] = Absent THEN docs[f] ELSE w.hash[f]]
        /\ chunks' = {c \in chunks : c.file \notin w.done} \cup w.chunks
        /\ work' = [s \in Ingestions |-> IF s = r THEN Idle ELSE left(s)]
    BY DEF Commit, Replaced, qs
  <1>2. work \in [Ingestions -> Tries] /\ w \in Tries /\ Careful(w)
    BY DEF LibraryIInv, TypeOK
  <1>3. ASSUME NEW s \in Ingestions
        PROVE  /\ left(s) \in Tries /\ left(s).on = work[s].on /\ left(s).force = work[s].force
               /\ left(s).model = work[s].model /\ left(s).seen = work[s].seen
               /\ left(s).at = work[s].at /\ left(s).done = work[s].done
               /\ left(s).hash = work[s].hash /\ left(s).chunks = work[s].chunks
               /\ left(s).alone = (work[s].alone /\ w.done = {})
    <2>1. work[s] \in Tries
      BY <1>2
    <2> HIDE DEF w
    <2> QED BY <2>1 DEF Tries
  <1>4. \A s \in Ingestions : work'[s] = IF s = r THEN Idle ELSE left(s)
    BY <1>1
  <1> HIDE DEF left, w
  <1>5. TypeOK'
    <2>1. docs' \in Held
      BY <1>1, <1>2 DEF LibraryIInv, TypeOK, Held, Tries
    <2>2. chunks' \subseteq Rows
      BY <1>1, <1>2 DEF LibraryIInv, TypeOK, Tries
    <2>3. work' \in [Ingestions -> Tries]
      BY <1>1, <1>3, IdleIsCareful
    <2>4. \A s \in Ingestions : work'[s].on => work'[s].model \in Models
      <3> SUFFICES ASSUME NEW s \in Ingestions, work'[s].on PROVE work'[s].model \in Models
        OBVIOUS
      <3>1. s # r /\ work'[s] = left(s)
        BY <1>4, IdleIsCareful
      <3>2. work[s].on => work[s].model \in Models
        BY DEF LibraryIInv, TypeOK
      <3> QED BY <1>3, <3>1, <3>2
    <2> QED BY <1>1, <2>1, <2>2, <2>3, <2>4 DEF LibraryIInv, TypeOK
  <1>6. Live' \subseteq Live
    <2>1. chunks' \subseteq Live
      BY <1>1 DEF Live, w
    <2>2. \A s \in Ingestions : work'[s].chunks \subseteq Live
      BY <1>3, <1>4, IdleIsCareful DEF Live
    <2> QED BY <2>1, <2>2 DEF Live
  <1>7. Numbered' /\ Faithful'
    BY <1>1, <1>6 DEF LibraryIInv, Numbered, Faithful
  <1>8. w.model \in Models
    BY <1>1, <1>2 DEF Careful
  <1>9. Whole'
    <2> SUFFICES ASSUME NEW f \in Files
                 PROVE  IF docs'[f] = Absent THEN Of(chunks', f) = {}
                        ELSE \E c \in Contents, n \in Nat, m \in Models :
                               Of(chunks', f) = NewRows(f, c, n, m)
      BY DEF Whole
    <2>1. CASE f \in w.done
      BY <1>8, <2>1, Committed DEF w
    <2>2. CASE f \notin w.done
      <3>1. docs'[f] = docs[f] /\ Of(chunks', f) = Of(chunks, f)
        BY <2>2, Committed DEF w
      <3> QED BY <3>1 DEF LibraryIInv, Whole
    <2> QED BY <2>1, <2>2
  <1>10. ASSUME NEW s \in Ingestions, s # r PROVE Careful(work[s])'
    <2>1. PICK u \in Tries : u = work'[s]
      BY <1>3, <1>4, <1>10
    <2>2. PICK v \in Tries : v = work[s]
      BY <1>2
    <2>3. /\ Careful(v)
          /\ u.on = v.on /\ u.force = v.force /\ u.model = v.model /\ u.seen = v.seen
          /\ u.at = v.at /\ u.done = v.done /\ u.hash = v.hash /\ u.chunks = v.chunks
          /\ u.alone = (v.alone /\ w.done = {})
      BY <1>3, <1>4, <1>10, <2>1, <2>2 DEF LibraryIInv
    <2>4. ASSUME NEW f \in Files
          PROVE  (docs[f] # Absent => docs'[f] # Absent) /\ (u.alone => docs'[f] = docs[f])
      BY <2>3, Committed DEF w
    <2>5. u.alone => chunks' = chunks
      <3>1. w.done = {} => w.chunks = {}
        BY <1>2 DEF Careful
      <3> QED BY <1>1, <2>3, <3>1
    <2>6. Careful(u)'
      BY <2>3, <2>4, <2>5, CarefulOfAnother
    <2> QED BY <2>1, <2>6
  <1>11. Careful(work[r])'
    BY <1>4, IdleIsCareful DEF Careful
  <1> QED BY <1>5, <1>7, <1>9, <1>10, <1>11 DEF LibraryIInv

LEMMA TextIsTheRows ==
  ASSUME Numbered, NEW c \in chunks
  PROVE  TextOf(c.id) = c.text
  <1>1. (CHOOSE d \in chunks : d.id = c.id) \in chunks
    OBVIOUS
  <1>2. (CHOOSE d \in chunks : d.id = c.id).id = c.id
    OBVIOUS
  <1> QED BY <1>1, <1>2 DEF TextOf, Numbered, Live

\* The tables, and what the ingestions know of them, stay when nothing is written.
LEMMA TablesStay ==
  ASSUME LibraryIInv, UNCHANGED <<docs, chunks, work, last>>
  PROVE  Numbered' /\ Whole' /\ \A r \in Ingestions : Careful(work[r])'
  <1>1. Live' = Live
    BY DEF Live
  <1>2. Numbered' /\ Whole'
    BY <1>1 DEF LibraryIInv, Numbered, Whole
  <1>3. ASSUME NEW r \in Ingestions PROVE Careful(work[r])'
    <2>1. Careful(work[r]) /\ work'[r] = work[r]
      BY DEF LibraryIInv
    <2> QED BY <2>1 DEF Careful, Wrote, Loaded
  <1> QED BY <1>2, <1>3

LEMMA AskStep ==
  ASSUME LibraryIInv, NEW q \in Questions, NEW n \in 1 .. MaxSources, NEW ids \in [1 .. n -> Ids],
         Ask(q, ids)
  PROVE  LibraryIInv'
  <1> DEFINE texts == [i \in DOMAIN ids |-> TextOf(ids[i])]
  <1>1. /\ UNCHANGED <<kb, graded>>
        /\ question' = [question EXCEPT ![q] = "asked"]
        /\ cited' = [cited EXCEPT ![q] = ids] /\ shown' = [shown EXCEPT ![q] = texts]
        /\ \A i \in DOMAIN ids : \E c \in chunks : c.id = ids[i]
    BY DEF Ask, Stored
  <1>2. UNCHANGED <<docs, chunks, work, last>> /\ Live' = Live
    BY <1>1 DEF kb, Live
  <1>3. n \in Nat /\ DOMAIN ids = 1 .. n /\ ids \in Seq(Ids) /\ Len(ids) = n
    BY LibraryAssumption
  <1>4. \A i \in 1 .. n : \A c \in Live : c.id = ids[i] => c.text = texts[i]
    <2> SUFFICES ASSUME NEW i \in 1 .. n, NEW c \in Live, c.id = ids[i]
                 PROVE  c.text = TextOf(ids[i])
      BY <1>3
    <2>1. PICK d \in chunks : d.id = ids[i]
      BY <1>1, <1>3
    <2>2. c = d
      BY <2>1 DEF LibraryIInv, Numbered, Live
    <2> QED BY <2>1, <2>2, TextIsTheRows DEF LibraryIInv
  <1>5. \A i \in 1 .. n : ids[i] <= last /\ texts[i] \in Texts
    <2> SUFFICES ASSUME NEW i \in 1 .. n PROVE ids[i] <= last /\ TextOf(ids[i]) \in Texts
      BY <1>3
    <2>1. PICK d \in chunks : d.id = ids[i]
      BY <1>1, <1>3
    <2>2. d.text \in Texts /\ TextOf(d.id) = d.text
      BY TextIsTheRows DEF LibraryIInv, TypeOK, Rows
    <2> QED BY <2>1, <2>2 DEF LibraryIInv, Numbered, Live
  <1>6. texts \in Seq(Texts) /\ DOMAIN texts = DOMAIN ids
    BY <1>3, <1>5
  <1> HIDE DEF texts
  <1>7. TypeOK'
    BY <1>1, <1>2, <1>3, <1>6 DEF LibraryIInv, TypeOK
  <1>8. Faithful'
    <2>1. \A p \in Questions : /\ cited'[p] = IF p = q THEN ids ELSE cited[p]
                              /\ shown'[p] = IF p = q THEN texts ELSE shown[p]
      BY <1>1 DEF LibraryIInv, TypeOK
    <2>2. graded[q] = {}
      BY DEF Ask, LibraryIInv, Faithful
    <2> QED
      BY <1>1, <1>2, <1>3, <1>4, <1>5, <1>6, <2>1, <2>2 DEF LibraryIInv, Faithful
  <1>9. Numbered' /\ Whole' /\ \A r \in Ingestions : Careful(work[r])'
    BY <1>2, TablesStay DEF LibraryIInv
  <1> QED BY <1>7, <1>8, <1>9 DEF LibraryIInv

LEMMA StoreStep ==
  ASSUME LibraryIInv, NEW q \in Questions, Store(q)
  PROVE  LibraryIInv'
  <1>1. /\ UNCHANGED <<docs, chunks, work, last, cited, shown, graded>>
        /\ question' = [question EXCEPT ![q] = "stored"]
        /\ question[q] # "graded"
    BY DEF Store, kb
  <1>2. TypeOK' /\ Live' = Live
    BY <1>1 DEF LibraryIInv, TypeOK, Live
  <1>3. \A p \in Questions : question'[p] # "graded" <=> question[p] # "graded"
    BY <1>1 DEF LibraryIInv, TypeOK
  <1>4. Faithful'
    BY <1>1, <1>2, <1>3 DEF LibraryIInv, Faithful
  <1>5. Numbered' /\ Whole' /\ \A r \in Ingestions : Careful(work[r])'
    BY <1>1, TablesStay DEF LibraryIInv
  <1> QED BY <1>2, <1>4, <1>5 DEF LibraryIInv

\* The reference of a grade is made of passages that were shown.
LEMMA GradeStep ==
  ASSUME LibraryIInv, NEW q \in Questions, Grade(q)
  PROVE  LibraryIInv'
  <1>1. /\ UNCHANGED <<docs, chunks, work, last, cited, shown>>
        /\ question' = [question EXCEPT ![q] = "graded"]
        /\ graded' = [graded EXCEPT ![q] = Resolved(q)]
    BY DEF Grade, kb
  <1>2. Resolved(q) \subseteq ToSet(shown[q])
    <2> SUFFICES ASSUME NEW i \in DOMAIN cited[q], Stored(cited[q][i])
                 PROVE  TextOf(cited[q][i]) \in ToSet(shown[q])
      BY DEF Resolved
    <2>1. PICK c \in chunks : c.id = cited[q][i]
      BY DEF Stored
    <2>2. TextOf(cited[q][i]) = c.text
      BY <2>1, TextIsTheRows DEF LibraryIInv
    <2>3. c.text = shown[q][i] /\ i \in DOMAIN shown[q]
      BY <2>1 DEF LibraryIInv, Faithful, Live
    <2> QED BY <2>2, <2>3 DEF ToSet
  <1>3. ToSet(shown[q]) \subseteq Texts
    BY DEF LibraryIInv, TypeOK, ToSet
  <1>4. TypeOK' /\ Live' = Live
    BY <1>1, <1>2, <1>3 DEF LibraryIInv, TypeOK, Live
  <1>5. Faithful'
    <2>1. \A p \in Questions : /\ question'[p] = IF p = q THEN "graded" ELSE question[p]
                              /\ graded'[p] = IF p = q THEN Resolved(q) ELSE graded[p]
      BY <1>1 DEF LibraryIInv, TypeOK
    <2> QED BY <1>1, <1>2, <1>4, <2>1 DEF LibraryIInv, Faithful
  <1>6. Numbered' /\ Whole' /\ \A r \in Ingestions : Careful(work[r])'
    BY <1>1, TablesStay DEF LibraryIInv
  <1> QED BY <1>4, <1>5, <1>6 DEF LibraryIInv

LEMMA Step ==
  ASSUME LibraryIInv, [Next]_vars
  PROVE  LibraryIInv'
  <1>1. CASE UNCHANGED vars
    <2>1. UNCHANGED <<docs, chunks, work, last, question, cited, shown, graded>>
      BY <1>1 DEF vars, kb, qs
    <2>2. Live' = Live /\ TypeOK'
      BY <2>1 DEF Live, LibraryIInv, TypeOK
    <2>3. Faithful'
      BY <2>1, <2>2 DEF LibraryIInv, Faithful
    <2> QED BY <2>1, <2>2, <2>3, TablesStay DEF LibraryIInv
  <1>2. CASE Next
    BY <1>2, StartStep, ReadStep, RewriteStep, FailStep, CommitStep, AskStep, StoreStep, GradeStep
       DEF Next
  <1> QED BY <1>1, <1>2

\* Committed chunks and documents change when an ingestion commits, and at no other step.
LEMMA OnlyCommitWrites ==
  ASSUME [Next]_vars
  PROVE  UNCHANGED <<docs, chunks>> \/ \E r \in Ingestions : Commit(r)
  BY DEF Next, vars, kb, qs, Start, Read, Rewrite, Fail, Ask, Store, Grade

LEMMA CitationsOfIInv ==
  ASSUME LibraryIInv
  PROVE  CitationsNeverLie
  <1> SUFFICES ASSUME NEW q \in Questions
               PROVE  /\ \A i \in DOMAIN cited[q] :
                           Stored(cited[q][i]) => TextOf(cited[q][i]) = shown[q][i]
                      /\ graded[q] \subseteq ToSet(shown[q])
    BY DEF CitationsNeverLie
  <1>1. ASSUME NEW i \in DOMAIN cited[q], Stored(cited[q][i])
        PROVE  TextOf(cited[q][i]) = shown[q][i]
    <2>1. PICK c \in chunks : c.id = cited[q][i]
      BY <1>1 DEF Stored
    <2>2. c.text = shown[q][i]
      BY <1>1, <2>1 DEF LibraryIInv, Faithful, Live
    <2> QED BY <2>1, <2>2, TextIsTheRows DEF LibraryIInv
  <1> QED BY <1>1 DEF LibraryIInv, Faithful

\* A commit ends its own ingestion only.
LEMMA OneEnds ==
  ASSUME LibraryIInv, NEW r \in Ingestions, Commit(r)
  PROVE  Ends(r) /\ \A s \in Ingestions : Ends(s) => s = r
  <1>1. /\ work \in [Ingestions -> Tries] /\ work[r].on
        /\ \A s \in Ingestions : work'[s] = IF s = r THEN Idle
                                      ELSE [work[s] EXCEPT !.alone = @ /\ work[r].done = {}]
    BY DEF LibraryIInv, TypeOK, Commit
  <1>2. ASSUME NEW s \in Ingestions, s # r PROVE work'[s].on = work[s].on
    <2>1. work[s] \in Tries
      BY <1>1
    <2>2. work'[s] = [work[s] EXCEPT !.alone = work[s].alone /\ work[r].done = {}]
      BY <1>1, <1>2
    <2> QED BY <2>1, <2>2 DEF Tries
  <1> QED BY <1>1, <1>2, IdleIsCareful DEF Ends

LEMMA CarefulCommit ==
  ASSUME LibraryIInv, [Next]_vars
  PROVE  /\ \A c \in chunks : c \notin chunks' => \E r \in Ingestions : Ends(r) /\ c.file \in work[r].done
         /\ \A r \in Ingestions : Ends(r) /\ ~work[r].force /\ work[r].alone /\ chunks' # chunks
                              => ReadyFor(work[r].model, chunks')
         /\ \A f \in Files : HashIsRight(f) /\ ~HashIsRight(f)' =>
              \E r \in Ingestions : Ends(r) /\ work[r].force /\ ~work[r].alone /\ f \in work[r].done
  <1>1. CASE UNCHANGED <<docs, chunks>>
    BY <1>1 DEF HashIsRight, RowsOf
  <1>2. ASSUME NEW r \in Ingestions, Commit(r)
        PROVE  /\ \A c \in chunks : c \notin chunks' => Ends(r) /\ c.file \in work[r].done
               /\ \A s \in Ingestions : Ends(s) /\ ~work[s].force /\ work[s].alone /\ chunks' # chunks
                                    => ReadyFor(work[s].model, chunks')
               /\ \A f \in Files : HashIsRight(f) /\ ~HashIsRight(f)' =>
                    Ends(r) /\ work[r].force /\ ~work[r].alone /\ f \in work[r].done
    <2> DEFINE w == work[r]
    <2>1. /\ Ends(r) /\ \A s \in Ingestions : Ends(s) => s = r
          /\ chunks' = {c \in chunks : c.file \notin w.done} \cup w.chunks
          /\ Careful(w) /\ w.on /\ w.done \subseteq Files
      BY <1>2, OneEnds DEF Commit, Replaced, LibraryIInv, TypeOK, Tries
    <2>2. ~w.force /\ w.alone /\ chunks' # chunks => ReadyFor(w.model, chunks')
      <3> SUFFICES ASSUME ~w.force, w.alone, chunks' # chunks
                   PROVE  ReadyFor(w.model, chunks')
        OBVIOUS
      <3>1. \A c \in chunks' : c.model = w.model
        BY <2>1 DEF Careful
      <3>2. chunks' # {}
        <4> SUFFICES ASSUME chunks' = {} PROVE FALSE
          OBVIOUS
        <4>1. PICK f \in w.done : TRUE
          BY <2>1
        <4>2. PICK c \in Contents, n \in Nat : Of(w.chunks, f) = NewRows(f, c, n, w.model)
          BY <2>1 DEF Careful, Wrote
        <4>3. NewRows(f, c, n, w.model) # {}
          <5>1. 1 \in DOMAIN Passages[c]
            BY PassageTypes
          <5> QED BY <5>1 DEF NewRows
        <4> QED BY <2>1, <4>2, <4>3 DEF Of
      <3> QED BY <3>1, <3>2 DEF ReadyFor
    <2>3. ASSUME NEW f \in Files, HashIsRight(f), ~HashIsRight(f)'
          PROVE  w.force /\ ~w.alone /\ f \in w.done
      <3>1. CASE f \notin w.done
        <4>1. docs'[f] = docs[f] /\ Of(chunks', f) = Of(chunks, f)
          BY <1>2, <3>1, Committed
        <4>2. HashIsRight(f)'
          BY <2>3, <4>1 DEF HashIsRight, RowsOf, Of
        <4> QED BY <2>3, <4>2
      <3>2. CASE f \in w.done
        <4>1. PICK c \in Contents, n \in Nat :
                /\ Of(chunks', f) = NewRows(f, c, n, w.model)
                /\ docs'[f] = c \/ (w.force /\ ~w.alone)
          BY <1>2, <3>2, Committed
        <4>2. CASE docs'[f] = c
          <5> DEFINE m == w.model
          <5>1. m \in Models
            BY <2>1 DEF Careful
          <5>2. HashIsRight(f)'
            BY <4>1, <4>2, <5>1, RowsAreLabelled
          <5> QED BY <2>3, <5>2
        <4> QED BY <3>2, <4>1, <4>2
      <3> QED BY <3>1, <3>2
    <2> QED BY <2>1, <2>2, <2>3
  <1> QED BY <1>1, <1>2, OnlyCommitWrites

-----------------------------------------------------------------------------
(* Theorems about Library *)

\* Whatever ingestions overlap, fail or are started again with another model, while the
\* files are edited: the committed chunks of a file are those of one content, all of
\* them, each once and embedded by one model (ingest_kb's single transaction).
THEOREM LibraryIsWhole == Spec => []LibraryInv
  <1>1. LibraryIInv /\ [Next]_vars => LibraryIInv'
    BY Step
  <1>2. LibraryIInv => LibraryInv
    BY WholeIsStored DEF LibraryIInv, LibraryInv
  <1> QED BY InitInv, <1>1, <1>2, PTL DEF Spec

\* A citation resolves to the passage the model was shown or to nothing, however many
\* ingestions came between the question and its grade or its review, and those under
\* way when the prompt was built (ingest_kb, _cited_sources, load_citations).
THEOREM CitationsHold == Spec => []CitationsNeverLie
  <1>1. LibraryIInv /\ [Next]_vars => LibraryIInv'
    BY Step
  <1> QED BY InitInv, CitationsOfIInv, <1>1, PTL DEF Spec

\* No ingestion drops what it has not read anew; a plain one that no other overlapped
\* leaves, if it changes the index, one its own model can search; and only a forced one
\* that another overlapped ever mislabels a file (ingest_kb, _guard_against_mixed_models).
THEOREM IngestionIsCareful == Spec => IngestIsCareful
  <1>1. LibraryIInv /\ [Next]_vars => LibraryIInv'
    BY Step
  <1>2. LibraryIInv /\ [Next]_vars
          => [\A c \in chunks : c \notin chunks' =>
                \E r \in Ingestions : Ends(r) /\ c.file \in work[r].done]_vars
    BY CarefulCommit
  <1>3. LibraryIInv /\ [Next]_vars
          => [\A r \in Ingestions : Ends(r) /\ ~work[r].force /\ work[r].alone /\ chunks' # chunks
                                => ReadyFor(work[r].model, chunks')]_vars
    BY CarefulCommit
  <1>4. LibraryIInv /\ [Next]_vars
          => [\A f \in Files : HashIsRight(f) /\ ~HashIsRight(f)' =>
                \E r \in Ingestions : Ends(r) /\ work[r].force /\ ~work[r].alone /\ f \in work[r].done]_vars
    BY CarefulCommit
  <1> QED
    BY InitInv, <1>1, <1>2, <1>3, <1>4, PTL
    DEF Spec, IngestIsCareful, OrphansAreKept, PlainIngestIsReady, LabelsAreRight

-----------------------------------------------------------------------------
(* Numbers and sequences *)

\* A set of naturals has a least one.
LEMMA LeastNatural ==
  ASSUME NEW S \in SUBSET Nat, S # {}
  PROVE  \E m \in S : \A k \in S : m <= k
  <1>1. IsWellFoundedOn(OpToRel(<, Nat), Nat)
    BY NatLessThanWellFounded
  <1>2. PICK m \in S : \A k \in S : <<k, m>> \notin OpToRel(<, Nat)
    BY <1>1, WFMin
  <1>3. \A k \in S : ~(k < m)
    BY <1>2 DEF OpToRel
  <1> QED BY <1>3

\* Induction over the naturals, for a set.
LEMMA SetInduction ==
  ASSUME NEW S, 0 \in S, \A n \in Nat : n \in S => n + 1 \in S
  PROVE  Nat \subseteq S
  <1> SUFFICES ASSUME Nat \ S # {} PROVE FALSE
    OBVIOUS
  <1>1. PICK m \in Nat \ S : \A k \in Nat \ S : m <= k
    BY LeastNatural
  <1>2. m # 0 /\ m - 1 \in Nat /\ m - 1 + 1 = m
    BY <1>1
  <1>3. m - 1 \in S
    BY <1>1, <1>2
  <1> QED BY <1>1, <1>2, <1>3

\* A minimum is a member and below all; so is a maximum, of a bounded set, above all.
LEMMA MinFacts ==
  ASSUME NEW S \in SUBSET Nat, S # {}
  PROVE  Min(S) \in S /\ \A k \in S : Min(S) <= k
  BY LeastNatural DEF Min

LEMMA MaxFacts ==
  ASSUME NEW S \in SUBSET Nat, S # {}, NEW b \in Nat, \A k \in S : k <= b
  PROVE  Max(S) \in S /\ \A k \in S : k <= Max(S)
  <1> DEFINE U == {n \in Nat : \A k \in S : k <= n}
  <1>1. U \in SUBSET Nat /\ U # {}
    OBVIOUS
  <1>2. PICK u \in U : \A k \in U : u <= k
    BY <1>1, LeastNatural
  <1>3. u \in S
    <2> SUFFICES ASSUME u \notin S PROVE FALSE
      OBVIOUS
    <2>1. \A k \in S : k < u
      BY <1>2
    <2>2. u # 0
      <3>1. PICK k \in S : k < u
        BY <2>1
      <3> QED BY <3>1
    <2>3. u - 1 \in Nat /\ \A k \in S : k <= u - 1
      BY <1>2, <2>1, <2>2
    <2> QED BY <1>2, <2>3
  <1>4. \E x \in S : \A k \in S : k <= x
    BY <1>2, <1>3
  <1> QED BY <1>4 DEF Max

LEMMA MinOfTwo ==
  ASSUME NEW a \in Nat, NEW b \in Nat
  PROVE  Min({a, b}) = IF a <= b THEN a ELSE b
  <1> DEFINE m == Min({a, b})
  <1>1. m \in {a, b} /\ \A k \in {a, b} : m <= k
    BY MinFacts
  <1> HIDE DEF m
  <1>2. m = IF a <= b THEN a ELSE b
    BY <1>1
  <1> QED BY <1>2 DEF m

\* Some of the positions of a sequence, and all of its values, are finitely many.
LEMMA PositionsAreFinite ==
  ASSUME NEW S, NEW s \in Seq(S), NEW T \in SUBSET DOMAIN s
  PROVE  IsFiniteSet(T) /\ Cardinality(T) \in Nat
  <1>1. IsFiniteSet(DOMAIN s)
    <2>1. DOMAIN s = 1 .. Len(s) /\ Len(s) \in Int
      OBVIOUS
    <2> QED BY <2>1, FS_Interval
  <1> QED BY <1>1, FS_Subset, FS_CardinalityType

LEMMA FiniteValues ==
  ASSUME NEW S, NEW s \in Seq(S)
  PROVE  IsFiniteSet(ToSet(s)) /\ Cardinality(ToSet(s)) \in Nat
  <1>1. IsFiniteSet(DOMAIN s)
    BY PositionsAreFinite
  <1>2. ToSet(s) = {s[k] : k \in DOMAIN s}
    BY DEF ToSet
  <1>3. IsFiniteSet(ToSet(s))
    <2> DEFINE f == [k \in DOMAIN s |-> s[k]]
    <2>1. f \in Surjection(DOMAIN s, ToSet(s))
      BY <1>2 DEF Surjection
    <2> QED BY <1>1, <2>1, FS_Surjection
  <1> QED BY <1>3, FS_CardinalityType

\* What a concatenation holds.
LEMMA Joined ==
  ASSUME NEW S, NEW s \in Seq(S), NEW t \in Seq(S)
  PROVE  /\ s \o t \in Seq(S) /\ Len(s \o t) = Len(s) + Len(t)
         /\ ToSet(s \o t) = ToSet(s) \cup ToSet(t)
         /\ \A k \in 1 .. Len(s) : (s \o t)[k] = s[k]
         /\ \A k \in 1 .. Len(t) : (s \o t)[Len(s) + k] = t[k]
  <1>1. /\ Len(s) \in Nat /\ Len(t) \in Nat /\ Len(s \o t) = Len(s) + Len(t) /\ s \o t \in Seq(S)
        /\ DOMAIN s = 1 .. Len(s) /\ DOMAIN t = 1 .. Len(t) /\ DOMAIN (s \o t) = 1 .. Len(s) + Len(t)
    OBVIOUS
  <1>2. /\ \A k \in 1 .. Len(s) : (s \o t)[k] = s[k]
        /\ \A k \in 1 .. Len(t) : (s \o t)[Len(s) + k] = t[k]
    BY <1>1
  <1>3. \A k \in 1 .. Len(s) + Len(t) :
          (s \o t)[k] = IF k <= Len(s) THEN s[k] ELSE t[k - Len(s)]
    OBVIOUS
  <1>4. ToSet(s \o t) \subseteq ToSet(s) \cup ToSet(t)
    <2> SUFFICES ASSUME NEW k \in 1 .. Len(s) + Len(t)
                 PROVE  (s \o t)[k] \in ToSet(s) \cup ToSet(t)
      BY <1>1 DEF ToSet
    <2>1. CASE k <= Len(s)
      <3>1. k \in DOMAIN s
        BY <1>1, <2>1
      <3> QED BY <1>3, <2>1, <3>1 DEF ToSet
    <2>2. CASE ~(k <= Len(s))
      <3>1. k - Len(s) \in DOMAIN t
        BY <1>1, <2>2
      <3> QED BY <1>3, <2>2, <3>1 DEF ToSet
    <2> QED BY <2>1, <2>2
  <1>5. ToSet(s) \subseteq ToSet(s \o t)
    <2>1. \A k \in DOMAIN s : k \in DOMAIN (s \o t)
      BY <1>1
    <2> QED BY <1>1, <1>2, <2>1 DEF ToSet
  <1>6. ToSet(t) \subseteq ToSet(s \o t)
    <2>1. \A k \in DOMAIN t : Len(s) + k \in DOMAIN (s \o t)
      BY <1>1
    <2> QED BY <1>1, <1>2, <2>1 DEF ToSet
  <1> QED BY <1>1, <1>2, <1>4, <1>5, <1>6

\* A recursion over 0 .. N, from s0 by the steps G in S, has a solution.
StepsIn(G, N, S) == G \in [1 .. N -> [S -> S]]

Solves(F, N, S, s0, G) ==
  F \in [0 .. N -> S] /\ F[0] = s0 /\ \A n \in 1 .. N : F[n] = G[n][F[n-1]]

LEMMA Recursion ==
  ASSUME NEW N \in Nat, NEW S, NEW s0 \in S, NEW G, StepsIn(G, N, S)
  PROVE  \E F : Solves(F, N, S, s0, G)
  <1> DEFINE M == {m \in Nat : m <= N => \E F : Solves(F, m, S, s0, G)}
  <1>1. 0 \in M
    <2>1. Solves([k \in 0 .. 0 |-> s0], 0, S, s0, G)
      BY DEF Solves
    <2> QED BY <2>1
  <1>2. ASSUME NEW m \in Nat, m \in M PROVE m + 1 \in M
    <2> SUFFICES ASSUME m + 1 <= N PROVE \E F : Solves(F, m + 1, S, s0, G)
      OBVIOUS
    <2>1. PICK F : Solves(F, m, S, s0, G)
      BY <1>2
    <2> DEFINE v == G[m + 1][F[m]]
               H == [k \in 0 .. m + 1 |-> IF k <= m THEN F[k] ELSE v]
    <2>2. v \in S
      <3>1. m + 1 \in 1 .. N /\ F[m] \in S
        BY <2>1 DEF Solves
      <3> QED BY <3>1 DEF StepsIn
    <2>3. \A k \in 0 .. m : H[k] = F[k] /\ F[k] \in S
      BY <2>1 DEF Solves
    <2>4. H[m + 1] = v
      OBVIOUS
    <2>5. H \in [0 .. m + 1 -> S]
      <3> HIDE DEF v
      <3>1. \A k \in 0 .. m + 1 : k <= m => k \in 0 .. m
        OBVIOUS
      <3> QED BY <2>2, <2>3, <3>1
    <2> HIDE DEF H
    <2>6. H[0] = s0
      BY <2>1, <2>3 DEF Solves
    <2>7. ASSUME NEW n \in 1 .. m + 1 PROVE H[n] = G[n][H[n-1]]
      <3>1. CASE n = m + 1
        <4>1. n - 1 = m /\ H[m] = F[m]
          BY <3>1, <2>3
        <4> QED BY <3>1, <4>1, <2>4
      <3>2. CASE n # m + 1
        <4>1. n \in 1 .. m /\ n - 1 \in 0 .. m /\ n \in 0 .. m
          BY <3>2
        <4> QED BY <4>1, <2>1, <2>3 DEF Solves
      <3> QED BY <3>1, <3>2
    <2> QED BY <2>5, <2>6, <2>7 DEF Solves
  <1>3. N \in M
    <2> HIDE DEF M
    <2> QED BY <1>1, <1>2, SetInduction
  <1> QED BY <1>3

\* What starts in S and goes by steps in S stays there.
LEMMA StaysIn ==
  ASSUME NEW N \in Nat, NEW S, NEW G, StepsIn(G, N, S), NEW E, E[0] \in S,
         \A n \in 1 .. N : E[n-1] \in S => E[n] = G[n][E[n-1]]
  PROVE  \A n \in 0 .. N : E[n] \in S
  <1> DEFINE M == {m \in Nat : m <= N => E[m] \in S}
  <1>1. ASSUME NEW m \in Nat, m \in M PROVE m + 1 \in M
    <2> SUFFICES ASSUME m + 1 <= N PROVE E[m + 1] \in S
      OBVIOUS
    <2>1. E[m] \in S /\ m + 1 \in 1 .. N /\ m + 1 - 1 = m
      BY <1>1
    <2> QED BY <2>1 DEF StepsIn
  <1>2. 0 \in M
    OBVIOUS
  <1> HIDE DEF M
  <1>3. Nat \subseteq M
    BY <1>1, <1>2, SetInduction
  <1> QED BY <1>3 DEF M

-----------------------------------------------------------------------------
(* Lists in an order *)

\* R is a strict total order of S.
Orders(R, S) ==
  /\ \A a \in S : <<a, a>> \notin R
  /\ \A a, b, c \in S : <<a, b>> \in R /\ <<b, c>> \in R => <<a, c>> \in R
  /\ \A a, b \in S : a = b \/ <<a, b>> \in R \/ <<b, a>> \in R

\* A finite set is listed in any order given to it.
LEMMA ListedInOrder ==
  ASSUME NEW S, IsFiniteSet(S), NEW R, Orders(R, S)
  PROVE  /\ InOrder(S, R) \in [1 .. Cardinality(S) -> S]
         /\ \A i, j \in 1 .. Cardinality(S) : i < j => <<InOrder(S, R)[i], InOrder(S, R)[j]>> \in R
  <1> DEFINE n == Cardinality(S)
             Below(a) == {b \in S : <<b, a>> \in R}
             rank == [a \in S |-> Cardinality(Below(a)) + 1]
  <1>1. n \in Nat /\ IsFiniteSet(1 .. n) /\ Cardinality(1 .. n) = n
    <2>1. n \in Nat
      BY FS_CardinalityType
    <2> HIDE DEF n
    <2> QED BY <2>1, FS_Interval
  <1>2. \A a \in S : IsFiniteSet(Below(a)) /\ Cardinality(Below(a)) \in Nat
    BY FS_Subset, FS_CardinalityType
  <1>3. \A a \in S : rank[a] \in 1 .. n
    <2> SUFFICES ASSUME NEW a \in S PROVE rank[a] \in 1 .. n
      OBVIOUS
    <2>1. Below(a) \in SUBSET S /\ Below(a) # S
      BY DEF Orders
    <2> HIDE DEF Below
    <2>2. Cardinality(Below(a)) <= n /\ Cardinality(Below(a)) # n
      BY <2>1, FS_Subset
    <2> QED BY <1>1, <1>2, <2>2
  <1>4. \A a, b \in S : <<a, b>> \in R => rank[a] < rank[b]
    <2> SUFFICES ASSUME NEW a \in S, NEW b \in S, <<a, b>> \in R PROVE rank[a] < rank[b]
      OBVIOUS
    <2>1. Below(a) \in SUBSET Below(b) /\ Below(a) # Below(b)
      BY DEF Orders
    <2>2. IsFiniteSet(Below(b))
      BY <1>2
    <2> HIDE DEF Below
    <2>3. Cardinality(Below(a)) <= Cardinality(Below(b)) /\ Cardinality(Below(a)) # Cardinality(Below(b))
      BY <2>1, <2>2, FS_Subset
    <2> QED BY <1>2, <2>3
  <1> HIDE DEF rank, Below
  <1>5. rank \in Injection(S, 1 .. n)
    <2>1. rank = [a \in S |-> rank[a]]
      BY DEF rank
    <2>2. rank \in [S -> 1 .. n]
      BY <1>3, <2>1
    <2>3. \A a, b \in S : rank[a] = rank[b] => a = b
      <3> SUFFICES ASSUME NEW a \in S, NEW b \in S, a # b PROVE rank[a] # rank[b]
        OBVIOUS
      <3>1. rank[a] \in Nat /\ rank[b] \in Nat
        BY <1>3
      <3>2. <<a, b>> \in R \/ <<b, a>> \in R
        BY DEF Orders
      <3>3. rank[a] < rank[b] \/ rank[b] < rank[a]
        BY <1>4, <3>2
      <3> QED BY <3>1, <3>3
    <2> QED BY <2>2, <2>3 DEF Injection, IsInjective
  <1> HIDE DEF n
  <1>6. rank \in Surjection(S, 1 .. n)
    BY <1>1, <1>5, FS_Injection DEF n
  <1> DEFINE at == [k \in 1 .. n |-> CHOOSE a \in S : rank[a] = k]
  <1>7. \A k \in 1 .. n : at[k] \in S /\ rank[at[k]] = k
    BY <1>6 DEF Surjection
  <1>8. at \in [1 .. n -> S]
    BY <1>7
  <1> HIDE DEF at
  <1>9. \A i, j \in 1 .. n : i < j => <<at[i], at[j]>> \in R
    <2> SUFFICES ASSUME NEW i \in 1 .. n, NEW j \in 1 .. n, i < j PROVE <<at[i], at[j]>> \in R
      OBVIOUS
    <2>1. at[i] # at[j] /\ ~(<<at[j], at[i]>> \in R)
      BY <1>1, <1>4, <1>7
    <2> QED BY <1>7, <2>1 DEF Orders
  <1>10. \E s \in [1 .. n -> S] : \A i, j \in DOMAIN s : i < j => <<s[i], s[j]>> \in R
    BY <1>8, <1>9
  <1>11. InOrder(S, R) \in [1 .. n -> S]
          /\ \A i, j \in DOMAIN InOrder(S, R) : i < j => <<InOrder(S, R)[i], InOrder(S, R)[j]>> \in R
    BY <1>10 DEF InOrder, n
  <1> QED BY <1>11 DEF n

\* The list holds every member, once, and where two stand is how they are ordered.
LEMMA OrderIsKept ==
  ASSUME NEW S, IsFiniteSet(S), NEW R, Orders(R, S)
  PROVE  /\ InOrder(S, R) \in Bijection(1 .. Cardinality(S), S)
         /\ \A i, j \in 1 .. Cardinality(S) : <<InOrder(S, R)[i], InOrder(S, R)[j]>> \in R => i < j
  <1> DEFINE n == Cardinality(S)
             s == InOrder(S, R)
  <1>1. n \in Nat /\ IsFiniteSet(1 .. n) /\ Cardinality(1 .. n) = n
    <2>1. n \in Nat
      BY FS_CardinalityType
    <2> HIDE DEF n
    <2> QED BY <2>1, FS_Interval
  <1>2. s \in [1 .. n -> S] /\ \A i, j \in 1 .. n : i < j => <<s[i], s[j]>> \in R
    BY ListedInOrder
  <1> HIDE DEF s
  <1>3. \A i, j \in 1 .. n : s[i] = s[j] => i = j
    <2> SUFFICES ASSUME NEW i \in 1 .. n, NEW j \in 1 .. n, s[i] = s[j], i < j PROVE FALSE
      BY <1>1
    <2> QED BY <1>2 DEF Orders
  <1>4. s \in Injection(1 .. n, S)
    BY <1>2, <1>3 DEF Injection, IsInjective
  <1>5. s \in Surjection(1 .. n, S)
    <2> HIDE DEF n
    <2> QED BY <1>1, <1>4, FS_Injection DEF n
  <1>6. \A i, j \in 1 .. n : <<s[i], s[j]>> \in R => i < j
    <2> SUFFICES ASSUME NEW i \in 1 .. n, NEW j \in 1 .. n, <<s[i], s[j]>> \in R, ~(i < j) PROVE FALSE
      OBVIOUS
    <2>1. s[i] \in S /\ s[j] \in S
      BY <1>2
    <2>2. i = j \/ j < i
      BY <1>1
    <2>3. i # j
      BY <2>1 DEF Orders
    <2>4. <<s[j], s[i]>> \in R
      BY <1>2, <2>2, <2>3
    <2>5. <<s[i], s[i]>> \in R
      BY <2>1, <2>4 DEF Orders
    <2> QED BY <2>1, <2>5 DEF Orders
  <1> QED BY <1>4, <1>5, <1>6 DEF Bijection, s

-----------------------------------------------------------------------------
(* Rank fusion *)

\* A passage has one place in a list.
LEMMA Places ==
  ASSUME NEW s \in Ranked
  PROVE  /\ s \in Seq(Chunks) /\ Len(s) \in 0 .. Pool /\ DOMAIN s = 1 .. Len(s)
         /\ \A c \in ToSet(s) : c \in Chunks /\ RankIn(s, c) \in 1 .. Len(s) /\ s[RankIn(s, c)] = c
         /\ \A i \in DOMAIN s : s[i] \in ToSet(s) /\ RankIn(s, s[i]) = i
  <1>1. PICK n \in 0 .. Pool : s \in [1 .. n -> Chunks]
    BY DEF Ranked
  <1>2. n \in Nat /\ Len(s) = n /\ s \in Seq(Chunks) /\ DOMAIN s = 1 .. n
    BY <1>1, GroundingAssumption
  <1>3. \A c \in ToSet(s) : \E i \in DOMAIN s : s[i] = c
    BY DEF ToSet
  <1>4. \A c \in ToSet(s) : RankIn(s, c) \in DOMAIN s /\ s[RankIn(s, c)] = c
    BY <1>3 DEF RankIn
  <1>5. \A i \in DOMAIN s : s[i] \in ToSet(s)
    BY DEF ToSet
  <1>6. \A i \in DOMAIN s : RankIn(s, s[i]) = i
    BY <1>4, <1>5 DEF Ranked, IsInjective
  <1> QED BY <1>1, <1>2, <1>4, <1>5, <1>6

\* A list by similarity ranks its passages.
LEMMA VectorsAreRanked ==
  ASSUME NEW vec \in Vectors
  PROVE  /\ Retrieved(vec) \in Ranked /\ Len(Retrieved(vec)) = Len(vec) /\ Len(vec) \in Nat
         /\ DOMAIN vec = 1 .. Len(vec)
         /\ \A i \in DOMAIN vec : vec[i].chunk \in Chunks /\ vec[i].sim \in 1 .. Levels
         /\ \A i \in DOMAIN vec : Retrieved(vec)[i] = vec[i].chunk
  <1>1. PICK n \in 1 .. Pool : vec \in [1 .. n -> [chunk : Chunks, sim : 1 .. Levels]]
    BY DEF Vectors
  <1>2. n \in 0 .. Pool /\ n \in Nat /\ DOMAIN vec = 1 .. n
    BY <1>1, GroundingAssumption
  <1>3. \A i \in 1 .. n : vec[i].chunk \in Chunks /\ vec[i].sim \in 1 .. Levels
    BY <1>1
  <1>4. Retrieved(vec) \in [1 .. n -> Chunks]
    BY <1>2, <1>3 DEF Retrieved
  <1>5. Len(Retrieved(vec)) = n /\ Len(vec) = n
    BY <1>1, <1>2, <1>4
  <1>6. IsInjective(Retrieved(vec))
    <2> SUFFICES ASSUME NEW i \in 1 .. n, NEW j \in 1 .. n, i < j PROVE vec[i].chunk # vec[j].chunk
      BY <1>2 DEF IsInjective, Retrieved
    <2> QED BY <1>2 DEF Vectors
  <1>7. Retrieved(vec) \in Ranked
    BY <1>2, <1>4, <1>6 DEF Ranked
  <1>8. \A i \in DOMAIN vec : Retrieved(vec)[i] = vec[i].chunk
    BY DEF Retrieved
  <1> QED BY <1>2, <1>3, <1>5, <1>7, <1>8

\* The share of an earlier rank is the greater.
LEMMA ShareFalls ==
  ASSUME NEW a \in Nat \ {0}, NEW m \in Nat \ {0}, NEW n \in Nat, m < n, a % m = 0, a % n = 0
  PROVE  a \div m > a \div n /\ a \div n > 0 /\ a \div m \in Nat /\ a \div n \in Nat
  <1> DEFINE p == a \div m
             q == a \div n
             d == n - m
  <1>1. p \in Nat /\ q \in Nat /\ d \in Nat /\ d > 0
    OBVIOUS
  <1>2. a = m * p
    OBVIOUS
  <1>3. a = n * q
    OBVIOUS
  <1>4. n = m + d
    OBVIOUS
  <1> HIDE DEF p, q, d
  <1>5. q > 0
    <2> SUFFICES ASSUME q = 0 PROVE FALSE
      BY <1>1
    <2> QED BY <1>3
  <1>6. n * q = m * q + d * q
    BY <1>1, <1>4
  <1>7. d * q > 0
    BY <1>1, <1>5
  <1>8. p > q
    <2> SUFFICES ASSUME p <= q PROVE FALSE
      BY <1>1
    <2>1. m * p <= m * q
      BY <1>1
    <2> DEFINE x == m * p
               y == m * q
               z == d * q
               w == n * q
    <2>2. x \in Nat /\ y \in Nat /\ z \in Nat
      BY <1>1
    <2>3. x <= y /\ z > 0 /\ w = y + z /\ x = w
      BY <1>2, <1>3, <1>6, <1>7, <2>1
    <2> HIDE DEF x, y, z, w
    <2> QED BY <2>2, <2>3
  <1> QED BY <1>1, <1>5, <1>8 DEF p, q

\* A list gives more to the passage it puts ahead, and nothing to one it has not.
LEMMA WeightFalls ==
  ASSUME NEW s \in Ranked
  PROVE  /\ \A c : Weight(s, c) \in Nat
         /\ \A c : c \in ToSet(s) => Weight(s, c) > 0
         /\ \A c, d : c \in ToSet(s) /\ d \in ToSet(s) /\ RankIn(s, c) < RankIn(s, d) =>
              Weight(s, c) > Weight(s, d)
  <1>0. Pool \in Nat /\ Common \in Nat \ {0}
    BY GroundingAssumption
  <1>1. \A c \in ToSet(s) : RankIn(s, c) \in 1 .. Pool
    BY <1>0, Places
  <1>2. \A r \in 1 .. Pool : Common % (60 + r) = 0
    BY GroundingAssumption DEF RrfK
  <1>3. \A r \in 1 .. Pool : Common \div (60 + r) \in Nat /\ Common \div (60 + r) > 0
    <2> SUFFICES ASSUME NEW r \in 1 .. Pool PROVE Common \div (60 + r) \in Nat /\ Common \div (60 + r) > 0
      OBVIOUS
    <2> DEFINE n == 60 + r
    <2>1. n \in Nat \ {0} /\ Common % n = 0 /\ Common % 1 = 0 /\ 1 < n
      BY <1>0, <1>2
    <2> HIDE DEF n
    <2>2. Common \div n > 0 /\ Common \div n \in Nat
      BY <1>0, <2>1, ShareFalls
    <2> QED BY <2>2 DEF n
  <1>4. \A r, t \in 1 .. Pool : r < t => Common \div (60 + r) > Common \div (60 + t)
    <2> SUFFICES ASSUME NEW r \in 1 .. Pool, NEW t \in 1 .. Pool, r < t
                 PROVE  Common \div (60 + r) > Common \div (60 + t)
      OBVIOUS
    <2> DEFINE m == 60 + r
               n == 60 + t
    <2>1. m \in Nat \ {0} /\ n \in Nat /\ m < n /\ Common % m = 0 /\ Common % n = 0
      BY <1>0, <1>2
    <2> HIDE DEF m, n
    <2>2. Common \div m > Common \div n
      BY <1>0, <2>1, ShareFalls
    <2> QED BY <2>2 DEF m, n
  <1> QED BY <1>1, <1>3, <1>4 DEF Weight, RrfK

\* What a search finds.
Known(vec, key) == ToSet(Retrieved(vec)) \cup ToSet(key)

LEMMA KnownIsFinite ==
  ASSUME NEW vec \in Vectors, NEW key \in Ranked
  PROVE  /\ IsFiniteSet(Known(vec, key)) /\ Cardinality(Known(vec, key)) \in Nat
         /\ Known(vec, key) \in SUBSET Chunks
  <1>1. Retrieved(vec) \in Ranked
    BY VectorsAreRanked
  <1>2. IsFiniteSet(ToSet(Retrieved(vec))) /\ IsFiniteSet(ToSet(key))
    BY <1>1, Places, FiniteValues
  <1>3. IsFiniteSet(Known(vec, key))
    BY <1>2, FS_Union DEF Known
  <1>4. Known(vec, key) \in SUBSET Chunks
    BY <1>1, Places DEF Known
  <1> QED BY <1>3, <1>4, FS_CardinalityType

\* An order of a search compares numbers, the last of them different for any two.
LEMMA SortKeys ==
  ASSUME NEW vec \in Vectors, NEW key \in Ranked
  PROVE  \A a \in Known(vec, key) :
           /\ Score(vec, key, a) \in Nat /\ Similarity(vec, a) \in Nat /\ FoundAt(vec, key, a) \in Nat
           /\ \A b \in Known(vec, key) : FoundAt(vec, key, a) = FoundAt(vec, key, b) => a = b
  <1> DEFINE v == Retrieved(vec)
  <1>0. Pool \in Nat /\ Levels \in Nat
    BY GroundingAssumption
  <1>1. v \in Ranked /\ Len(v) = Len(vec) /\ Len(vec) \in Nat
    BY VectorsAreRanked
  <1>2. \A a : Score(vec, key, a) \in Nat
    <2> SUFFICES ASSUME NEW a PROVE Score(vec, key, a) \in Nat
      OBVIOUS
    <2>1. Weight(v, a) \in Nat /\ Weight(key, a) \in Nat
      BY <1>1, WeightFalls
    <2> QED BY <2>1 DEF Score
  <1>3. \A a : Similarity(vec, a) \in Nat
    <2> SUFFICES ASSUME NEW a, a \in ToSet(v) PROVE vec[RankIn(v, a)].sim \in Nat
      BY DEF Similarity
    <2>1. RankIn(v, a) \in 1 .. Len(vec)
      BY <1>1, Places
    <2>2. vec[RankIn(v, a)].sim \in 1 .. Levels
      BY <2>1, VectorsAreRanked
    <2> QED BY <1>0, <2>2
  <1>4. \A a \in ToSet(v) : FoundAt(vec, key, a) \in 1 .. Len(vec) /\ v[FoundAt(vec, key, a)] = a
    BY <1>1, Places DEF FoundAt
  <1>5. \A a \in Known(vec, key) \ ToSet(v) :
          /\ FoundAt(vec, key, a) \in Nat /\ FoundAt(vec, key, a) > Len(vec)
          /\ FoundAt(vec, key, a) - Len(vec) \in DOMAIN key /\ key[FoundAt(vec, key, a) - Len(vec)] = a
    <2> SUFFICES ASSUME NEW a \in Known(vec, key) \ ToSet(v)
                 PROVE  /\ FoundAt(vec, key, a) \in Nat /\ FoundAt(vec, key, a) > Len(vec)
                        /\ FoundAt(vec, key, a) - Len(vec) \in DOMAIN key
                        /\ key[FoundAt(vec, key, a) - Len(vec)] = a
      OBVIOUS
    <2>0. a \in ToSet(key) /\ FoundAt(vec, key, a) = Len(vec) + RankIn(key, a)
      BY DEF Known, FoundAt
    <2>1. RankIn(key, a) \in 1 .. Len(key) /\ key[RankIn(key, a)] = a /\ DOMAIN key = 1 .. Len(key)
      BY <2>0, Places
    <2>2. Len(key) \in Nat
      BY <1>0, Places
    <2> DEFINE r == RankIn(key, a)
    <2> HIDE DEF r
    <2>3. r \in 1 .. Len(key) /\ key[r] = a
      BY <2>1 DEF r
    <2>4. Len(vec) + r - Len(vec) = r /\ Len(vec) + r \in Nat /\ Len(vec) + r > Len(vec)
      BY <1>1, <2>2, <2>3
    <2>5. FoundAt(vec, key, a) = Len(vec) + r
      BY <2>0 DEF r
    <2> QED BY <2>1, <2>3, <2>4, <2>5
  <1>6. \A a \in Known(vec, key) : FoundAt(vec, key, a) \in Nat
    BY <1>1, <1>4, <1>5
  <1>7. ASSUME NEW a \in Known(vec, key), NEW b \in Known(vec, key),
               FoundAt(vec, key, a) = FoundAt(vec, key, b)
        PROVE  a = b
    <2> HIDE DEF v
    <2>1. CASE a \in ToSet(v) /\ b \in ToSet(v)
      BY <1>4, <1>7, <2>1
    <2>2. CASE a \notin ToSet(v) /\ b \notin ToSet(v)
      BY <1>5, <1>7, <2>2
    <2>3. CASE a \in ToSet(v) /\ b \notin ToSet(v)
      BY <1>1, <1>4, <1>5, <1>7, <2>3
    <2>4. CASE a \notin ToSet(v) /\ b \in ToSet(v)
      BY <1>1, <1>4, <1>5, <1>7, <2>4
    <2> QED BY <2>1, <2>2, <2>3, <2>4
  <1> QED BY <1>2, <1>3, <1>6, <1>7

Before(vec, key) == {p \in Known(vec, key) \X Known(vec, key) : Ahead(vec, key, p[1], p[2])}

\* So a search has one order of what it finds, and lists all of it.
LEMMA AheadOrders ==
  ASSUME NEW vec \in Vectors, NEW key \in Ranked
  PROVE  /\ Orders(Before(vec, key), Known(vec, key))
         /\ \A a, b \in Known(vec, key) : <<a, b>> \in Before(vec, key) <=> Ahead(vec, key, a, b)
  <1> DEFINE K == Known(vec, key)
  <1>0. \A a, b \in K : <<a, b>> \in Before(vec, key) <=> Ahead(vec, key, a, b)
    BY DEF Before
  <1>1. ASSUME NEW a \in K PROVE ~Ahead(vec, key, a, a)
    BY SortKeys DEF Ahead
  <1>2. ASSUME NEW a \in K, NEW b \in K, NEW c \in K, Ahead(vec, key, a, b), Ahead(vec, key, b, c)
        PROVE  Ahead(vec, key, a, c)
    BY <1>2, SortKeys DEF Ahead
  <1>3. ASSUME NEW a \in K, NEW b \in K, a # b PROVE Ahead(vec, key, a, b) \/ Ahead(vec, key, b, a)
    BY <1>3, SortKeys DEF Ahead
  <1> QED BY <1>0, <1>1, <1>2, <1>3 DEF Orders

LEMMA FusedFacts ==
  ASSUME NEW vec \in Vectors, NEW key \in Ranked
  PROVE  /\ Fused(vec, key) \in Bijection(1 .. Cardinality(Known(vec, key)), Known(vec, key))
         /\ \A i, j \in 1 .. Cardinality(Known(vec, key)) :
              Ahead(vec, key, Fused(vec, key)[i], Fused(vec, key)[j]) => i < j
  <1> DEFINE K == Known(vec, key)
             n == Cardinality(K)
             s == InOrder(K, Before(vec, key))
  <1>1. Fused(vec, key) = s
    BY DEF Fused, Known, Before
  <1>2. s \in Bijection(1 .. n, K) /\ \A i, j \in 1 .. n : <<s[i], s[j]>> \in Before(vec, key) => i < j
    BY KnownIsFinite, AheadOrders, OrderIsKept
  <1>3. \A i \in 1 .. n : s[i] \in K
    BY <1>2 DEF Bijection, Injection
  <1> QED BY <1>1, <1>2, <1>3, AheadOrders

\* What one retriever puts ahead and neither behind goes ahead in the search.
LEMMA DominantIsAhead ==
  ASSUME NEW vec \in Vectors, NEW key \in Ranked, NEW a \in Chunks, NEW b \in Known(vec, key),
         Place(Retrieved(vec), a) <= Place(Retrieved(vec), b), Place(key, a) <= Place(key, b),
         Place(Retrieved(vec), a) < Place(Retrieved(vec), b) \/ Place(key, a) < Place(key, b)
  PROVE  a \in Known(vec, key) /\ Ahead(vec, key, a, b)
  <1> DEFINE v == Retrieved(vec)
  <1>0. v \in Ranked /\ Pool \in Nat
    BY VectorsAreRanked, GroundingAssumption
  <1>1. ASSUME NEW s \in Ranked
        PROVE  /\ \A c \in ToSet(s) : Place(s, c) = RankIn(s, c) /\ Place(s, c) \in 1 .. Len(s)
               /\ \A c : c \notin ToSet(s) => Place(s, c) = Len(s) + 1
               /\ Len(s) \in Nat
    BY <1>0, Places DEF Place
  <1>2. ASSUME NEW s \in Ranked, Place(s, a) <= Place(s, b)
        PROVE  /\ b \in ToSet(s) => a \in ToSet(s)
               /\ Weight(s, a) >= Weight(s, b)
               /\ Place(s, a) < Place(s, b) => Weight(s, a) > Weight(s, b) /\ a \in ToSet(s)
    <2>1. b \in ToSet(s) => a \in ToSet(s)
      BY <1>1, <1>2
    <2>2. CASE a \in ToSet(s) /\ b \in ToSet(s)
      <3>1. RankIn(s, a) \in Nat /\ RankIn(s, b) \in Nat /\ RankIn(s, a) <= RankIn(s, b)
        BY <1>1, <1>2, <2>2
      <3>2. CASE RankIn(s, a) = RankIn(s, b)
        <4>1. a = b
          BY <2>2, <3>2, Places
        <4> QED BY <1>1, <2>2, <3>1, <4>1, WeightFalls
      <3>3. CASE RankIn(s, a) < RankIn(s, b)
        <4>1. Weight(s, a) > Weight(s, b)
          BY <2>2, <3>3, WeightFalls
        <4> QED BY <2>2, <4>1, WeightFalls
      <3> QED BY <3>1, <3>2, <3>3
    <2>3. CASE a \in ToSet(s) /\ b \notin ToSet(s)
      <3>1. Weight(s, b) = 0 /\ Weight(s, a) > 0 /\ Weight(s, a) \in Nat
        BY <2>3, WeightFalls DEF Weight
      <3> QED BY <2>3, <3>1
    <2>4. CASE a \notin ToSet(s) /\ b \notin ToSet(s)
      <3>1. Weight(s, a) = 0 /\ Weight(s, b) = 0 /\ Place(s, a) = Place(s, b) /\ Place(s, a) \in Nat
        BY <1>1, <2>4 DEF Weight
      <3> QED BY <2>4, <3>1
    <2> QED BY <2>1, <2>2, <2>3, <2>4
  <1>3. Place(v, a) < Place(v, b) \/ Place(key, a) < Place(key, b)
    OBVIOUS
  <1>4. a \in Known(vec, key)
    BY <1>0, <1>2, <1>3 DEF Known
  <1>5. /\ Weight(v, a) \in Nat /\ Weight(v, b) \in Nat /\ Weight(v, a) >= Weight(v, b)
        /\ Weight(key, a) \in Nat /\ Weight(key, b) \in Nat /\ Weight(key, a) >= Weight(key, b)
        /\ Weight(v, a) > Weight(v, b) \/ Weight(key, a) > Weight(key, b)
    BY <1>0, <1>2, <1>3, WeightFalls
  <1>6. Weight(v, a) + Weight(key, a) > Weight(v, b) + Weight(key, b)
    BY <1>5
  <1> QED BY <1>4, <1>6 DEF Ahead, Score

Top(vec, key) == SubSeq(Fused(vec, key), 1, Min({TopK, Len(Fused(vec, key))}))

\* The best of a search: the first of the fused list, at most TopK of them.
LEMMA TopFacts ==
  ASSUME NEW vec \in Vectors, NEW key \in Ranked
  PROVE  /\ Top(vec, key) \in Seq(Chunks) /\ Len(Top(vec, key)) \in Nat
         /\ Len(Top(vec, key)) = IF TopK <= Cardinality(Known(vec, key)) THEN TopK
                                 ELSE Cardinality(Known(vec, key))
         /\ \A i \in DOMAIN Top(vec, key) :
              /\ i \in 1 .. Cardinality(Known(vec, key)) /\ Top(vec, key)[i] = Fused(vec, key)[i]
              /\ Top(vec, key)[i] \in Known(vec, key)
         /\ IsInjective(Top(vec, key))
  <1> DEFINE K == Known(vec, key)
             n == Cardinality(K)
             F == Fused(vec, key)
             m == Min({TopK, Len(F)})
             top == SubSeq(F, 1, m)
  <1>1. n \in Nat /\ K \in SUBSET Chunks
    BY KnownIsFinite
  <1>2. F \in [1 .. n -> K] /\ \A i, j \in 1 .. n : F[i] = F[j] => i = j
    BY FusedFacts DEF Bijection, Injection, IsInjective
  <1> HIDE DEF K, n, F
  <1>3. F \in Seq(Chunks) /\ Len(F) = n /\ TopK \in Nat
    BY <1>1, <1>2, GroundingAssumption
  <1>4. m = (IF TopK <= n THEN TopK ELSE n) /\ m \in Nat /\ m <= n
    BY <1>1, <1>3, MinOfTwo
  <1> HIDE DEF m
  <1>5. top \in Seq(Chunks) /\ Len(top) = m /\ DOMAIN top = 1 .. m /\ \A i \in 1 .. m : top[i] = F[i]
    BY <1>1, <1>3, <1>4
  <1>6. \A i \in 1 .. m : i \in 1 .. n
    BY <1>1, <1>4
  <1> HIDE DEF top
  <1>7. IsInjective(top)
    BY <1>2, <1>5, <1>6 DEF IsInjective
  <1>8. \A i \in DOMAIN top : i \in 1 .. n /\ top[i] = F[i] /\ top[i] \in K
    BY <1>2, <1>5, <1>6
  <1>9. Top(vec, key) = top
    BY DEF Top, top, m, F
  <1> QED BY <1>4, <1>5, <1>7, <1>8, <1>9 DEF n, K, F

\* Whatever is ahead of one of the best is one of them, before it.
LEMMA TopIsClosed ==
  ASSUME NEW vec \in Vectors, NEW key \in Ranked, NEW a \in Known(vec, key),
         NEW b \in ToSet(Top(vec, key)), Ahead(vec, key, a, b)
  PROVE  a \in ToSet(Top(vec, key)) /\ RankIn(Top(vec, key), a) < RankIn(Top(vec, key), b)
  <1> DEFINE top == Top(vec, key)
             K == Known(vec, key)
             n == Cardinality(K)
             F == Fused(vec, key)
  <1>1. PICK j \in DOMAIN top : top[j] = b
    BY DEF ToSet
  <1>2. /\ DOMAIN top = 1 .. Len(top) /\ Len(top) \in Nat
        /\ \A i \in DOMAIN top : i \in 1 .. n /\ top[i] = F[i] /\ top[i] \in K
        /\ \A i, k \in DOMAIN top : top[i] = top[k] => i = k
    <2>1. top \in Seq(Chunks)
      BY TopFacts
    <2>2. DOMAIN top = 1 .. Len(top) /\ Len(top) \in Nat
      BY <2>1
    <2> QED BY <2>2, TopFacts DEF IsInjective
  <1>3. PICK i \in 1 .. n : F[i] = a
    BY FusedFacts DEF Bijection, Surjection
  <1>4. i < j
    <2>1. j \in 1 .. n /\ F[j] = b
      BY <1>1, <1>2
    <2> QED BY <1>3, <2>1, FusedFacts
  <1>5. i \in DOMAIN top
    <2>1. i \in Nat /\ i >= 1
      BY <1>3
    <2> QED BY <1>1, <1>2, <1>4, <2>1
  <1>6. top[i] = a
    BY <1>2, <1>3, <1>5
  <1>7. a \in ToSet(top)
    BY <1>5, <1>6 DEF ToSet
  <1>8. \A k \in DOMAIN top : RankIn(top, top[k]) = k
    <2> SUFFICES ASSUME NEW k \in DOMAIN top PROVE RankIn(top, top[k]) = k
      OBVIOUS
    <2>1. \E l \in DOMAIN top : top[l] = top[k]
      OBVIOUS
    <2>2. RankIn(top, top[k]) \in DOMAIN top /\ top[RankIn(top, top[k])] = top[k]
      BY <2>1 DEF RankIn
    <2> QED BY <1>2, <2>2
  <1>9. RankIn(top, a) = i /\ RankIn(top, b) = j
    BY <1>1, <1>5, <1>6, <1>8
  <1> QED BY <1>4, <1>7, <1>9

\* A search answers with its best, or with nothing.
LEMMA SearchIs ==
  ASSUME NEW vec, NEW key
  PROVE  /\ Search(vec, key) = IF Clears(vec, Top(vec, key)) THEN Top(vec, key) ELSE <<>>
         /\ Search(vec, key) = <<>> <=> ~Clears(vec, Top(vec, key))
  <1>1. Search(vec, key) = IF Clears(vec, Top(vec, key)) THEN Top(vec, key) ELSE <<>>
    BY DEF Search, Top
  <1>2. Clears(vec, Top(vec, key)) => Top(vec, key) # <<>>
    <2>1. ToSet(<<>>) = {}
      BY DEF ToSet
    <2> QED BY <2>1 DEF Clears
  <1> QED BY <1>1, <1>2

LEMMA AnswerType ==
  ASSUME NEW vec \in Vectors, NEW key \in Ranked
  PROVE  /\ Search(vec, key) \in Seq(Chunks) /\ Len(Search(vec, key)) \in 0 .. TopK
         /\ IsInjective(Search(vec, key))
  <1>1. <<>> \in Seq(Chunks) /\ Len(<<>>) = 0 /\ IsInjective(<<>>)
    BY DEF IsInjective
  <1>2. Len(Top(vec, key)) \in 0 .. TopK
    BY TopFacts, KnownIsFinite, GroundingAssumption
  <1>3. 0 \in 0 .. TopK
    BY GroundingAssumption
  <1> QED BY <1>1, <1>2, <1>3, TopFacts, SearchIs

\* A passage of the first list is as close as that list says.
LEMMA Closeness ==
  ASSUME NEW vec \in Vectors
  PROVE  /\ \A i \in DOMAIN vec : /\ vec[i].chunk \in ToSet(Retrieved(vec))
                                  /\ RankIn(Retrieved(vec), vec[i].chunk) = i
                                  /\ Similarity(vec, vec[i].chunk) = vec[i].sim
         /\ \A c : Similarity(vec, c) >= Floor => \E i \in DOMAIN vec : vec[i].sim >= Floor
         /\ \A c \in ToSet(Retrieved(vec)) :
              /\ RankIn(Retrieved(vec), c) \in DOMAIN vec
              /\ Similarity(vec, c) = vec[RankIn(Retrieved(vec), c)].sim
         /\ \A i, j \in DOMAIN vec : i < j => vec[i].sim >= vec[j].sim
  <1> DEFINE v == Retrieved(vec)
  <1>1. /\ v \in Ranked /\ DOMAIN v = DOMAIN vec /\ \A i \in DOMAIN vec : v[i] = vec[i].chunk
        /\ DOMAIN vec = 1 .. Len(vec) /\ Len(v) = Len(vec)
    BY VectorsAreRanked DEF Retrieved
  <1>2. \A i \in DOMAIN v : v[i] \in ToSet(v) /\ RankIn(v, v[i]) = i
    BY <1>1, Places
  <1>3. \A c \in ToSet(v) : RankIn(v, c) \in DOMAIN vec
    BY <1>1, Places
  <1>4. \A c \in ToSet(v) : Similarity(vec, c) = vec[RankIn(v, c)].sim
    BY DEF Similarity
  <1>5. \A c : c \notin ToSet(v) => ~(Similarity(vec, c) >= Floor)
    <2>1. Floor \in Nat /\ Floor >= 1
      BY GroundingAssumption
    <2>2. ~(0 >= Floor)
      BY <2>1
    <2> QED BY <2>2 DEF Similarity
  <1>6. \A c : Similarity(vec, c) >= Floor => \E i \in DOMAIN vec : vec[i].sim >= Floor
    BY <1>3, <1>4, <1>5
  <1>7. \A i, j \in DOMAIN vec : i < j => vec[i].sim >= vec[j].sim
    BY DEF Vectors
  <1> QED BY <1>1, <1>2, <1>3, <1>4, <1>6, <1>7

\* FusionKeepsDominance of one search.
LEMMA FusionIsFair ==
  ASSUME NEW vec \in Vectors, NEW key \in Ranked, NEW a \in Chunks, NEW b \in ToSet(Search(vec, key)),
         Place(Retrieved(vec), a) <= Place(Retrieved(vec), b), Place(key, a) <= Place(key, b),
         Place(Retrieved(vec), a) < Place(Retrieved(vec), b) \/ Place(key, a) < Place(key, b)
  PROVE  a \in ToSet(Search(vec, key)) /\ RankIn(Search(vec, key), a) < RankIn(Search(vec, key), b)
  <1>1. ToSet(<<>>) = {}
    BY DEF ToSet
  <1>2. Search(vec, key) = Top(vec, key)
    BY <1>1, SearchIs
  <1>3. b \in Known(vec, key)
    BY <1>2, TopFacts DEF ToSet
  <1> QED BY <1>2, <1>3, DominantIsAhead, TopIsClosed

\* OnlyKeywordsHideAHit of one search.
LEMMA HiddenByKeywords ==
  ASSUME NEW vec \in Vectors, NEW key \in Ranked
  PROVE  LET close == {i \in DOMAIN vec : vec[i].sim >= Floor}
             rest  == {c \in ToSet(key) : Similarity(vec, c) < Floor}
         IN  /\ Search(vec, key) = <<>> /\ close # {} => Cardinality(rest) >= TopK
             /\ Search(vec, key) # <<>> => close # {}
  <1> DEFINE close == {i \in DOMAIN vec : vec[i].sim >= Floor}
             rest  == {c \in ToSet(key) : Similarity(vec, c) < Floor}
             top == Top(vec, key)
             v == Retrieved(vec)
  <1>0. v \in Ranked /\ Pool \in Nat /\ Levels \in Nat /\ Floor \in Nat /\ TopK \in Nat
    BY VectorsAreRanked, GroundingAssumption
  <1>1. Search(vec, key) # <<>> => close # {}
    BY SearchIs, Closeness DEF Clears
  <1>2. ASSUME Search(vec, key) = <<>>, NEW i \in DOMAIN vec, vec[i].sim >= Floor
        PROVE  Cardinality(rest) >= TopK
    <2> DEFINE c == vec[i].chunk
    <2>1. \A x \in ToSet(top) : ~(Similarity(vec, x) >= Floor)
      BY <1>2, SearchIs DEF Clears
    <2>2. c \in ToSet(v) /\ RankIn(v, c) = i /\ Similarity(vec, c) >= Floor
      BY <1>2, Closeness
    <2>3. c \in Known(vec, key) /\ c \notin ToSet(top) /\ c \in Chunks
      BY <2>1, <2>2, <1>0, Places DEF Known
    <2> HIDE DEF c
    <2>4. Len(top) = TopK
      <3> SUFFICES ASSUME Len(top) = Cardinality(Known(vec, key)) PROVE FALSE
        BY TopFacts
      <3>1. PICK k \in 1 .. Cardinality(Known(vec, key)) : Fused(vec, key)[k] = c
        BY <2>3, FusedFacts DEF Bijection, Surjection
      <3>2. top \in Seq(Chunks)
        BY TopFacts
      <3>3. k \in DOMAIN top
        BY <3>1, <3>2
      <3>4. top[k] = c
        BY <3>1, <3>3, TopFacts
      <3> QED BY <2>3, <3>3, <3>4 DEF ToSet
    <2>5. ASSUME NEW x \in ToSet(top) PROVE x \in rest
      <3>1. x \in Known(vec, key) /\ ~(Similarity(vec, x) >= Floor)
        BY <2>1, TopFacts DEF ToSet
      <3>2. Similarity(vec, x) < Floor
        BY <1>0, <3>1, SortKeys
      <3>3. ASSUME x \notin ToSet(key) PROVE FALSE
        <4>1. x \in ToSet(v)
          BY <3>1, <3>3 DEF Known
        <4>2. RankIn(v, x) \in DOMAIN vec /\ vec[RankIn(v, x)].sim < Floor
          BY <3>2, <4>1, Closeness
        <4>3. DOMAIN vec = 1 .. Len(vec) /\ Len(vec) \in Nat /\ \A k \in DOMAIN vec : vec[k].sim \in 1 .. Levels
          BY VectorsAreRanked
        <4>4. i < RankIn(v, x)
          <5> DEFINE r == RankIn(v, x)
          <5> HIDE DEF r
          <5>1. r \in DOMAIN vec /\ vec[r].sim < Floor
            BY <4>2 DEF r
          <5>2. \A k, l \in DOMAIN vec : k < l => vec[k].sim >= vec[l].sim
            BY Closeness
          <5>3. ~(r < i) /\ r # i
            <6>1. vec[r].sim \in Int /\ vec[i].sim \in Int
              BY <1>0, <4>3, <5>1
            <6>2. ~(vec[r].sim >= vec[i].sim)
              BY <1>0, <1>2, <5>1, <6>1
            <6> QED BY <5>1, <5>2, <6>1, <6>2
          <5> QED BY <4>3, <5>1, <5>3 DEF r
        <4>5. Place(v, c) < Place(v, x) /\ Place(v, c) <= Place(v, x)
          BY <2>2, <4>1, <4>2, <4>3, <4>4 DEF Place
        <4>6. Place(key, c) <= Place(key, x)
          <5>1. Place(key, x) = Len(key) + 1 /\ Len(key) \in Nat
            BY <1>0, <3>3, Places DEF Place
          <5>2. Place(key, c) \in 1 .. Len(key) + 1
            BY <5>1, Places DEF Place
          <5> QED BY <5>1, <5>2
        <4>7. Ahead(vec, key, c, x)
          BY <2>3, <3>1, <4>5, <4>6, DominantIsAhead
        <4> QED BY <2>3, <4>7, TopIsClosed
      <3> QED BY <3>2, <3>3
    <2>6. Cardinality(ToSet(top)) = TopK
      <3>1. top \in Seq(Chunks) /\ IsInjective(top)
        BY TopFacts
      <3>2. DOMAIN top = 1 .. TopK
        BY <2>4, <3>1
      <3>3. top \in Bijection(1 .. TopK, ToSet(top))
        <4>1. top \in [1 .. TopK -> ToSet(top)]
          BY <3>1, <3>2 DEF ToSet
        <4>2. \A y \in ToSet(top) : \E k \in 1 .. TopK : top[k] = y
          BY <3>2 DEF ToSet
        <4> QED BY <3>1, <4>1, <4>2 DEF Bijection, Injection, Surjection
      <3>4. IsFiniteSet(1 .. TopK) /\ Cardinality(1 .. TopK) = TopK
        BY <1>0, FS_Interval
      <3>5. ExistsBijection(1 .. TopK, ToSet(top))
        BY <3>3 DEF ExistsBijection
      <3> QED BY <3>4, <3>5, FS_Bijection
    <2>7. IsFiniteSet(rest) /\ Cardinality(rest) \in Nat
      <3>1. rest \in SUBSET ToSet(key) /\ IsFiniteSet(ToSet(key))
        BY Places, FiniteValues
      <3> HIDE DEF rest
      <3> QED BY <3>1, FS_Subset, FS_CardinalityType
    <2>8. ToSet(top) \in SUBSET rest
      BY <2>5
    <2> HIDE DEF rest
    <2>9. Cardinality(ToSet(top)) <= Cardinality(rest)
      BY <2>7, <2>8, FS_Subset
    <2> QED BY <1>0, <2>6, <2>7, <2>9
  <1> QED BY <1>1, <1>2

-----------------------------------------------------------------------------
(* Gaps *)

Supported == support \in [DOMAIN Requirements -> [DOMAIN Skills -> 0 .. Levels]]

\* A requirement is supported as well as its best skill supports it.
LEMMA BestIsReached ==
  ASSUME Supported, NEW i \in DOMAIN Requirements
  PROVE  /\ Best(i) \in Nat
         /\ \A s \in DOMAIN Skills : support[i][s] \in Nat /\ support[i][s] <= Best(i)
         /\ Best(i) = 0 \/ \E s \in DOMAIN Skills : support[i][s] = Best(i)
  <1> DEFINE S == {0} \cup {support[i][s] : s \in DOMAIN Skills}
  <1>0. Levels \in Nat
    BY GroundingAssumption
  <1>1. \A s \in DOMAIN Skills : support[i][s] \in 0 .. Levels
    BY DEF Supported
  <1>2. S \in SUBSET Nat /\ S # {} /\ \A k \in S : k <= Levels
    BY <1>0, <1>1
  <1> HIDE DEF S
  <1>3. Max(S) \in S /\ \A k \in S : k <= Max(S)
    BY <1>0, <1>2, MaxFacts
  <1>4. Best(i) = Max(S)
    BY DEF Best, S
  <1> QED BY <1>1, <1>2, <1>3, <1>4 DEF S

\* A requirement is a gap exactly if no skill supports it.
LEMMA GapOrNot ==
  ASSUME Supported, NEW i \in DOMAIN Requirements
  PROVE  ~Covered(i) <=> \A s \in DOMAIN Skills : support[i][s] < Supports
  <1>1. Supports \in Nat /\ Supports >= 1
    BY GroundingAssumption
  <1> QED BY <1>1, BestIsReached DEF Covered

\* The gaps list the unsupported requirements, the least supported first.
LEMMA GapsFacts ==
  ASSUME Supported
  PROVE  LET bare == {i \in DOMAIN Requirements : \A s \in DOMAIN Skills : support[i][s] < Supports}
         IN  /\ Gaps \in Seq(STRING) /\ Len(Gaps) \in Nat
             /\ \A k \in DOMAIN Gaps : Gaps[k] \in ToSet(Requirements)
             /\ \E at \in Bijection(1 .. Len(Gaps), bare) :
                  /\ \A k \in 1 .. Len(Gaps) : Gaps[k] = Requirements[at[k]]
                  /\ \A j, k \in 1 .. Len(Gaps) : j < k =>
                       \A s \in DOMAIN Skills : \E r \in DOMAIN Skills :
                         support[at[j]][s] <= support[at[k]][r]
  <1> DEFINE bare == {i \in DOMAIN Requirements : ~Covered(i)}
             R == {p \in bare \X bare : \/ Best(p[1]) < Best(p[2])
                                        \/ Best(p[1]) = Best(p[2]) /\ p[1] < p[2]}
             n == Cardinality(bare)
             at == InOrder(bare, R)
  <1>1. Requirements \in Seq(STRING) /\ DOMAIN Requirements \in SUBSET Nat
    BY GroundingAssumption
  <1>2. IsFiniteSet(bare) /\ n \in Nat
    BY <1>1, PositionsAreFinite
  <1>3. \A i \in bare : Best(i) \in Nat /\ i \in Nat
    BY <1>1, BestIsReached
  <1>4. Orders(R, bare)
    <2>1. \A i, j \in bare : <<i, j>> \in R <=> \/ Best(i) < Best(j)
                                                \/ Best(i) = Best(j) /\ i < j
      OBVIOUS
    <2> HIDE DEF R, bare
    <2> QED BY <1>3, <2>1 DEF Orders
  <1>5. at \in Bijection(1 .. n, bare)
    BY <1>2, <1>4, OrderIsKept
  <1>6. \A j, k \in 1 .. n : j < k => <<at[j], at[k]>> \in R
    BY <1>2, <1>4, ListedInOrder
  <1>7. Gaps = [k \in 1 .. n |-> Requirements[at[k]]]
    BY DEF Gaps
  <1>8. \A k \in 1 .. n : at[k] \in bare /\ at[k] \in DOMAIN Requirements
    BY <1>5 DEF Bijection, Injection
  <1>9. ASSUME NEW j \in 1 .. n, NEW k \in 1 .. n, j < k, NEW s \in DOMAIN Skills
        PROVE  \E r \in DOMAIN Skills : support[at[j]][s] <= support[at[k]][r]
    <2>1. Best(at[j]) <= Best(at[k])
      <3>1. at[j] \in bare /\ at[k] \in bare
        BY <1>8
      <3>2. Best(at[j]) < Best(at[k]) \/ Best(at[j]) = Best(at[k])
        BY <1>6, <1>9
      <3> HIDE DEF bare, at
      <3> QED BY <1>3, <3>1, <3>2
    <2>2. at[j] \in DOMAIN Requirements /\ at[k] \in DOMAIN Requirements
      BY <1>8
    <2> HIDE DEF at, bare, R, n
    <2>3. support[at[j]][s] \in Nat /\ support[at[j]][s] <= Best(at[j]) /\ Best(at[j]) \in Nat
      BY <2>2, BestIsReached
    <2>4. /\ Best(at[k]) \in Nat /\ \A r \in DOMAIN Skills : support[at[k]][r] \in Nat
          /\ Best(at[k]) = 0 \/ \E r \in DOMAIN Skills : support[at[k]][r] = Best(at[k])
      BY <2>2, BestIsReached
    <2>5. CASE Best(at[k]) = 0
      <3>1. support[at[j]][s] <= support[at[k]][s]
        BY <2>1, <2>3, <2>4, <2>5
      <3> QED BY <3>1
    <2>6. CASE \E r \in DOMAIN Skills : support[at[k]][r] = Best(at[k])
      BY <2>1, <2>3, <2>4, <2>6
    <2> QED BY <2>4, <2>5, <2>6
  <1>10. bare = {i \in DOMAIN Requirements : \A s \in DOMAIN Skills : support[i][s] < Supports}
    BY GapOrNot
  <1> HIDE DEF at, bare, R, n
  <1>11. Len(Gaps) = n /\ DOMAIN Gaps = 1 .. n /\ \A k \in 1 .. n : Gaps[k] = Requirements[at[k]]
    BY <1>2, <1>7
  <1>12. \A k \in 1 .. n : Requirements[at[k]] \in STRING /\ Requirements[at[k]] \in ToSet(Requirements)
    BY <1>1, <1>8 DEF ToSet
  <1>13. Gaps \in Seq(STRING)
    BY <1>2, <1>7, <1>12
  <1> QED BY <1>2, <1>5, <1>9, <1>10, <1>11, <1>12, <1>13

-----------------------------------------------------------------------------
(* Tokens and looks *)

\* A recursion over a list: its value at n follows from the one before.
TokenStep(F, s, n) == IF n = 0 THEN 0 ELSE F[n-1] + Cost[s[n]]
Adds(F, s) == F = [n \in 0 .. Len(s) |-> TokenStep(F, s, n)]

LEMMA TokensAre ==
  ASSUME NEW s
  PROVE  TokensTo(s) = CHOOSE F : Adds(F, s)
  BY DEF TokensTo, Adds, TokenStep

LEMMA AddsExists ==
  ASSUME NEW s, Len(s) \in Nat
  PROVE  \E F : Adds(F, s)
  <1> DEFINE UpTo(F, n) == /\ F = [m \in 0 .. Len(s) |-> F[m]]
                           /\ \A m \in 0 .. Len(s) : m <= n => F[m] = TokenStep(F, s, m)
             N == {n \in Nat : \E F : UpTo(F, n)}
  <1>0. Len(s) \in Nat
    OBVIOUS
  <1>1. 0 \in N
    <2>1. UpTo([m \in 0 .. Len(s) |-> 0], 0)
      BY DEF TokenStep
    <2> HIDE DEF UpTo
    <2> QED BY <2>1
  <1>2. ASSUME NEW n \in Nat, n \in N PROVE n + 1 \in N
    <2>1. PICK F : UpTo(F, n)
      BY <1>2
    <2> DEFINE H == [m \in 0 .. Len(s) |-> IF m <= n THEN F[m] ELSE TokenStep(F, s, m)]
    <2>2. \A m \in 0 .. Len(s) : m <= n + 1 => H[m] = TokenStep(F, s, m)
      BY <2>1
    <2>3. \A m \in 0 .. Len(s) : m <= n => H[m] = F[m]
      OBVIOUS
    <2>4. H = [m \in 0 .. Len(s) |-> H[m]]
      OBVIOUS
    <2> HIDE DEF H
    <2>5. \A m \in 0 .. Len(s) : m <= n + 1 => TokenStep(H, s, m) = TokenStep(F, s, m)
      <3> SUFFICES ASSUME NEW m \in 0 .. Len(s), m <= n + 1, m # 0
                   PROVE  H[m-1] = F[m-1]
        BY DEF TokenStep
      <3> QED BY <1>0, <2>3
    <2>6. UpTo(H, n + 1)
      BY <2>2, <2>4, <2>5
    <2> HIDE DEF UpTo
    <2> QED BY <2>6
  <1>3. Len(s) \in N
    <2> HIDE DEF N
    <2> QED BY <1>0, <1>1, <1>2, SetInduction
  <1>4. PICK F : UpTo(F, Len(s))
    BY <1>3
  <1>5. F = [m \in 0 .. Len(s) |-> TokenStep(F, s, m)]
    BY <1>4
  <1> QED BY <1>5 DEF Adds

LEMMA TokenSteps ==
  ASSUME NEW s, Len(s) \in Nat
  PROVE  TokensTo(s)[0] = 0 /\ \A n \in 1 .. Len(s) : TokensTo(s)[n] = TokensTo(s)[n-1] + Cost[s[n]]
  <1> DEFINE F == TokensTo(s)
  <1>1. Adds(F, s)
    BY TokensAre, AddsExists
  <1> HIDE DEF F
  <1>2. \A n \in 0 .. Len(s) : F[n] = TokenStep(F, s, n)
    BY <1>1 DEF Adds
  <1>3. F[0] = 0 /\ \A n \in 1 .. Len(s) : F[n] = F[n-1] + Cost[s[n]]
    BY <1>2 DEF TokenStep
  <1> QED BY <1>3 DEF F

LEMMA TokensOfEmpty == Tokens(<<>>) = 0
  <1>1. Len(<<>>) = 0
    OBVIOUS
  <1> QED BY <1>1, TokenSteps DEF Tokens

\* One more passage adds its own tokens.
LEMMA TokensAddUp ==
  ASSUME NEW s \in Seq(Chunks), NEW c \in Chunks
  PROVE  Tokens(Append(s, c)) = Tokens(s) + Cost[c]
  <1> DEFINE t == Append(s, c)
             l == Len(s)
             N == {n \in Nat : n <= l => TokensTo(t)[n] = TokensTo(s)[n]}
  <1>1. l \in Nat /\ Len(t) = l + 1 /\ Len(t) \in Nat /\ t[l + 1] = c /\ \A n \in 1 .. l : t[n] = s[n]
    OBVIOUS
  <1> HIDE DEF t
  <1>2. 0 \in N
    BY <1>1, TokenSteps
  <1>3. ASSUME NEW n \in Nat, n \in N PROVE n + 1 \in N
    <2> SUFFICES ASSUME n + 1 <= l PROVE TokensTo(t)[n + 1] = TokensTo(s)[n + 1]
      OBVIOUS
    <2>1. n + 1 \in 1 .. l /\ n + 1 \in 1 .. Len(t) /\ n + 1 - 1 = n /\ n <= l
      BY <1>1
    <2>2. TokensTo(t)[n + 1] = TokensTo(t)[n] + Cost[t[n + 1]]
      BY <1>1, <2>1, TokenSteps
    <2>3. TokensTo(s)[n + 1] = TokensTo(s)[n] + Cost[s[n + 1]]
      BY <1>1, <2>1, TokenSteps
    <2> QED BY <1>1, <1>3, <2>1, <2>2, <2>3
  <1>4. l \in N
    <2> HIDE DEF N
    <2> QED BY <1>1, <1>2, <1>3, SetInduction
  <1>5. TokensTo(t)[l] = TokensTo(s)[l]
    BY <1>1, <1>4
  <1>6. l + 1 \in 1 .. Len(t) /\ l + 1 - 1 = l
    BY <1>1
  <1>7. TokensTo(t)[l + 1] = TokensTo(t)[l] + Cost[c]
    BY <1>1, <1>6, TokenSteps
  <1> QED BY <1>1, <1>5, <1>7 DEF Tokens, t

\* The round robin, as such a recursion.
Nobody == [kept |-> <<>>, used |-> 0, full |-> FALSE]
LookStep(F, hs, n) == IF n = 0 THEN Nobody ELSE Look(hs, n, F[n-1])
LooksAt(F, hs) == F = [n \in 0 .. TopK * Len(hs) |-> LookStep(F, hs, n)]

LEMMA LooksAre ==
  ASSUME NEW hs
  PROVE  Looks(hs) = CHOOSE F : LooksAt(F, hs)
  BY DEF Looks, LooksAt, LookStep, Nobody

LEMMA LooksExist ==
  ASSUME NEW hs, Len(hs) \in Nat
  PROVE  \E F : LooksAt(F, hs)
  <1> DEFINE z == TopK * Len(hs)
             UpTo(F, n) == /\ F = [m \in 0 .. z |-> F[m]]
                           /\ \A m \in 0 .. z : m <= n => F[m] = LookStep(F, hs, m)
             N == {n \in Nat : \E F : UpTo(F, n)}
  <1>0. z \in Nat
    BY GroundingAssumption
  <1> HIDE DEF z
  <1>1. 0 \in N
    <2>1. UpTo([m \in 0 .. z |-> Nobody], 0)
      BY DEF LookStep
    <2> HIDE DEF UpTo
    <2> QED BY <2>1
  <1>2. ASSUME NEW n \in Nat, n \in N PROVE n + 1 \in N
    <2>1. PICK F : UpTo(F, n)
      BY <1>2
    <2> DEFINE H == [m \in 0 .. z |-> IF m <= n THEN F[m] ELSE LookStep(F, hs, m)]
    <2>2. \A m \in 0 .. z : m <= n + 1 => H[m] = LookStep(F, hs, m)
      BY <2>1
    <2>3. \A m \in 0 .. z : m <= n => H[m] = F[m]
      OBVIOUS
    <2>4. H = [m \in 0 .. z |-> H[m]]
      OBVIOUS
    <2> HIDE DEF H
    <2>5. \A m \in 0 .. z : m <= n + 1 => LookStep(H, hs, m) = LookStep(F, hs, m)
      <3> SUFFICES ASSUME NEW m \in 0 .. z, m <= n + 1, m # 0
                   PROVE  H[m-1] = F[m-1]
        BY DEF LookStep
      <3> QED BY <1>0, <2>3
    <2>6. UpTo(H, n + 1)
      BY <2>2, <2>4, <2>5
    <2> HIDE DEF UpTo
    <2> QED BY <2>6
  <1>3. z \in N
    <2> HIDE DEF N
    <2> QED BY <1>0, <1>1, <1>2, SetInduction
  <1>4. PICK F : UpTo(F, z)
    BY <1>3
  <1>5. F = [m \in 0 .. z |-> LookStep(F, hs, m)]
    BY <1>4
  <1> QED BY <1>5 DEF LooksAt, z

LEMMA LookSteps ==
  ASSUME NEW hs, Len(hs) \in Nat
  PROVE  /\ Looks(hs)[0] = Nobody
         /\ \A n \in 1 .. TopK * Len(hs) : Looks(hs)[n] = Look(hs, n, Looks(hs)[n-1])
  <1> DEFINE F == Looks(hs)
             z == TopK * Len(hs)
  <1>0. z \in Nat
    BY GroundingAssumption
  <1>1. LooksAt(F, hs)
    BY LooksAre, LooksExist
  <1> HIDE DEF F
  <1>2. F = [n \in 0 .. z |-> LookStep(F, hs, n)]
    BY <1>1 DEF LooksAt
  <1> HIDE DEF z
  <1>3. \A n \in 0 .. z : F[n] = LookStep(F, hs, n)
    BY <1>2
  <1>4. F[0] = Nobody /\ \A n \in 1 .. z : F[n] = Look(hs, n, F[n-1])
    BY <1>0, <1>3 DEF LookStep
  <1> QED BY <1>4 DEF F, z

-----------------------------------------------------------------------------
(* The round robin *)

\* A quotient and a remainder are unique.
LEMMA DivModUnique ==
  ASSUME NEW l \in Nat \ {0}, NEW q \in Nat, NEW r \in Nat, r < l
  PROVE  (q * l + r) \div l = q /\ (q * l + r) % l = r
  <1> DEFINE n == q * l + r
             p == n \div l
             s == n % l
  <1>1. n \in Nat
    OBVIOUS
  <1>2. p \in Nat /\ s \in Nat /\ s < l /\ n = p * l + s
    <2> HIDE DEF n
    <2> QED BY <1>1
  <1>3. p * l + s = q * l + r
    BY <1>2
  <1> HIDE DEF n, p, s
  <1>4. ~(p < q)
    <2> SUFFICES ASSUME p < q PROVE FALSE
      OBVIOUS
    <2> DEFINE d == q - p
    <2>1. d \in Nat /\ d > 0 /\ q = p + d
      BY <1>2
    <2> HIDE DEF d
    <2>2. q * l = p * l + d * l
      BY <1>2, <2>1
    <2>3. d * l >= l
      BY <2>1
    <2> DEFINE x == p * l
               y == d * l
               z == q * l
    <2>4. x \in Nat /\ y \in Nat /\ z \in Nat /\ z = x + y /\ y >= l /\ x + s = z + r
      BY <1>2, <1>3, <2>1, <2>2, <2>3
    <2> HIDE DEF x, y, z
    <2> QED BY <1>2, <2>4
  <1>5. ~(q < p)
    <2> SUFFICES ASSUME q < p PROVE FALSE
      OBVIOUS
    <2> DEFINE d == p - q
    <2>1. d \in Nat /\ d > 0 /\ p = q + d
      BY <1>2
    <2> HIDE DEF d
    <2>2. p * l = q * l + d * l
      BY <1>2, <2>1
    <2>3. d * l >= l
      BY <2>1
    <2> DEFINE x == q * l
               y == d * l
               z == p * l
    <2>4. x \in Nat /\ y \in Nat /\ z \in Nat /\ z = x + y /\ y >= l /\ z + s = x + r
      BY <1>2, <1>3, <2>1, <2>2, <2>3
    <2> HIDE DEF x, y, z
    <2> QED BY <1>2, <2>4
  <1>6. p = q
    BY <1>2, <1>4, <1>5
  <1>7. s = r
    BY <1>2, <1>3, <1>6
  <1> QED BY <1>6, <1>7 DEF p, s, n

\* Where the round robin is: every target at every depth has its turn.
LEMMA TurnsAreTaken ==
  ASSUME NEW hs, Len(hs) \in Nat \ {0}, NEW t \in 1 .. Len(hs), NEW d \in 1 .. TopK
  PROVE  /\ (d - 1) * Len(hs) + t \in 1 .. TopK * Len(hs)
         /\ InTurn(hs, (d - 1) * Len(hs) + t) = <<t, d>>
  <1> DEFINE l == Len(hs)
             q == d - 1
             r == t - 1
             n == q * l + t
  <1>0. TopK \in Nat
    BY GroundingAssumption
  <1>1. l \in Nat \ {0} /\ q \in Nat /\ r \in Nat /\ r < l /\ t = r + 1 /\ d = q + 1 /\ q < TopK
    BY <1>0
  <1> HIDE DEF l, q, r
  <1>2. (q * l + r) \div l = q /\ (q * l + r) % l = r
    BY <1>1, DivModUnique
  <1>3. q * l \in Nat /\ n - 1 = q * l + r
    BY <1>1
  <1>4. q * l + l <= TopK * l
    <2> DEFINE e == TopK - q
    <2>1. e \in Nat /\ e >= 1 /\ TopK = q + e
      BY <1>0, <1>1
    <2> HIDE DEF e
    <2>2. TopK * l = q * l + e * l
      BY <1>1, <2>1
    <2>3. e * l >= l
      BY <1>1, <2>1
    <2>4. e * l \in Nat
      BY <1>1, <2>1
    <2> QED BY <1>1, <1>3, <2>2, <2>3, <2>4
  <1>5. n \in 1 .. TopK * l
    <2> DEFINE x == q * l
               y == TopK * l
    <2>1. x \in Nat /\ y \in Nat /\ x + l <= y
      BY <1>0, <1>1, <1>3, <1>4
    <2> HIDE DEF x, y
    <2>2. x + t \in 1 .. y
      BY <1>1, <2>1
    <2> QED BY <2>2 DEF x, y
  <1>6. ((n - 1) % l) + 1 = t /\ ((n - 1) \div l) + 1 = d
    BY <1>1, <1>2, <1>3
  <1> QED BY <1>5, <1>6 DEF InTurn, l, q

LEMMA TurnType ==
  ASSUME NEW hs, Len(hs) \in Nat \ {0}, NEW n \in Nat \ {0}
  PROVE  InTurn(hs, n)[1] \in 1 .. Len(hs) /\ InTurn(hs, n)[2] \in Nat \ {0}
  <1> DEFINE l == Len(hs)
             m == n - 1
  <1>1. l \in Nat \ {0} /\ m \in Nat
    OBVIOUS
  <1> HIDE DEF l, m
  <1>2. m % l \in 0 .. l - 1 /\ m \div l \in Nat
    BY <1>1
  <1>3. (m % l) + 1 \in 1 .. l /\ (m \div l) + 1 \in Nat \ {0}
    BY <1>1, <1>2
  <1> QED BY <1>3 DEF InTurn, l, m

\* Whether there is a passage at the n-th look, which one, and those of the first n.
There(hs, n) == InTurn(hs, n)[2] <= Len(hs[InTurn(hs, n)[1]])
Here(hs, n) == hs[InTurn(hs, n)[1]][InTurn(hs, n)[2]]
SeenBy(hs, n) == {Here(hs, k) : k \in {j \in 1 .. n : There(hs, j)}}

Answers == {hs \in Seq(Seq(Chunks)) : \A t \in DOMAIN hs : Len(hs[t]) <= TopK}

LEMMA HereIsAPassage ==
  ASSUME NEW hs \in Answers, NEW n \in Nat \ {0}, Len(hs) # 0, There(hs, n)
  PROVE  /\ Here(hs, n) \in Chunks /\ InTurn(hs, n)[1] \in DOMAIN hs
         /\ Here(hs, n) \in ToSet(hs[InTurn(hs, n)[1]])
  <1> DEFINE t == InTurn(hs, n)[1]
             d == InTurn(hs, n)[2]
  <1>1. hs \in Seq(Seq(Chunks)) /\ Len(hs) \in Nat \ {0}
    BY DEF Answers
  <1>2. t \in 1 .. Len(hs) /\ d \in Nat \ {0} /\ d <= Len(hs[t])
    BY <1>1, TurnType DEF There
  <1> HIDE DEF t, d
  <1>3. hs[t] \in Seq(Chunks) /\ t \in DOMAIN hs
    BY <1>1, <1>2
  <1>4. d \in DOMAIN hs[t]
    BY <1>2, <1>3
  <1>5. hs[t][d] \in Chunks /\ hs[t][d] \in ToSet(hs[t])
    BY <1>3, <1>4 DEF ToSet
  <1> QED BY <1>3, <1>5 DEF Here, t, d

\* One more look sees one more passage, or none.
LEMMA SeenSteps ==
  ASSUME NEW hs, NEW n \in Nat
  PROVE  /\ SeenBy(hs, 0) = {}
         /\ SeenBy(hs, n + 1) = IF There(hs, n + 1) THEN SeenBy(hs, n) \cup {Here(hs, n + 1)}
                                ELSE SeenBy(hs, n)
  <1>1. 1 .. 0 = {} /\ 1 .. n + 1 = (1 .. n) \cup {n + 1}
    OBVIOUS
  <1>2. SeenBy(hs, 0) = {}
    BY <1>1 DEF SeenBy
  <1>3. \A x : x \in SeenBy(hs, n + 1) <=>
                 x \in SeenBy(hs, n) \/ (There(hs, n + 1) /\ x = Here(hs, n + 1))
    BY <1>1 DEF SeenBy
  <1> QED BY <1>2, <1>3

\* After n looks: every passage seen is kept, or one that did not fit ended it.
Packs(hs, n, acc) ==
  /\ acc = [kept |-> acc.kept, used |-> acc.used, full |-> acc.full]
  /\ acc.kept \in Seq(Chunks) /\ IsInjective(acc.kept)
  /\ acc.used = Tokens(acc.kept) /\ acc.used \in 0 .. Budget
  /\ acc.full \in BOOLEAN
  /\ ~acc.full => ToSet(acc.kept) = SeenBy(hs, n)
  /\ acc.full => \E m \in 1 .. n :
       /\ There(hs, m) /\ Here(hs, m) \notin ToSet(acc.kept)
       /\ acc.used + Cost[Here(hs, m)] > Budget
       /\ ToSet(acc.kept) = SeenBy(hs, m - 1)

\* One more passage that fits.
LEMMA AppendKeeps ==
  ASSUME NEW S, NEW s \in Seq(S), NEW c \in S
  PROVE  /\ ToSet(Append(s, c)) = ToSet(s) \cup {c}
         /\ IsInjective(s) /\ c \notin ToSet(s) => IsInjective(Append(s, c))
  <1> DEFINE t == Append(s, c)
             l == Len(s)
  <1>1. /\ l \in Nat /\ DOMAIN s = 1 .. l /\ DOMAIN t = 1 .. l + 1 /\ t[l + 1] = c
        /\ \A i \in 1 .. l : t[i] = s[i]
        /\ 1 .. l + 1 = (1 .. l) \cup {l + 1}
    OBVIOUS
  <1> HIDE DEF t, l
  <1>2. ToSet(t) = ToSet(s) \cup {c}
    BY <1>1 DEF ToSet
  <1>3. ASSUME IsInjective(s), c \notin ToSet(s) PROVE IsInjective(t)
    <2>1. \A i \in 1 .. l : s[i] # c
      BY <1>1, <1>3 DEF ToSet
    <2> SUFFICES ASSUME NEW i \in DOMAIN t, NEW j \in DOMAIN t, t[i] = t[j] PROVE i = j
      BY DEF IsInjective
    <2> QED BY <1>1, <1>3, <2>1 DEF IsInjective
  <1> QED BY <1>2, <1>3 DEF t

\* A look preserves it.
LEMMA LookKeeps ==
  ASSUME NEW hs \in Answers, Len(hs) # 0, NEW n \in Nat, NEW acc, Packs(hs, n, acc)
  PROVE  Packs(hs, n + 1, Look(hs, n + 1, acc))
  <1> DEFINE c == Here(hs, n + 1)
             new == Look(hs, n + 1, acc)
  <1>0. n + 1 \in Nat \ {0} /\ Budget \in Nat /\ Cost \in [Chunks -> Nat]
    BY GroundingAssumption
  <1>1. new = IF acc.full \/ ~There(hs, n + 1) \/ c \in ToSet(acc.kept) THEN acc
              ELSE IF Fits(acc.used, c)
              THEN [kept |-> Append(acc.kept, c), used |-> acc.used + Cost[c], full |-> FALSE]
              ELSE [acc EXCEPT !.full = TRUE]
    <2>1. There(hs, n + 1) <=> ~(InTurn(hs, n + 1)[2] > Len(hs[InTurn(hs, n + 1)[1]]))
      <3> DEFINE t == InTurn(hs, n + 1)[1]
                 d == InTurn(hs, n + 1)[2]
      <3>1. hs \in Seq(Seq(Chunks)) /\ Len(hs) \in Nat \ {0}
        BY DEF Answers
      <3>2. t \in 1 .. Len(hs) /\ d \in Nat
        BY <1>0, <3>1, TurnType
      <3> HIDE DEF t, d
      <3>3. hs[t] \in Seq(Chunks)
        BY <3>1, <3>2
      <3>4. Len(hs[t]) \in Nat
        BY <3>3
      <3>5. d <= Len(hs[t]) <=> ~(d > Len(hs[t]))
        BY <3>2, <3>4
      <3> QED BY <3>5 DEF There, t, d
    <2> QED BY <2>1 DEF Look, Here
  <1> HIDE DEF new, c
  <1>2. CASE acc.full
    <2>1. PICK m \in 1 .. n : /\ There(hs, m) /\ Here(hs, m) \notin ToSet(acc.kept)
                              /\ acc.used + Cost[Here(hs, m)] > Budget
                              /\ ToSet(acc.kept) = SeenBy(hs, m - 1)
      BY <1>2 DEF Packs
    <2>2. m \in 1 .. n + 1
      OBVIOUS
    <2> QED BY <1>1, <1>2, <2>1, <2>2 DEF Packs, new
  <1>3. CASE ~acc.full /\ (~There(hs, n + 1) \/ c \in ToSet(acc.kept))
    <2>1. SeenBy(hs, n + 1) = SeenBy(hs, n)
      BY <1>3, SeenSteps DEF Packs, c
    <2> QED BY <1>1, <1>3, <2>1 DEF Packs, new
  <1>4. CASE ~acc.full /\ There(hs, n + 1) /\ c \notin ToSet(acc.kept) /\ Fits(acc.used, c)
    <2>1. c \in Chunks
      BY <1>0, <1>4, HereIsAPassage DEF c
    <2>2. new = [kept |-> Append(acc.kept, c), used |-> acc.used + Cost[c], full |-> FALSE]
      BY <1>1, <1>4
    <2>3. new.kept = Append(acc.kept, c) /\ new.used = acc.used + Cost[c] /\ new.full = FALSE
      BY <2>2
    <2>4. /\ acc.kept \in Seq(Chunks) /\ IsInjective(acc.kept) /\ acc.used = Tokens(acc.kept)
          /\ acc.used \in 0 .. Budget /\ ToSet(acc.kept) = SeenBy(hs, n)
      BY <1>4 DEF Packs
    <2>5. new.kept \in Seq(Chunks)
      BY <2>1, <2>3, <2>4
    <2>6. IsInjective(new.kept) /\ ToSet(new.kept) = ToSet(acc.kept) \cup {c}
      BY <1>4, <2>1, <2>3, <2>4, AppendKeeps
    <2>7. Tokens(new.kept) = new.used
      BY <2>1, <2>3, <2>4, TokensAddUp
    <2>8. new.used \in 0 .. Budget
      <3>1. Cost[c] \in Nat /\ acc.used + Cost[c] <= Budget
        BY <1>0, <1>4, <2>1 DEF Fits
      <3> QED BY <1>0, <2>3, <2>4, <3>1
    <2>9. ToSet(new.kept) = SeenBy(hs, n + 1)
      BY <1>4, <2>4, <2>6, SeenSteps DEF c
    <2>10. new = [kept |-> new.kept, used |-> new.used, full |-> new.full]
      BY <2>2, <2>3
    <2>11. Packs(hs, n + 1, new)
      BY <2>3, <2>5, <2>6, <2>7, <2>8, <2>9, <2>10 DEF Packs
    <2> QED BY <2>11 DEF new
  <1>5. CASE ~acc.full /\ There(hs, n + 1) /\ c \notin ToSet(acc.kept) /\ ~Fits(acc.used, c)
    <2>1. c \in Chunks
      BY <1>0, <1>5, HereIsAPassage DEF c
    <2>2. new = [acc EXCEPT !.full = TRUE]
      BY <1>1, <1>5
    <2>3. new = [kept |-> acc.kept, used |-> acc.used, full |-> TRUE]
      <3>1. acc = [kept |-> acc.kept, used |-> acc.used, full |-> acc.full]
        BY DEF Packs
      <3>2. new = [[kept |-> acc.kept, used |-> acc.used, full |-> acc.full] EXCEPT !.full = TRUE]
        BY <2>2, <3>1
      <3> QED BY <3>2
    <2>4. new.kept = acc.kept /\ new.used = acc.used /\ new.full = TRUE
      BY <2>3
    <2>5. /\ acc.kept \in Seq(Chunks) /\ IsInjective(acc.kept) /\ acc.used = Tokens(acc.kept)
          /\ acc.used \in 0 .. Budget /\ ToSet(acc.kept) = SeenBy(hs, n)
      BY <1>5 DEF Packs
    <2>6. Cost[c] \in Nat /\ acc.used + Cost[c] > Budget
      BY <1>0, <1>5, <2>1, <2>5 DEF Fits
    <2>7. n + 1 \in 1 .. n + 1 /\ n + 1 - 1 = n
      OBVIOUS
    <2>8. new = [kept |-> new.kept, used |-> new.used, full |-> new.full]
      BY <2>3, <2>4
    <2>9. There(hs, n + 1) /\ Here(hs, n + 1) \notin ToSet(new.kept)
          /\ new.used + Cost[Here(hs, n + 1)] > Budget /\ ToSet(new.kept) = SeenBy(hs, n + 1 - 1)
      BY <1>5, <2>4, <2>5, <2>6, <2>7 DEF c
    <2>10. \E m \in 1 .. n + 1 : /\ There(hs, m) /\ Here(hs, m) \notin ToSet(new.kept)
                                 /\ new.used + Cost[Here(hs, m)] > Budget
                                 /\ ToSet(new.kept) = SeenBy(hs, m - 1)
      BY <2>7, <2>9
    <2>11. new.kept \in Seq(Chunks) /\ IsInjective(new.kept) /\ new.used = Tokens(new.kept)
           /\ new.used \in 0 .. Budget
      BY <2>4, <2>5
    <2>12. Packs(hs, n + 1, new)
      BY <2>4, <2>8, <2>10, <2>11 DEF Packs
    <2> QED BY <2>12 DEF new
  <1>6. acc.full \in BOOLEAN
    BY DEF Packs
  <1> QED BY <1>2, <1>3, <1>4, <1>5, <1>6

\* What is in the prompt: every passage found or those looked at before one that no
\* longer fits.
LEMMA PackFacts ==
  ASSUME NEW hs \in Answers
  PROVE  /\ Pack(hs) \in Seq(Chunks) /\ IsInjective(Pack(hs)) /\ Tokens(Pack(hs)) \in 0 .. Budget
         /\ \/ ToSet(Pack(hs)) = SeenBy(hs, TopK * Len(hs))
            \/ \E m \in 1 .. TopK * Len(hs) :
                 /\ There(hs, m) /\ Here(hs, m) \notin ToSet(Pack(hs))
                 /\ Tokens(Pack(hs)) + Cost[Here(hs, m)] > Budget
                 /\ ToSet(Pack(hs)) = SeenBy(hs, m - 1)
  <1> DEFINE z == TopK * Len(hs)
             F == Looks(hs)
             N == {n \in Nat : n <= z => Packs(hs, n, F[n])}
  <1>1. hs \in Seq(Seq(Chunks)) /\ Len(hs) \in Nat
    BY DEF Answers
  <1>2. z \in Nat
    BY <1>1, GroundingAssumption
  <1>3. F[0] = Nobody /\ \A n \in 1 .. z : F[n] = Look(hs, n, F[n-1])
    BY <1>1, LookSteps
  <1>4. Len(hs) = 0 => z = 0
    BY GroundingAssumption
  <1> HIDE DEF z, F
  <1>5. 0 \in N
    <2>1. <<>> \in Seq(Chunks) /\ IsInjective(<<>>) /\ ToSet(<<>>) = {}
      BY DEF IsInjective, ToSet
    <2>2. SeenBy(hs, 0) = {}
      BY SeenSteps
    <2>3. Nobody = [kept |-> <<>>, used |-> 0, full |-> FALSE]
      BY DEF Nobody
    <2>4. Nobody.kept = <<>> /\ Nobody.used = 0 /\ Nobody.full = FALSE
      BY <2>3
    <2>5. 0 \in 0 .. Budget
      BY GroundingAssumption
    <2>6. Packs(hs, 0, Nobody)
      BY <2>1, <2>2, <2>3, <2>4, <2>5, TokensOfEmpty DEF Packs
    <2> QED BY <1>3, <2>6
  <1>6. ASSUME NEW n \in Nat, n \in N PROVE n + 1 \in N
    <2> SUFFICES ASSUME n + 1 <= z PROVE Packs(hs, n + 1, F[n + 1])
      OBVIOUS
    <2>1. n <= z /\ n + 1 \in 1 .. z /\ n + 1 - 1 = n /\ z # 0
      BY <1>2
    <2>2. Packs(hs, n, F[n]) /\ F[n + 1] = Look(hs, n + 1, F[n])
      BY <1>3, <1>6, <2>1
    <2> QED BY <1>4, <2>1, <2>2, LookKeeps
  <1>7. z \in N
    <2> HIDE DEF N
    <2> QED BY <1>2, <1>5, <1>6, SetInduction
  <1>8. Packs(hs, z, F[z])
    BY <1>2, <1>7
  <1>9. Pack(hs) = F[z].kept
    BY DEF Pack, F, z
  <1> DEFINE s == F[z].kept
             u == F[z].used
  <1>10. /\ s \in Seq(Chunks) /\ IsInjective(s) /\ Tokens(s) \in 0 .. Budget
         /\ \/ ToSet(s) = SeenBy(hs, z)
            \/ \E m \in 1 .. z :
                 /\ There(hs, m) /\ Here(hs, m) \notin ToSet(s)
                 /\ Tokens(s) + Cost[Here(hs, m)] > Budget
                 /\ ToSet(s) = SeenBy(hs, m - 1)
    BY <1>8 DEF Packs
  <1> QED BY <1>9, <1>10 DEF z

\* The first round is the best passage of each target.
LEMMA FirstRound ==
  ASSUME NEW hs \in Answers, NEW t \in DOMAIN hs
  PROVE  /\ InTurn(hs, t) = <<t, 1>> /\ t \in 1 .. TopK * Len(hs)
         /\ There(hs, t) <=> hs[t] # <<>>
         /\ Here(hs, t) = hs[t][1]
  <1>1. /\ hs \in Seq(Seq(Chunks)) /\ Len(hs) \in Nat \ {0} /\ t \in 1 .. Len(hs)
        /\ hs[t] \in Seq(Chunks)
    BY DEF Answers
  <1>2. 1 \in 1 .. TopK /\ (1 - 1) * Len(hs) + t = t
    BY <1>1, GroundingAssumption
  <1>3. InTurn(hs, t) = <<t, 1>> /\ t \in 1 .. TopK * Len(hs)
    BY <1>1, <1>2, TurnsAreTaken
  <1>4. Len(hs[t]) \in Nat /\ (Len(hs[t]) = 0 <=> hs[t] = <<>>)
    BY <1>1
  <1>5. There(hs, t) <=> 1 <= Len(hs[t])
    BY <1>3 DEF There
  <1> QED BY <1>3, <1>4, <1>5 DEF Here

\* Everything found has its look.
LEMMA EverythingIsSeen ==
  ASSUME NEW hs \in Answers, NEW t \in DOMAIN hs, NEW c \in ToSet(hs[t])
  PROVE  c \in SeenBy(hs, TopK * Len(hs))
  <1>1. /\ hs \in Seq(Seq(Chunks)) /\ Len(hs) \in Nat \ {0} /\ t \in 1 .. Len(hs)
        /\ hs[t] \in Seq(Chunks) /\ Len(hs[t]) <= TopK
    BY DEF Answers
  <1>2. PICK d \in DOMAIN hs[t] : hs[t][d] = c
    BY DEF ToSet
  <1>3. d \in 1 .. Len(hs[t]) /\ Len(hs[t]) \in Nat
    BY <1>1, <1>2
  <1>4. d \in 1 .. TopK
    BY <1>1, <1>3, GroundingAssumption
  <1> DEFINE n == (d - 1) * Len(hs) + t
  <1>5. n \in 1 .. TopK * Len(hs) /\ InTurn(hs, n) = <<t, d>>
    BY <1>1, <1>4, TurnsAreTaken
  <1> HIDE DEF n
  <1>6. There(hs, n) /\ Here(hs, n) = c
    BY <1>2, <1>3, <1>5 DEF There, Here
  <1> QED BY <1>5, <1>6 DEF SeenBy

\* While the first round lasts, what is seen are best passages.
LEMMA SeenInFirstRound ==
  ASSUME NEW hs \in Answers, NEW n \in Nat, n <= Len(hs), NEW c \in SeenBy(hs, n)
  PROVE  \E t \in DOMAIN hs : t <= n /\ hs[t] # <<>> /\ c = hs[t][1] /\ c \in ToSet(hs[t])
  <1>1. hs \in Seq(Seq(Chunks)) /\ Len(hs) \in Nat /\ DOMAIN hs = 1 .. Len(hs)
    BY DEF Answers
  <1>2. PICK k \in 1 .. n : There(hs, k) /\ c = Here(hs, k)
    BY DEF SeenBy
  <1>3. k \in DOMAIN hs /\ k \in Nat \ {0} /\ Len(hs) # 0
    BY <1>1
  <1>4. hs[k] # <<>> /\ c = hs[k][1]
    BY <1>2, <1>3, FirstRound
  <1>5. hs[k] \in Seq(Chunks)
    BY <1>1, <1>3
  <1>6. 1 \in DOMAIN hs[k]
    BY <1>4, <1>5
  <1>7. c \in ToSet(hs[k])
    BY <1>4, <1>6 DEF ToSet
  <1> QED BY <1>3, <1>4, <1>7

-----------------------------------------------------------------------------
(* The inductive invariant of Grounding *)

\* What is searched for, and how far the search is.
Searched ==
  /\ targets \in Seq(STRING) /\ ToSet(targets) \subseteq ToSet(Requirements) \cup ToSet(Skills)
  /\ phase = "match" => targets = <<>> /\ hits = <<>>
  /\ phase # "match" => Len(targets) >= Len(Skills)
  /\ hits \in Answers /\ \A t \in DOMAIN hits : IsInjective(hits[t])
  /\ Len(hits) <= Len(targets)
  /\ phase = "search" => Len(hits) < Len(targets)
  /\ phase = "pack" => Len(hits) = Len(targets)

\* The last answer is that of a search in the two lists that are kept.
LastSearch ==
  lists # NoLists => /\ lists.vec \in Vectors /\ lists.key \in Ranked
                     /\ hits # <<>> => Answered = Search(lists.vec, lists.key)

\* The prompt is what was packed, and the questions are those of its reply.
Prompted ==
  /\ sources \in Seq(Chunks) /\ IsInjective(sources)
  /\ phase \in {"match", "search", "pack"} => sources = <<>> /\ labels = <<>> /\ stored = <<>>
  /\ phase = "reply" /\ hits # <<>> => sources = Pack(hits) /\ Len(hits) = Len(targets)
  /\ labels \in Seq(Seq(Nat)) /\ Len(labels) <= MaxQuestions
  /\ stored \in Seq(Seq(Chunks)) /\ Len(stored) <= Len(labels)
  /\ phase = "reply" => Len(stored) = Len(labels)

\* None of the properties is inductive: where a prompt came from is what Searched,
\* LastSearch and Prompted remember.
GroundingIInv ==
  /\ phase \in {"match", "search", "pack", "reply", "ready", "failed"}
  /\ Supported /\ Searched /\ GapsAreUnsupported
  /\ LastSearch /\ Prompted /\ CitationsAreTheNamed

\* It holds at first, and every step preserves it.
LEMMA GroundingStarts == GroundingInit => GroundingIInv
  <1> SUFFICES ASSUME GroundingInit PROVE GroundingIInv
    OBVIOUS
  <1>0. /\ phase = "match" /\ targets = <<>> /\ lists = NoLists /\ hits = <<>> /\ sources = <<>>
        /\ labels = <<>> /\ stored = <<>>
    BY DEF GroundingInit
  <1>1. Supported
    BY DEF GroundingInit, Supported
  <1>2. Searched
    <2>1. ToSet(<<>>) = {} /\ <<>> \in Seq(STRING) /\ <<>> \in Seq(Seq(Chunks)) /\ Len(<<>>) = 0
      BY DEF ToSet
    <2>2. hits \in Answers /\ \A t \in DOMAIN hits : IsInjective(hits[t])
      BY <1>0, <2>1 DEF Answers
    <2> QED BY <1>0, <2>1, <2>2 DEF Searched
  <1>3. GapsAreUnsupported
    BY <1>0 DEF GapsAreUnsupported
  <1>4. LastSearch
    BY <1>0 DEF LastSearch
  <1>5. Prompted
    <2>1. /\ <<>> \in Seq(Chunks) /\ IsInjective(<<>>) /\ <<>> \in Seq(Seq(Nat)) /\ <<>> \in Seq(Seq(Chunks))
          /\ Len(<<>>) = 0 /\ MaxQuestions \in Nat
      BY GroundingAssumption DEF IsInjective
    <2> QED BY <1>0, <2>1 DEF Prompted
  <1>6. CitationsAreTheNamed
    BY <1>0 DEF CitationsAreTheNamed
  <1> QED BY <1>0, <1>1, <1>2, <1>3, <1>4, <1>5, <1>6 DEF GroundingIInv

-----------------------------------------------------------------------------
(* Steps of Grounding *)

\* GapsAreUnsupported, of what was searched for and of the support.
Listed(sup, tgs) ==
  LET n    == Len(tgs) - Len(Skills)
      bare == {i \in DOMAIN Requirements : \A s \in DOMAIN Skills : sup[i][s] < Supports}
  IN  \E at \in Bijection(1 .. n, bare) :
        /\ \A k \in 1 .. n : tgs[k] = Requirements[at[k]]
        /\ \A j, k \in 1 .. n : j < k =>
             \A s \in DOMAIN Skills : \E r \in DOMAIN Skills : sup[at[j]][s] <= sup[at[k]][r]

LEMMA GapsAreListed ==
  /\ GapsAreUnsupported <=>
       (phase # "match" /\ Len(targets) # Len(Skills) => Listed(support, targets))
  /\ GapsAreUnsupported' <=>
       (phase' # "match" /\ Len(targets') # Len(Skills) => Listed(support', targets'))
  <1>1. GapsAreUnsupported <=>
          (phase # "match" /\ Len(targets) # Len(Skills) => Listed(support, targets))
    BY DEF GapsAreUnsupported, Listed
  <1>2. GapsAreUnsupported' <=>
          (phase' # "match" /\ Len(targets') # Len(Skills) => Listed(support', targets'))
    BY DEF GapsAreUnsupported, Listed
  <1> QED BY <1>1, <1>2

LEMMA MatchStep ==
  ASSUME GroundingIInv, NEW described \in BOOLEAN, Match(described)
  PROVE  GroundingIInv'
  <1>0. /\ phase = "match" /\ targets' = (IF described THEN GapsFirst ELSE Skills)
        /\ phase' = (IF targets' = <<>> THEN "reply" ELSE "search")
        /\ support' = support /\ lists' = lists /\ hits' = hits /\ sources' = sources
        /\ labels' = labels /\ stored' = stored
    BY DEF Match
  <1>1. Supported /\ Searched /\ LastSearch /\ Prompted /\ CitationsAreTheNamed
    BY DEF GroundingIInv
  <1>2. hits = <<>> /\ sources = <<>> /\ labels = <<>> /\ stored = <<>>
    BY <1>0, <1>1 DEF Searched, Prompted
  <1>3. /\ Skills \in Seq(STRING) /\ Len(Skills) \in Nat /\ Requirements \in Seq(STRING)
        /\ Gaps \in Seq(STRING) /\ Len(Gaps) \in Nat
        /\ \A k \in DOMAIN Gaps : Gaps[k] \in ToSet(Requirements)
    BY <1>1, GapsFacts, GroundingAssumption
  <1>4. /\ GapsFirst \in Seq(STRING) /\ Len(GapsFirst) = Len(Gaps) + Len(Skills)
        /\ ToSet(GapsFirst) = ToSet(Gaps) \cup ToSet(Skills)
        /\ \A k \in 1 .. Len(Gaps) : GapsFirst[k] = Gaps[k]
    BY <1>3, Joined DEF GapsFirst
  <1>5. /\ targets' \in Seq(STRING) /\ Len(targets') >= Len(Skills) /\ Len(targets') \in Nat
        /\ ToSet(targets') \subseteq ToSet(Requirements) \cup ToSet(Skills)
    <2>1. ToSet(Gaps) \subseteq ToSet(Requirements)
      BY <1>3 DEF ToSet
    <2>2. CASE described
      BY <1>0, <1>3, <1>4, <2>1, <2>2
    <2>3. CASE ~described
      BY <1>0, <1>3, <2>3
    <2> QED BY <2>2, <2>3
  <1>6. phase' \in {"search", "reply"} /\ (phase' = "search" => Len(targets') > 0)
    <2>1. targets' # <<>> => Len(targets') > 0
      BY <1>5
    <2> QED BY <1>0, <2>1
  <1>7. Supported'
    BY <1>0, <1>1 DEF Supported
  <1>8. Searched'
    <2>1. Len(<<>>) = 0
      OBVIOUS
    <2>2. hits' = hits /\ hits \in Answers /\ \A t \in DOMAIN hits : IsInjective(hits[t])
      BY <1>0, <1>1 DEF Searched
    <2>3. Len(hits') = 0
      BY <1>0, <1>2, <2>1
    <2> QED BY <1>5, <1>6, <2>2, <2>3 DEF Searched
  <1>9. GapsAreUnsupported'
    <2> SUFFICES ASSUME Len(targets') # Len(Skills) PROVE Listed(support', targets')
      BY GapsAreListed
    <2>1. targets' = GapsFirst
      BY <1>0
    <2>2. Len(targets') - Len(Skills) = Len(Gaps)
      BY <1>3, <1>4, <2>1
    <2> DEFINE bare == {i \in DOMAIN Requirements : \A s \in DOMAIN Skills : support[i][s] < Supports}
    <2>3. PICK at \in Bijection(1 .. Len(Gaps), bare) :
            /\ \A k \in 1 .. Len(Gaps) : Gaps[k] = Requirements[at[k]]
            /\ \A j, k \in 1 .. Len(Gaps) : j < k =>
                 \A s \in DOMAIN Skills : \E r \in DOMAIN Skills : support[at[j]][s] <= support[at[k]][r]
      BY <1>1, GapsFacts
    <2>4. \A k \in 1 .. Len(Gaps) : targets'[k] = Requirements[at[k]]
      BY <1>4, <2>1, <2>3
    <2> DEFINE n == Len(targets') - Len(Skills)
    <2>5. n = Len(Gaps)
      BY <2>2
    <2> HIDE DEF n, bare
    <2>6. \E f \in Bijection(1 .. n, bare) :
            /\ \A k \in 1 .. n : targets'[k] = Requirements[f[k]]
            /\ \A j, k \in 1 .. n : j < k =>
                 \A s \in DOMAIN Skills : \E r \in DOMAIN Skills : support[f[j]][s] <= support[f[k]][r]
      <3>1. at \in Bijection(1 .. n, bare) /\ \A k \in 1 .. n : targets'[k] = Requirements[at[k]]
        BY <2>3, <2>4, <2>5
      <3>2. \A j, k \in 1 .. n : j < k =>
              \A s \in DOMAIN Skills : \E r \in DOMAIN Skills : support[at[j]][s] <= support[at[k]][r]
        BY <2>3, <2>5
      <3> QED BY <3>1, <3>2
    <2>7. Listed(support, targets')
      BY <2>6 DEF Listed, n, bare
    <2> QED BY <1>0, <2>7
  <1>10. LastSearch'
    BY <1>0, <1>1, <1>2 DEF LastSearch, Answered
  <1>11. Prompted'
    BY <1>0, <1>1, <1>2 DEF Prompted
  <1>12. CitationsAreTheNamed'
    BY <1>0, <1>2 DEF CitationsAreTheNamed
  <1> QED BY <1>6, <1>7, <1>8, <1>9, <1>10, <1>11, <1>12 DEF GroundingIInv

LEMMA RetrieveStep ==
  ASSUME GroundingIInv, NEW vec \in Vectors, NEW key \in Ranked, Retrieve(vec, key)
  PROVE  GroundingIInv'
  <1> DEFINE s == Search(vec, key)
  <1>0. /\ phase = "search" /\ lists' = [vec |-> vec, key |-> key] /\ hits' = Append(hits, s)
        /\ phase' = (IF Len(hits') = Len(targets) THEN "pack" ELSE phase)
        /\ support' = support /\ targets' = targets /\ sources' = sources
        /\ labels' = labels /\ stored' = stored
    BY DEF Retrieve
  <1>1. Supported /\ Searched /\ LastSearch /\ Prompted /\ CitationsAreTheNamed /\ GapsAreUnsupported
    BY DEF GroundingIInv
  <1>2. s \in Seq(Chunks) /\ Len(s) <= TopK /\ IsInjective(s)
    <2>1. s \in Seq(Chunks) /\ Len(s) \in 0 .. TopK /\ IsInjective(s) /\ TopK \in Nat
      BY AnswerType, GroundingAssumption
    <2> QED BY <2>1
  <1> HIDE DEF s
  <1>3. /\ hits \in Answers /\ Len(hits) < Len(targets) /\ Len(hits) \in Nat /\ Len(targets) \in Nat
        /\ hits \in Seq(Seq(Chunks)) /\ \A t \in DOMAIN hits : IsInjective(hits[t])
    BY <1>0, <1>1 DEF Searched, Answers
  <1>4. /\ hits' \in Seq(Seq(Chunks)) /\ Len(hits') = Len(hits) + 1 /\ hits' # <<>>
        /\ DOMAIN hits' = DOMAIN hits \cup {Len(hits')} /\ hits'[Len(hits')] = s
        /\ \A t \in DOMAIN hits : hits'[t] = hits[t]
    <2> DEFINE h == Append(hits, s)
               S == Seq(Chunks)
    <2>1. hits \in Seq(S) /\ s \in S
      BY <1>2, <1>3
    <2> HIDE DEF S
    <2>2. /\ h \in Seq(S) /\ Len(h) = Len(hits) + 1 /\ h[Len(hits) + 1] = s
          /\ DOMAIN h = 1 .. Len(hits) + 1 /\ DOMAIN hits = 1 .. Len(hits)
          /\ \A t \in 1 .. Len(hits) : h[t] = hits[t]
      BY <2>1
    <2>3. 1 .. Len(hits) + 1 = (1 .. Len(hits)) \cup {Len(hits) + 1}
      BY <1>3
    <2>4. h # <<>>
      BY <1>3, <2>2
    <2> HIDE DEF h
    <2>5. hits' = h
      BY <1>0 DEF h
    <2> QED BY <2>2, <2>3, <2>4, <2>5 DEF S
  <1>5. hits' \in Answers /\ \A t \in DOMAIN hits' : IsInjective(hits'[t])
    BY <1>2, <1>3, <1>4 DEF Answers
  <1>6. /\ Len(hits') <= Len(targets) /\ phase' \in {"pack", "search"}
        /\ phase' = "search" => Len(hits') < Len(targets)
        /\ phase' = "pack" => Len(hits') = Len(targets)
    BY <1>0, <1>3, <1>4
  <1>7. Supported'
    BY <1>0, <1>1 DEF Supported
  <1>8. Searched'
    <2>1. phase' # "match" /\ Len(targets) >= Len(Skills) /\ targets \in Seq(STRING)
          /\ ToSet(targets) \subseteq ToSet(Requirements) \cup ToSet(Skills)
      BY <1>0, <1>1, <1>6 DEF Searched
    <2> QED BY <1>0, <1>5, <1>6, <2>1 DEF Searched
  <1>9. GapsAreUnsupported'
    BY <1>0, <1>1, GapsAreListed
  <1>10. LastSearch'
    <2>1. lists'.vec = vec /\ lists'.key = key
      BY <1>0
    <2>2. Last(hits') = s
      BY <1>4 DEF Last
    <2> QED BY <2>1, <2>2 DEF LastSearch, Answered, s
  <1>11. Prompted'
    BY <1>0, <1>1, <1>6 DEF Prompted
  <1>12. CitationsAreTheNamed'
    BY <1>0, <1>1 DEF CitationsAreTheNamed
  <1> QED BY <1>6, <1>7, <1>8, <1>9, <1>10, <1>11, <1>12 DEF GroundingIInv

LEMMA BuildStep ==
  ASSUME GroundingIInv, Build
  PROVE  GroundingIInv'
  <1>0. /\ phase = "pack" /\ phase' = "reply" /\ sources' = Pack(hits) /\ lists' = NoLists
        /\ support' = support /\ targets' = targets /\ hits' = hits
        /\ labels' = labels /\ stored' = stored
    BY DEF Build
  <1>1. Supported /\ Searched /\ Prompted /\ GapsAreUnsupported
    BY DEF GroundingIInv
  <1>2. labels = <<>> /\ stored = <<>>
    BY <1>0, <1>1 DEF Prompted
  <1>3. hits \in Answers /\ Len(hits) = Len(targets)
    BY <1>0, <1>1 DEF Searched
  <1>4. Supported' /\ GapsAreUnsupported'
    BY <1>0, <1>1, GapsAreListed DEF Supported
  <1>5. Searched'
    BY <1>0, <1>1 DEF Searched
  <1>6. LastSearch'
    BY <1>0 DEF LastSearch
  <1>7. Prompted'
    <2>1. Pack(hits) \in Seq(Chunks) /\ IsInjective(Pack(hits))
      BY <1>3, PackFacts
    <2>2. Pack(hits)' = Pack(hits')
      BY DEF Pack, Looks, Look, InTurn, Fits
    <2>3. Pack(hits') = Pack(hits)
      BY <1>0
    <2> QED BY <1>0, <1>1, <1>2, <1>3, <2>1, <2>2, <2>3 DEF Prompted
  <1>8. CitationsAreTheNamed'
    BY <1>0, <1>2 DEF CitationsAreTheNamed
  <1> QED BY <1>0, <1>4, <1>5, <1>6, <1>7, <1>8 DEF GroundingIInv

\* The steps that write questions leave the search as it was.
LEMMA QuestionStep ==
  ASSUME GroundingIInv, NEW ls \in LabelLists, Question(ls)
  PROVE  GroundingIInv'
  <1> DEFINE ids == IF sources = <<>> THEN <<>> ELSE ChunkIds(ls)
  <1>0. /\ phase = "reply" /\ Len(labels) < MaxQuestions /\ labels' = Append(labels, ls) /\ hits' = <<>>
        /\ \/ (sources = <<>> \/ Given(ls)) /\ stored' = Append(stored, ids) /\ phase' = phase
           \/ phase' = "failed" /\ stored' = stored
        /\ support' = support /\ targets' = targets /\ lists' = lists /\ sources' = sources
    BY DEF Question
  <1>1. Supported /\ Searched /\ LastSearch /\ Prompted /\ CitationsAreTheNamed /\ GapsAreUnsupported
    BY DEF GroundingIInv
  <1>2. ls \in Seq(Nat)
    <2>2. Cardinality(Chunks) \in Nat
      BY FS_CardinalityType, GroundingAssumption
    <2> DEFINE n == Cardinality(Chunks) + 1
    <2>3. n \in Nat
      BY <2>2
    <2> HIDE DEF n
    <2>4. \A i \in Nat : <<i>> \in Seq(Nat) /\ <<i, 1>> \in Seq(Nat)
      OBVIOUS
    <2>5. ls = <<>> \/ (\E i \in 1 .. n : ls = <<i>>) \/ (\E i \in 2 .. n : ls = <<i, 1>>)
      BY DEF LabelLists, n
    <2>6. \A i \in 1 .. n : i \in Nat
      BY <2>3
    <2>7. \A i \in 2 .. n : i \in Nat
      BY <2>3
    <2>8. <<>> \in Seq(Nat)
      OBVIOUS
    <2>9. CASE ls = <<>>
      BY <2>8, <2>9
    <2>10. CASE \E i \in 1 .. n : ls = <<i>>
      BY <2>4, <2>6, <2>10
    <2>11. CASE \E i \in 2 .. n : ls = <<i, 1>>
      BY <2>4, <2>7, <2>11
    <2> QED BY <2>5, <2>9, <2>10, <2>11
  <1>3. /\ sources \in Seq(Chunks) /\ labels \in Seq(Seq(Nat)) /\ stored \in Seq(Seq(Chunks))
        /\ Len(labels) \in Nat /\ Len(stored) = Len(labels) /\ MaxQuestions \in Nat
    BY <1>0, <1>1, GroundingAssumption DEF Prompted
  <1>4. /\ labels' \in Seq(Seq(Nat)) /\ Len(labels') = Len(labels) + 1 /\ labels'[Len(labels) + 1] = ls
        /\ \A q \in 1 .. Len(labels) : labels'[q] = labels[q]
    <2> DEFINE S == Seq(Nat)
    <2>1. labels \in Seq(S) /\ ls \in S
      BY <1>2, <1>3
    <2> HIDE DEF S
    <2>2. /\ Append(labels, ls) \in Seq(S) /\ Len(Append(labels, ls)) = Len(labels) + 1
          /\ Append(labels, ls)[Len(labels) + 1] = ls
          /\ \A q \in 1 .. Len(labels) : Append(labels, ls)[q] = labels[q]
      BY <2>1
    <2> QED BY <1>0, <2>2 DEF S
  <1>5. ASSUME sources = <<>> \/ Given(ls)
        PROVE  /\ ids \in Seq(Chunks)
               /\ sources # <<>> => /\ Len(ids) = Len(ls)
                                    /\ \A i \in DOMAIN ids : ids[i] = sources[ls[i]]
    <2>1. CASE sources = <<>>
      <3>1. <<>> \in Seq(Chunks)
        OBVIOUS
      <3> QED BY <2>1, <3>1
    <2>2. CASE sources # <<>>
      <3>1. ids = [i \in DOMAIN ls |-> sources[ls[i]]]
        BY <2>2 DEF ChunkIds
      <3>2. DOMAIN ls = 1 .. Len(ls) /\ Len(ls) \in Nat
        BY <1>2
      <3>3. \A i \in DOMAIN ls : sources[ls[i]] \in Chunks
        BY <1>3, <1>5, <2>2 DEF Given
      <3> HIDE DEF ids
      <3>4. ids \in [1 .. Len(ls) -> Chunks]
        BY <3>1, <3>2, <3>3
      <3>5. ids \in Seq(Chunks) /\ Len(ids) = Len(ls)
        BY <3>2, <3>4
      <3> QED BY <3>1, <3>5
    <2> QED BY <2>1, <2>2
  <1> HIDE DEF ids
  <1> DEFINE Cites(st, lb) == Len(st) = Len(lb) /\ \A i \in DOMAIN st : st[i] = sources[lb[i]]
  <1>6. \A q \in DOMAIN stored : sources # <<>> => Cites(stored[q], labels[q])
    BY <1>1 DEF CitationsAreTheNamed
  <1> HIDE DEF Cites
  <1>7. Supported' /\ GapsAreUnsupported'
    BY <1>0, <1>1, GapsAreListed DEF Supported
  <1>8. Searched'
    <2>1. <<>> \in Answers /\ Len(<<>>) = 0 /\ \A t \in DOMAIN <<>> : IsInjective(<<>>[t])
      BY DEF Answers
    <2>2. Len(targets) \in Nat
      BY <1>1 DEF Searched
    <2>3. phase' \notin {"match", "search", "pack"}
      BY <1>0
    <2> QED BY <1>0, <1>1, <2>1, <2>2, <2>3 DEF Searched
  <1>9. LastSearch'
    BY <1>0, <1>1 DEF LastSearch
  <1>10. CASE (sources = <<>> \/ Given(ls)) /\ stored' = Append(stored, ids) /\ phase' = phase
    <2>1. /\ stored' \in Seq(Seq(Chunks)) /\ Len(stored') = Len(stored) + 1
          /\ stored'[Len(stored) + 1] = ids /\ DOMAIN stored' = 1 .. Len(stored) + 1
          /\ \A q \in 1 .. Len(stored) : stored'[q] = stored[q]
      <3> DEFINE S == Seq(Chunks)
      <3>1. stored \in Seq(S) /\ ids \in S
        BY <1>3, <1>5, <1>10
      <3> HIDE DEF S
      <3>2. /\ Append(stored, ids) \in Seq(S) /\ Len(Append(stored, ids)) = Len(stored) + 1
            /\ Append(stored, ids)[Len(stored) + 1] = ids
            /\ DOMAIN Append(stored, ids) = 1 .. Len(stored) + 1
            /\ \A q \in 1 .. Len(stored) : Append(stored, ids)[q] = stored[q]
        BY <3>1
      <3> QED BY <1>10, <3>2 DEF S
    <2>2. Prompted'
      <3>1. Len(labels') <= MaxQuestions /\ Len(stored') = Len(labels') /\ Len(stored') <= Len(labels')
        BY <1>0, <1>3, <1>4, <2>1
      <3>2. phase' = "reply"
        BY <1>0, <1>10
      <3> QED BY <1>0, <1>1, <1>4, <2>1, <3>1, <3>2 DEF Prompted
    <2>3. CitationsAreTheNamed'
      <3> SUFFICES ASSUME NEW q \in DOMAIN stored', sources # <<>>
                   PROVE  /\ Len(stored'[q]) = Len(labels'[q])
                          /\ \A i \in DOMAIN stored'[q] : stored'[q][i] = sources[labels'[q][i]]
        BY <1>0 DEF CitationsAreTheNamed
      <3>1. CASE q = Len(stored) + 1
        BY <1>3, <1>4, <1>5, <1>10, <2>1, <3>1
      <3>2. CASE q # Len(stored) + 1
        <4>1. q \in 1 .. Len(stored) /\ q \in DOMAIN stored
          BY <1>3, <2>1, <3>2
        <4>2. stored'[q] = stored[q] /\ labels'[q] = labels[q]
          BY <1>3, <1>4, <2>1, <4>1
        <4>3. Cites(stored[q], labels[q])
          BY <1>6, <4>1
        <4> QED BY <4>2, <4>3 DEF Cites
      <3> QED BY <3>1, <3>2
    <2>4. phase' \in {"match", "search", "pack", "reply", "ready", "failed"}
      BY <1>0, <1>10
    <2> QED BY <1>7, <1>8, <1>9, <2>2, <2>3, <2>4 DEF GroundingIInv
  <1>11. CASE phase' = "failed" /\ stored' = stored
    <2>1. Prompted'
      <3>1. Len(labels') <= MaxQuestions /\ Len(stored') <= Len(labels')
        BY <1>0, <1>3, <1>4, <1>11
      <3> QED BY <1>0, <1>1, <1>4, <1>11, <3>1 DEF Prompted
    <2>2. CitationsAreTheNamed'
      <3> SUFFICES ASSUME NEW q \in DOMAIN stored, sources # <<>>
                   PROVE  /\ Len(stored[q]) = Len(labels'[q])
                          /\ \A i \in DOMAIN stored[q] : stored[q][i] = sources[labels'[q][i]]
        BY <1>0, <1>11 DEF CitationsAreTheNamed
      <3>1. labels'[q] = labels[q]
        BY <1>3, <1>4
      <3>2. Cites(stored[q], labels[q])
        BY <1>6
      <3> QED BY <3>1, <3>2 DEF Cites
    <2> QED BY <1>7, <1>8, <1>9, <1>11, <2>1, <2>2 DEF GroundingIInv
  <1> QED BY <1>0, <1>10, <1>11

LEMMA LastStep ==
  ASSUME GroundingIInv, Finish \/ UNCHANGED groundingVars
  PROVE  GroundingIInv'
  <1>0. /\ phase' = phase \/ (phase = "reply" /\ phase' = "ready")
        /\ support' = support /\ targets' = targets /\ lists' = lists /\ hits' = hits
        /\ sources' = sources /\ labels' = labels /\ stored' = stored
    BY DEF Finish, groundingVars
  <1>1. Supported /\ Searched /\ LastSearch /\ Prompted /\ CitationsAreTheNamed /\ GapsAreUnsupported
        /\ phase \in {"match", "search", "pack", "reply", "ready", "failed"}
    BY DEF GroundingIInv
  <1>2. Supported' /\ GapsAreUnsupported'
    BY <1>0, <1>1, GapsAreListed DEF Supported
  <1>3. Searched'
    BY <1>0, <1>1 DEF Searched
  <1>4. LastSearch'
    <2>1. Answered' = Answered
      BY <1>0 DEF Answered
    <2> QED BY <1>0, <1>1, <2>1 DEF LastSearch
  <1>5. Prompted'
    BY <1>0, <1>1 DEF Prompted
  <1>6. CitationsAreTheNamed'
    BY <1>0, <1>1 DEF CitationsAreTheNamed
  <1> QED BY <1>0, <1>1, <1>2, <1>3, <1>4, <1>5, <1>6 DEF GroundingIInv

LEMMA GroundingHolds == GroundingSpec => []GroundingIInv
  <1>1. GroundingIInv /\ [GroundingNext]_groundingVars => GroundingIInv'
    <2> SUFFICES ASSUME GroundingIInv, [GroundingNext]_groundingVars PROVE GroundingIInv'
      OBVIOUS
    <2>1. ASSUME NEW described \in BOOLEAN, Match(described) PROVE GroundingIInv'
      BY <2>1, MatchStep
    <2>2. ASSUME NEW vec \in Vectors, NEW key \in Ranked, Retrieve(vec, key) PROVE GroundingIInv'
      BY <2>2, RetrieveStep
    <2>3. ASSUME NEW ls \in LabelLists, Question(ls) PROVE GroundingIInv'
      BY <2>3, QuestionStep
    <2> QED BY <2>1, <2>2, <2>3, BuildStep, LastStep DEF GroundingNext
  <1> QED BY <1>1, GroundingStarts, PTL DEF GroundingSpec

-----------------------------------------------------------------------------
(* Theorems about Grounding *)

\* The prompt of a state that asks is what its answers pack into.
LEMMA AskedFacts ==
  ASSUME GroundingIInv, Asked
  PROVE  /\ hits \in Answers /\ sources = Pack(hits)
         /\ Len(hits) = Len(targets) /\ Len(targets) \in Nat
         /\ Len(Skills) \in Nat /\ Len(targets) >= Len(Skills)
         /\ DOMAIN hits = 1 .. Len(hits)
  BY GroundingAssumption DEF GroundingIInv, Asked, Prompted, Searched, Answers

LEMMA GapsComeFirst == ASSUME GroundingIInv, Asked PROVE SkillsGoFirst
  <1> DEFINE gaps == 1 .. Len(targets) - Len(Skills)
  <1>1. /\ hits \in Answers /\ sources = Pack(hits) /\ DOMAIN hits = 1 .. Len(hits)
        /\ Len(hits) \in Nat /\ gaps \subseteq DOMAIN hits
    BY AskedFacts
  <1> SUFFICES ASSUME NEW g \in gaps, hits[g] # <<>>, ToSet(hits[g]) \cap ToSet(sources) = {}
               PROVE  ToSet(sources) \subseteq UNION {ToSet(hits[i]) : i \in gaps}
    BY DEF SkillsGoFirst
  <1>2. g \in DOMAIN hits /\ g \in Nat \ {0} /\ g <= Len(hits)
    BY <1>1
  <1>3. /\ hits[g][1] \notin ToSet(sources)
        /\ There(hits, g) /\ Here(hits, g) = hits[g][1] /\ g \in 1 .. TopK * Len(hits)
    <2>1. There(hits, g) /\ Here(hits, g) = hits[g][1] /\ g \in 1 .. TopK * Len(hits) /\ InTurn(hits, g) = <<g, 1>>
      BY <1>1, <1>2, FirstRound
    <2>2. Here(hits, g) \in ToSet(hits[g])
      BY <1>1, <1>2, <2>1, HereIsAPassage
    <2> QED BY <2>1, <2>2
  <1>4. PICK m \in 1 .. TopK * Len(hits) : ToSet(sources) = SeenBy(hits, m - 1)
    <2>1. hits[g][1] \in SeenBy(hits, TopK * Len(hits))
      BY <1>3 DEF SeenBy
    <2> QED BY <1>1, <1>3, <2>1, PackFacts
  <1>5. m <= g /\ m \in Nat \ {0}
    <2>1. m \in Nat \ {0}
      BY <1>1, GroundingAssumption
    <2> SUFFICES ASSUME m > g PROVE FALSE
      BY <1>2, <2>1
    <2>2. g \in 1 .. m - 1
      BY <1>2, <2>1
    <2>3. hits[g][1] \in SeenBy(hits, m - 1)
      BY <1>3, <2>2 DEF SeenBy
    <2> QED BY <1>3, <1>4, <2>3
  <1>6. ASSUME NEW c \in ToSet(sources) PROVE c \in UNION {ToSet(hits[i]) : i \in gaps}
    <2>1. m - 1 \in Nat /\ m - 1 <= Len(hits) /\ m - 1 < g
      BY <1>1, <1>2, <1>5
    <2> DEFINE n == m - 1
    <2>2. c \in SeenBy(hits, n) /\ n \in Nat /\ n <= Len(hits)
      BY <1>4, <2>1
    <2> HIDE DEF n
    <2>3. PICK t \in DOMAIN hits : t <= n /\ c \in ToSet(hits[t])
      BY <1>1, <2>2, SeenInFirstRound
    <2>4. t \in gaps
      <3>1. n < g
        BY <2>1 DEF n
      <3> QED BY <1>1, <2>2, <2>3, <3>1, AskedFacts
    <2> QED BY <2>3, <2>4
  <1> QED BY <1>6

LEMMA TurnsAreShared == ASSUME GroundingIInv, Asked PROVE SharedInTurns
  <1> DEFINE firsts == {hits[t][1] : t \in {u \in DOMAIN hits : hits[u] # <<>>}}
  <1>1. /\ hits \in Answers /\ sources = Pack(hits) /\ DOMAIN hits = 1 .. Len(hits) /\ Len(hits) \in Nat
    BY AskedFacts
  <1> SUFFICES ASSUME NEW f \in firsts, f \notin ToSet(sources) PROVE ToSet(sources) \subseteq firsts
    BY DEF SharedInTurns
  <1>2. PICK g \in DOMAIN hits : hits[g] # <<>> /\ f = hits[g][1]
    OBVIOUS
  <1>3. There(hits, g) /\ Here(hits, g) = f /\ g \in 1 .. TopK * Len(hits)
    BY <1>1, <1>2, FirstRound
  <1>4. PICK m \in 1 .. TopK * Len(hits) : ToSet(sources) = SeenBy(hits, m - 1)
    <2>1. f \in SeenBy(hits, TopK * Len(hits))
      BY <1>3 DEF SeenBy
    <2> QED BY <1>1, <2>1, PackFacts
  <1>5. m <= g /\ m \in Nat \ {0}
    <2>1. m \in Nat \ {0} /\ g \in Nat \ {0}
      BY <1>1, GroundingAssumption
    <2> SUFFICES ASSUME m > g PROVE FALSE
      BY <2>1
    <2>2. g \in 1 .. m - 1
      BY <2>1
    <2>3. f \in SeenBy(hits, m - 1)
      BY <1>3, <2>2 DEF SeenBy
    <2> QED BY <1>4, <2>3
  <1>6. ASSUME NEW c \in ToSet(sources) PROVE c \in firsts
    <2> DEFINE n == m - 1
    <2>1. c \in SeenBy(hits, n) /\ n \in Nat /\ n <= Len(hits)
      BY <1>1, <1>4, <1>5
    <2> HIDE DEF n
    <2>2. PICK t \in DOMAIN hits : hits[t] # <<>> /\ c = hits[t][1]
      BY <1>1, <2>1, SeenInFirstRound
    <2> QED BY <2>2
  <1> QED BY <1>6

LEMMA NothingMoreFits == ASSUME GroundingIInv, Asked PROVE BudgetIsKept
  <1> DEFINE all == UNION {ToSet(h) : h \in ToSet(hits)}
  <1>1. /\ hits \in Answers /\ sources = Pack(hits) /\ DOMAIN hits = 1 .. Len(hits) /\ Len(hits) \in Nat
    BY AskedFacts
  <1>2. Tokens(sources) <= Budget
    BY <1>1, PackFacts, GroundingAssumption
  <1>3. ASSUME NEW c \in all \ ToSet(sources)
        PROVE  \E b \in all \ ToSet(sources) : Tokens(sources) + Cost[b] > Budget
    <2>1. PICK t \in DOMAIN hits : c \in ToSet(hits[t])
      BY DEF ToSet
    <2>2. c \in SeenBy(hits, TopK * Len(hits))
      BY <1>1, <2>1, EverythingIsSeen
    <2>3. PICK m \in 1 .. TopK * Len(hits) :
            /\ There(hits, m) /\ Here(hits, m) \notin ToSet(sources)
            /\ Tokens(sources) + Cost[Here(hits, m)] > Budget
      BY <1>1, <1>3, <2>2, PackFacts
    <2>4. m \in Nat \ {0} /\ Len(hits) # 0
      BY <1>1, <2>1, GroundingAssumption
    <2>5. InTurn(hits, m)[1] \in DOMAIN hits /\ Here(hits, m) \in ToSet(hits[InTurn(hits, m)[1]])
      BY <1>1, <2>3, <2>4, HereIsAPassage
    <2>6. Here(hits, m) \in all
      BY <2>5 DEF ToSet
    <2> QED BY <2>3, <2>6
  <1>4. all \ ToSet(sources) # {} => \E b \in all \ ToSet(sources) : Tokens(sources) + Cost[b] > Budget
    BY <1>3
  <1> HIDE DEF all
  <1> QED BY <1>2, <1>4 DEF BudgetIsKept, all

\* Whatever is searched for and found, in lists of any length: the requirements' passages
\* come before the skills', no target gets a second before all have their first, and the
\* budget is kept and used up (build_context).
THEOREM BudgetShared == GroundingSpec => []BudgetIsShared
  <1>1. GroundingIInv => BudgetIsShared
    <2> SUFFICES ASSUME GroundingIInv PROVE BudgetIsShared
      OBVIOUS
    <2>1. CASE Asked
      BY <2>1, GapsComeFirst, TurnsAreShared, NothingMoreFits DEF BudgetIsShared
    <2>2. CASE ~Asked
      BY <2>2 DEF BudgetIsShared, SkillsGoFirst, SharedInTurns, BudgetIsKept
    <2> QED BY <2>1, <2>2
  <1> QED BY <1>1, GroundingHolds, PTL

\* Rank fusion over any two lists respects what the retrievers agree on (search).
THEOREM DominanceKept == GroundingSpec => []FusionKeepsDominance
  <1>1. GroundingIInv => FusionKeepsDominance
    <2> SUFFICES ASSUME GroundingIInv, lists # NoLists, hits # <<>>,
                        NEW a \in Chunks, NEW b \in ToSet(Answered),
                        Place(Retrieved(lists.vec), a) <= Place(Retrieved(lists.vec), b),
                        Place(lists.key, a) <= Place(lists.key, b),
                        \/ Place(Retrieved(lists.vec), a) < Place(Retrieved(lists.vec), b)
                        \/ Place(lists.key, a) < Place(lists.key, b)
                 PROVE  a \in ToSet(Answered) /\ RankIn(Answered, a) < RankIn(Answered, b)
      BY DEF FusionKeepsDominance
    <2>1. lists.vec \in Vectors /\ lists.key \in Ranked /\ Answered = Search(lists.vec, lists.key)
      BY DEF GroundingIInv, LastSearch
    <2> QED BY <2>1, FusionIsFair
  <1> QED BY <1>1, GroundingHolds, PTL

\* No list is a list.
LEMMA EmptyIsRanked == <<>> \in Ranked
  <1>1. <<>> \in [1 .. 0 -> Chunks] /\ 0 \in 0 .. Pool /\ IsInjective(<<>>)
    BY GroundingAssumption DEF IsInjective
  <1> QED BY <1>1 DEF Ranked

\* A covered query is hidden by keywords only, the requirements searched for are the
\* unsupported ones, and a question cites what it names: for any job, resume and corpus.
THEOREM GroundingIsSound == GroundingSpec => []GroundingInv
  <1>1. GroundingIInv => GroundingInv
    <2> SUFFICES ASSUME GroundingIInv PROVE GroundingInv
      OBVIOUS
    <2>0. Supported /\ Searched /\ LastSearch /\ Prompted /\ CitationsAreTheNamed /\ GapsAreUnsupported
      BY DEF GroundingIInv
    <2>1. OnlyKeywordsHideAHit
      <3> SUFFICES ASSUME lists # NoLists, hits # <<>>
                   PROVE  LET close == {i \in DOMAIN lists.vec : lists.vec[i].sim >= Floor}
                              rest  == {c \in ToSet(lists.key) : Similarity(lists.vec, c) < Floor}
                          IN  /\ Answered = <<>> /\ close # {} => Cardinality(rest) >= TopK
                              /\ Answered # <<>> => close # {}
        BY DEF OnlyKeywordsHideAHit
      <3>1. lists.vec \in Vectors /\ lists.key \in Ranked /\ Answered = Search(lists.vec, lists.key)
        BY <2>0 DEF LastSearch
      <3> QED BY <3>1, HiddenByKeywords
    <2>2. (lists.vec = <<>> \/ lists.vec \in Vectors) /\ lists.key \in Ranked
      BY <2>0, EmptyIsRanked DEF LastSearch, NoLists
    <2>3. \A h \in ToSet(hits) : h \in Seq(Chunks) /\ Len(h) <= TopK /\ IsInjective(h)
      BY <2>0 DEF Searched, Answers, ToSet
    <2>4. GroundingTypes
      BY <2>0, <2>2, <2>3 DEF GroundingTypes, GroundingIInv, Supported, Searched, Prompted
    <2> QED BY <2>0, <2>1, <2>4 DEF GroundingInv
  <1> QED BY <1>1, GroundingHolds, PTL

-----------------------------------------------------------------------------
(* Fences *)

\* The fence after a line is that of the line before, changed by the line.
Fenced == {Open} \cup FenceMarks

LEMMA FencesAre ==
  ASSUME NEW d, NEW first
  PROVE  FencesFrom(d, first) =
           CHOOSE F : F = [n \in 0 .. Len(d) |-> IF n < first THEN Open ELSE Fence(F[n-1], d[n])]
  BY DEF FencesFrom

\* The fence, line by line.
LEMMA FenceSteps ==
  ASSUME NEW d \in Seq(Kinds), NEW first \in Nat \ {0}, NEW n \in 0 .. Len(d)
  PROVE  /\ FencesFrom(d, first)[n] \in Fenced
         /\ n < first => FencesFrom(d, first)[n] = Open
         /\ n >= first => FencesFrom(d, first)[n] = Fence(FencesFrom(d, first)[n-1], d[n])
  <1> DEFINE N == Len(d)
             G == [k \in 1 .. N |-> [f \in Fenced |-> IF k < first THEN Open ELSE Fence(f, d[k])]]
             Is(F) == F = [k \in 0 .. N |-> IF k < first THEN Open ELSE Fence(F[k-1], d[k])]
  <1>1. N \in Nat /\ Open \in Fenced
    BY DEF Fenced
  <1>2. StepsIn(G, N, Fenced)
    BY DEF Fence, Fenced, StepsIn
  <1>3. \A k \in 1 .. N, f \in Fenced :
          G[k][f] = IF k < first THEN Open ELSE Fence(f, d[k])
    OBVIOUS
  <1> HIDE DEF G, N
  <1>4. PICK F : Solves(F, N, Fenced, Open, G)
    BY <1>1, <1>2, Recursion
  <1>5. \A k \in 1 .. N : F[k-1] \in Fenced
    BY <1>1, <1>4 DEF Solves
  <1>6. \A k \in 0 .. N : F[k] = IF k < first THEN Open ELSE Fence(F[k-1], d[k])
    <2> SUFFICES ASSUME NEW k \in 0 .. N
                 PROVE  F[k] = IF k < first THEN Open ELSE Fence(F[k-1], d[k])
      OBVIOUS
    <2>1. CASE k = 0
      <3>1. F[0] = Open /\ 0 < first
        BY <1>4 DEF Solves
      <3> QED BY <2>1, <3>1
    <2>2. CASE k # 0
      <3>1. k \in 1 .. N
        BY <1>1, <2>2
      <3>2. F[k] = G[k][F[k-1]] /\ F[k-1] \in Fenced
        BY <1>4, <1>5, <3>1 DEF Solves
      <3> QED BY <1>3, <3>1, <3>2
    <2> QED BY <2>1, <2>2
  <1>7. Is(F)
    <2>1. F = [k \in 0 .. N |-> F[k]]
      BY <1>4 DEF Solves
    <2> QED BY <2>1, <1>6
  <1>8. Is(FencesFrom(d, first))
    BY <1>7, FencesAre DEF N
  <1> DEFINE E == FencesFrom(d, first)
  <1>9. \A k \in 0 .. N : E[k] = IF k < first THEN Open ELSE Fence(E[k-1], d[k])
    <2> HIDE DEF E
    <2> SUFFICES ASSUME Is(E) PROVE \A k \in 0 .. N : E[k] = IF k < first THEN Open ELSE Fence(E[k-1], d[k])
      BY <1>8 DEF E
    <2> QED OBVIOUS
  <1> HIDE DEF E, Is
  <1>10. \A k \in 0 .. N : E[k] \in Fenced
    <2>1. \A k \in 1 .. N : E[k-1] \in Fenced => E[k] = G[k][E[k-1]]
      BY <1>1, <1>3, <1>9
    <2>2. E[0] = Open
      BY <1>1, <1>9
    <2> QED BY <1>1, <1>2, <2>1, <2>2, StaysIn
  <1>11. n \in 0 .. N /\ n \in Nat
    BY DEF N
  <1> QED BY <1>9, <1>10, <1>11 DEF E

\* Looked for from a line outside a fence on, the fences are those of the document.
LEMMA FencesAgree ==
  ASSUME NEW d \in Seq(Kinds), NEW first \in 1 .. Len(d) + 1, Fences(d)[first - 1] = Open
  PROVE  \A n \in first - 1 .. Len(d) : FencesFrom(d, first)[n] = Fences(d)[n]
  <1> DEFINE N == Len(d)
             E == FencesFrom(d, first)
             F == FencesFrom(d, 1)
             M == {m \in Nat : m <= N /\ m >= first - 1 => E[m] = F[m]}
  <1>1. N \in Nat /\ first \in Nat \ {0} /\ 1 \in Nat \ {0} /\ first - 1 \in 0 .. N /\ F[first - 1] = Open
    BY DEF Fences
  <1>2. \A n \in 0 .. N : /\ n < first => E[n] = Open
                          /\ n >= first => E[n] = Fence(E[n-1], d[n])
                          /\ n >= 1 => F[n] = Fence(F[n-1], d[n])
    BY <1>1, FenceSteps
  <1> HIDE DEF E, F, N
  <1>3. 0 \in M
    BY <1>1, <1>2
  <1>4. ASSUME NEW m \in Nat, m \in M PROVE m + 1 \in M
    <2> SUFFICES ASSUME m + 1 <= N, m + 1 >= first - 1 PROVE E[m + 1] = F[m + 1]
      OBVIOUS
    <2>1. CASE m + 1 = first - 1
      <3>1. E[first - 1] = Open
        BY <1>1, <1>2
      <3> QED BY <1>1, <2>1, <3>1
    <2>2. CASE m + 1 # first - 1
      <3>1. m + 1 \in 0 .. N /\ m + 1 >= first /\ m >= first - 1 /\ m <= N /\ m + 1 - 1 = m /\ m + 1 >= 1
        BY <1>1, <2>2
      <3>2. E[m + 1] = Fence(E[m], d[m + 1]) /\ F[m + 1] = Fence(F[m], d[m + 1])
        BY <1>2, <3>1
      <3>3. E[m] = F[m]
        BY <1>4, <3>1
      <3> QED BY <3>2, <3>3
    <2> QED BY <2>1, <2>2
  <1> HIDE DEF M
  <1>5. Nat \subseteq M
    BY <1>3, <1>4, SetInduction
  <1>6. \A n \in first - 1 .. N : n \in Nat /\ n <= N /\ n >= first - 1
    BY <1>1
  <1>7. \A n \in first - 1 .. N : E[n] = F[n]
    BY <1>5, <1>6 DEF M
  <1> QED BY <1>7 DEF E, F, N, Fences

LEMMA HeadingHasLevel ==
  ASSUME NEW d \in Seq(Kinds), NEW i \in DOMAIN d, IsHeading(d, i)
  PROVE  Level[d[i]] \in 1 .. 6 /\ d[i] \in Headings /\ d[i] \notin FenceMarks /\ d[i] # "blank"
  BY ChunkingAssumption DEF IsHeading

\* A heading leaves the fence as it is: open.
LEMMA HeadingsAreOutside ==
  ASSUME NEW d \in Seq(Kinds), NEW i \in DOMAIN d, IsHeading(d, i)
  PROVE  Fences(d)[i - 1] = Open /\ Fences(d)[i] = Open
  <1>1. i \in 0 .. Len(d) /\ i >= 1 /\ 1 \in Nat \ {0}
    OBVIOUS
  <1>2. FencesFrom(d, 1)[i] = Fence(FencesFrom(d, 1)[i - 1], d[i])
    BY <1>1, FenceSteps
  <1>3. d[i] \notin FenceMarks
    BY HeadingHasLevel
  <1> QED BY <1>2, <1>3 DEF Fence, Fences, IsHeading

-----------------------------------------------------------------------------
(* The trail *)

\* The stack under a heading of a level.
Depth(stack, level) == IF level - 1 <= Len(stack) THEN level - 1 ELSE Len(stack)

LEMMA TrailFacts ==
  ASSUME NEW stack \in Seq(Nat), NEW level \in Nat \ {0}, NEW i \in Nat
  PROVE  /\ Trail(stack, level, i) \in Seq(Nat)
         /\ Len(Trail(stack, level, i)) = Depth(stack, level) + 1
         /\ \A k \in 1 .. Depth(stack, level) : Trail(stack, level, i)[k] = stack[k]
         /\ Trail(stack, level, i)[Depth(stack, level) + 1] = i
  <1> DEFINE m == Depth(stack, level)
  <1>1. Len(stack) \in Nat /\ level - 1 \in Nat /\ m \in 0 .. Len(stack)
    BY DEF Depth
  <1>2. Min({level - 1, Len(stack)}) = m
    BY <1>1, MinOfTwo DEF Depth
  <1> DEFINE t == SubSeq(stack, 1, m)
  <1>3. t \in Seq(Nat) /\ Len(t) = m /\ \A k \in 1 .. m : t[k] = stack[k]
    BY <1>1
  <1>4. Trail(stack, level, i) = Append(t, i)
    BY <1>2 DEF Trail
  <1> HIDE DEF t
  <1>5. m + 1 \in Nat \ {0} /\ \A k \in 1 .. m : k # m + 1 /\ k \in 1 .. m + 1
    BY <1>1
  <1> HIDE DEF m
  <1>6. /\ Append(t, i) \in Seq(Nat) /\ Len(Append(t, i)) = m + 1
        /\ \A k \in 1 .. m : Append(t, i)[k] = t[k]
        /\ Append(t, i)[m + 1] = i
    BY <1>3, <1>5
  <1> QED BY <1>3, <1>4, <1>6 DEF m

LEMMA TrailsAre ==
  ASSUME NEW d
  PROVE  Trails(d) = CHOOSE F : F = [n \in 0 .. Len(d) |-> IF n = 0 THEN <<>> ELSE Under(d, n, F[n-1])]
  BY DEF Trails

\* The stack, line by line.
LEMMA TrailSteps ==
  ASSUME NEW d \in Seq(Kinds), NEW n \in 0 .. Len(d)
  PROVE  /\ Trails(d)[n] \in Seq(Nat)
         /\ n = 0 => Trails(d)[n] = <<>>
         /\ n # 0 => Trails(d)[n] = Under(d, n, Trails(d)[n-1])
  <1> DEFINE N == Len(d)
             S == Seq(Nat)
             G == [k \in 1 .. N |-> [s \in S |-> Under(d, k, s)]]
             Is(F) == F = [k \in 0 .. N |-> IF k = 0 THEN <<>> ELSE Under(d, k, F[k-1])]
  <1>1. N \in Nat /\ <<>> \in S /\ DOMAIN d = 1 .. N
    OBVIOUS
  <1>2. \A k \in 1 .. N, s \in Seq(Nat) : Under(d, k, s) \in Seq(Nat)
    <2> SUFFICES ASSUME NEW k \in 1 .. N, NEW s \in Seq(Nat) PROVE Under(d, k, s) \in Seq(Nat)
      OBVIOUS
    <2>1. CASE IsHeading(d, k)
      <3>1. Level[d[k]] \in Nat \ {0} /\ k \in Nat
        <4>1. k \in DOMAIN d /\ k \in Nat
          BY <1>1
        <4>2. Level[d[k]] \in 1 .. 6
          BY <2>1, <4>1, HeadingHasLevel
        <4> QED BY <4>1, <4>2
      <3>2. Trail(s, Level[d[k]], k) \in Seq(Nat)
        BY <3>1, TrailFacts
      <3> QED BY <2>1, <3>2 DEF Under
    <2>2. CASE ~IsHeading(d, k)
      BY <2>2 DEF Under
    <2> QED BY <2>1, <2>2
  <1> HIDE DEF S
  <1>3. \A k \in 1 .. N, s \in S : G[k][s] = Under(d, k, s)
    OBVIOUS
  <1>4. StepsIn(G, N, S)
    BY <1>2 DEF StepsIn, S
  <1> HIDE DEF G, N
  <1>5. PICK F : Solves(F, N, S, <<>>, G)
    BY <1>1, <1>4, Recursion
  <1>6. \A k \in 1 .. N : F[k-1] \in S
    BY <1>1, <1>5 DEF Solves
  <1>7. \A k \in 0 .. N : F[k] = IF k = 0 THEN <<>> ELSE Under(d, k, F[k-1])
    <2> SUFFICES ASSUME NEW k \in 0 .. N PROVE F[k] = IF k = 0 THEN <<>> ELSE Under(d, k, F[k-1])
      OBVIOUS
    <2>1. CASE k = 0
      BY <2>1, <1>5 DEF Solves
    <2>2. CASE k # 0
      <3>1. k \in 1 .. N
        BY <1>1, <2>2
      <3> QED BY <2>2, <3>1, <1>3, <1>5, <1>6 DEF Solves
    <2> QED BY <2>1, <2>2
  <1>8. Is(F)
    <2>1. F = [k \in 0 .. N |-> F[k]]
      BY <1>5 DEF Solves
    <2> QED BY <2>1, <1>7
  <1>9. Is(Trails(d))
    BY <1>8, TrailsAre DEF N
  <1> DEFINE E == Trails(d)
  <1>10. \A k \in 0 .. N : E[k] = IF k = 0 THEN <<>> ELSE Under(d, k, E[k-1])
    <2> HIDE DEF E
    <2> SUFFICES ASSUME Is(E) PROVE \A k \in 0 .. N : E[k] = IF k = 0 THEN <<>> ELSE Under(d, k, E[k-1])
      BY <1>9 DEF E
    <2> QED OBVIOUS
  <1> HIDE DEF E, Is
  <1>11. \A k \in 0 .. N : E[k] \in S
    <2>1. \A k \in 1 .. N : E[k-1] \in S => E[k] = G[k][E[k-1]]
      BY <1>1, <1>3, <1>10
    <2>2. E[0] \in S
      BY <1>1, <1>10
    <2> HIDE DEF S
    <2> QED BY <1>1, <1>4, <2>1, <2>2, StaysIn
  <1>12. n \in 0 .. N /\ n \in Nat
    BY DEF N
  <1> QED BY <1>10, <1>11, <1>12 DEF E, S

\* The document skips no level: NoLevelSkipped, of any document.
Tidy(d) == \A i \in DOMAIN d : IsHeading(d, i) => Level[d[i]] <= Cardinality(Ancestors(d, i)) + 1

\* The stack after line n is the headings line n + 1 stands under, one of each level.
Stacked(d, n) ==
  LET t == Trails(d)[n]
  IN  /\ ToSet(t) = Ancestors(d, n + 1)
      /\ \A k \in 1 .. Len(t) : t[k] \in 1 .. n /\ IsHeading(d, t[k]) /\ Level[d[t[k]]] = k
      /\ \A j, k \in 1 .. Len(t) : j < k => t[j] < t[k]

LEMMA StackSize ==
  ASSUME NEW d \in Seq(Kinds), NEW n \in 0 .. Len(d), Stacked(d, n)
  PROVE  Cardinality(Ancestors(d, n + 1)) = Len(Trails(d)[n])
  <1> DEFINE t == Trails(d)[n]
             A == Ancestors(d, n + 1)
  <1>1. t \in Seq(Nat) /\ Len(t) \in Nat /\ DOMAIN t = 1 .. Len(t)
    BY TrailSteps
  <1>2. ToSet(t) = A /\ \A j, k \in 1 .. Len(t) : j < k => t[j] < t[k]
    BY DEF Stacked
  <1> HIDE DEF t, A
  <1>3. A = {t[k] : k \in 1 .. Len(t)}
    BY <1>1, <1>2 DEF ToSet
  <1>4. \A j, k \in 1 .. Len(t) : t[j] = t[k] => j = k
    <2> SUFFICES ASSUME NEW j \in 1 .. Len(t), NEW k \in 1 .. Len(t), t[j] = t[k], j # k PROVE FALSE
      OBVIOUS
    <2>1. t[j] \in Nat /\ t[k] \in Nat /\ j \in Nat /\ k \in Nat
      BY <1>1
    <2>2. j < k \/ k < j
      BY <2>1
    <2> QED BY <1>2, <2>1, <2>2
  <1>5. [k \in 1 .. Len(t) |-> t[k]] \in Bijection(1 .. Len(t), A)
    BY <1>3, <1>4 DEF Bijection, Injection, Surjection, IsInjective
  <1>6. ExistsBijection(1 .. Len(t), A)
    BY <1>5 DEF ExistsBijection
  <1>7. Cardinality(A) = Len(t)
    <2>1. IsFiniteSet(1 .. Len(t)) /\ Cardinality(1 .. Len(t)) = Len(t)
      <3>1. 1 \in Int /\ Len(t) \in Int
        BY <1>1
      <3>2. /\ IsFiniteSet(1 .. Len(t))
            /\ Cardinality(1 .. Len(t)) = IF 1 > Len(t) THEN 0 ELSE Len(t) - 1 + 1
        BY <3>1, FS_Interval
      <3> QED BY <1>1, <3>2
    <2> QED BY <1>6, <2>1, FS_Bijection
  <1> QED BY <1>7 DEF t, A

LEMMA StackGrows ==
  ASSUME NEW d \in Seq(Kinds), Tidy(d), NEW n \in Nat, n + 1 <= Len(d), Stacked(d, n)
  PROVE  Stacked(d, n + 1)
  <1> DEFINE t == Trails(d)[n]
             u == Trails(d)[n + 1]
             i == n + 1
             L(h) == Level[d[h]]
  <1>1. n \in 0 .. Len(d) /\ i \in 0 .. Len(d) /\ i # 0 /\ i - 1 = n /\ i \in DOMAIN d /\ Len(d) \in Nat
    OBVIOUS
  <1>2. t \in Seq(Nat) /\ u = Under(d, i, t) /\ u \in Seq(Nat) /\ DOMAIN t = 1 .. Len(t) /\ Len(t) \in Nat
    BY <1>1, TrailSteps
  <1>3. /\ ToSet(t) = Ancestors(d, i)
        /\ \A k \in 1 .. Len(t) : t[k] \in 1 .. n /\ IsHeading(d, t[k]) /\ L(t[k]) = k
        /\ \A j, k \in 1 .. Len(t) : j < k => t[j] < t[k]
    BY DEF Stacked
  <1>4. DOMAIN u = 1 .. Len(u)
    BY <1>2
  <1>5. \A h \in 1 .. i : IsHeading(d, h) => L(h) \in Nat
    BY <1>1, HeadingHasLevel
  <1> SUFFICES /\ ToSet(u) = Ancestors(d, i + 1)
               /\ \A k \in 1 .. Len(u) : u[k] \in 1 .. i /\ IsHeading(d, u[k]) /\ L(u[k]) = k
               /\ \A j, k \in 1 .. Len(u) : j < k => u[j] < u[k]
    BY DEF Stacked
  <1>6. CASE ~IsHeading(d, i)
    <2>1. u = t
      BY <1>2, <1>6 DEF Under
    <2>2. \A h : h \in 1 .. (i + 1) - 1 /\ IsHeading(d, h) <=> h \in 1 .. i - 1 /\ IsHeading(d, h)
      BY <1>1, <1>6
    <2>3. Ancestors(d, i + 1) = Ancestors(d, i)
      BY <2>2 DEF Ancestors
    <2>4. \A k \in 1 .. Len(t) : t[k] \in 1 .. i
      BY <1>1, <1>3
    <2> HIDE DEF t, u, i, L
    <2> QED BY <1>3, <2>1, <2>3, <2>4
  <1>7. CASE IsHeading(d, i)
    <2> DEFINE l == L(i)
               m == l - 1
    <2>1. l \in Nat \ {0} /\ l \in Nat /\ m \in Nat /\ m + 1 = l
      BY <1>1, <1>7, HeadingHasLevel
    <2>2. m <= Len(t)
      <3>1. l <= Cardinality(Ancestors(d, i)) + 1
        BY <1>1, <1>7 DEF Tidy
      <3>2. Cardinality(Ancestors(d, i)) = Len(t)
        BY <1>1, StackSize
      <3> HIDE DEF t, l
      <3> QED BY <1>2, <2>1, <3>1, <3>2
    <2>3. u = Trail(t, l, i)
      BY <1>2, <1>7 DEF Under
    <2>4. m = IF l - 1 <= Len(t) THEN l - 1 ELSE Len(t)
      BY <2>1, <2>2
    <2> HIDE DEF t, u, l
    <2>5. Len(u) = m + 1 /\ u[m + 1] = i /\ \A k \in 1 .. m : u[k] = t[k]
      <3>1. i \in Nat
        OBVIOUS
      <3> HIDE DEF m, i
      <3>2. /\ Len(Trail(t, l, i)) = m + 1
            /\ \A k \in 1 .. m : Trail(t, l, i)[k] = t[k]
            /\ Trail(t, l, i)[m + 1] = i
        <4>1. t \in Seq(Nat) /\ l \in Nat \ {0} /\ i \in Nat /\ m \in Nat
          BY <1>2, <2>1, <3>1
        <4>2. Depth(t, l) = m
          BY <2>4 DEF Depth
        <4> QED BY <4>1, <4>2, TrailFacts
      <3> QED BY <2>3, <3>2
    <2>6. \A k \in 1 .. m : u[k] \in 1 .. n /\ IsHeading(d, u[k]) /\ L(u[k]) = k /\ k \in 1 .. Len(t)
      <3>1. \A k \in 1 .. m : k \in 1 .. Len(t)
        BY <1>2, <2>1, <2>2
      <3> HIDE DEF m, L
      <3> QED BY <1>3, <2>5, <3>1
    <2>7. \A k \in 1 .. m + 1 : k \in 1 .. m \/ k = m + 1
      BY <2>1
    <2>8. \A k \in 1 .. Len(u) : u[k] \in 1 .. i /\ IsHeading(d, u[k]) /\ L(u[k]) = k
      <3> SUFFICES ASSUME NEW k \in 1 .. m + 1 PROVE u[k] \in 1 .. i /\ IsHeading(d, u[k]) /\ L(u[k]) = k
        BY <2>5
      <3>1. CASE k \in 1 .. m
        BY <3>1, <2>6
      <3>2. CASE k = m + 1
        BY <3>2, <1>7, <2>1, <2>5 DEF l
      <3> QED BY <2>7, <3>1, <3>2
    <2>9. \A j, k \in 1 .. Len(u) : j < k => u[j] < u[k]
      <3> SUFFICES ASSUME NEW j \in 1 .. m + 1, NEW k \in 1 .. m + 1, j < k PROVE u[j] < u[k]
        BY <2>5
      <3>0. j \in 1 .. m
        BY <2>1
      <3>1. CASE k \in 1 .. m
        BY <3>0, <3>1, <1>3, <2>5, <2>6
      <3>2. CASE k = m + 1
        BY <3>0, <3>2, <2>5, <2>6
      <3> QED BY <2>7, <3>1, <3>2
    <2>10. \A h : h \in Ancestors(d, i + 1) <=> h = i \/ (h \in Ancestors(d, i) /\ L(h) < l)
      <3>1. \A h : h \in 1 .. (i + 1) - 1 /\ IsHeading(d, h) <=> h = i \/ (h \in 1 .. i - 1 /\ IsHeading(d, h))
        BY <1>1, <1>7
      <3>2. \A h \in 1 .. i - 1 : i > h /\ ~(h > i) /\ ~(i > i)
        BY <1>1
      <3> QED BY <1>1, <3>1, <3>2, <1>5, <2>1 DEF Ancestors, l
    <2>11. \A h : h \in Ancestors(d, i) /\ L(h) < l <=> \E k \in 1 .. m : h = t[k]
      <3>1. \A h : h \in Ancestors(d, i) <=> \E k \in 1 .. Len(t) : h = t[k]
        BY <1>2, <1>3 DEF ToSet
      <3>2. \A k \in 1 .. Len(t) : L(t[k]) = k
        BY <1>3
      <3>3. \A k \in 1 .. Len(t) : k < l <=> k \in 1 .. m
        BY <1>2, <2>1
      <3>4. \A k \in 1 .. m : k \in 1 .. Len(t)
        BY <2>6
      <3> HIDE DEF L, m, i
      <3> QED BY <3>1, <3>2, <3>3, <3>4
    <2>12. \A h : h \in ToSet(u) <=> h = i \/ \E k \in 1 .. m : h = t[k]
      <3>1. \A h : h \in ToSet(u) <=> \E k \in 1 .. m + 1 : h = u[k]
        BY <1>4, <2>5 DEF ToSet
      <3>2. m + 1 \in 1 .. m + 1 /\ \A k \in 1 .. m : k \in 1 .. m + 1
        BY <2>1
      <3> HIDE DEF m, i
      <3> QED BY <2>5, <2>7, <3>1, <3>2
    <2>13. ToSet(u) = Ancestors(d, i + 1)
      <3> HIDE DEF m, i, L
      <3> QED BY <2>10, <2>11, <2>12
    <2> QED BY <2>8, <2>9, <2>13
  <1> QED BY <1>6, <1>7

\* Of a document that skips no level, so is every stack.
LEMMA StacksAreAncestors ==
  ASSUME NEW d \in Seq(Kinds), Tidy(d)
  PROVE  \A n \in 0 .. Len(d) : Stacked(d, n)
  <1> DEFINE M == {m \in Nat : m <= Len(d) => Stacked(d, m)}
  <1>1. 0 \in M
    <2>1. Trails(d)[0] = <<>>
      BY TrailSteps
    <2>2. Len(<<>>) = 0 /\ ToSet(<<>>) = {} /\ Ancestors(d, 0 + 1) = {}
      BY DEF ToSet, Ancestors
    <2>3. 1 .. Len(Trails(d)[0]) = {}
      BY <2>1, <2>2
    <2>4. ToSet(Trails(d)[0]) = Ancestors(d, 0 + 1)
      BY <2>1, <2>2
    <2>5. Stacked(d, 0)
      BY <2>3, <2>4 DEF Stacked
    <2> QED BY <2>5
  <1>2. ASSUME NEW m \in Nat, m \in M PROVE m + 1 \in M
    <2>1. m + 1 <= Len(d) => m <= Len(d)
      OBVIOUS
    <2> QED BY <1>2, <2>1, StackGrows
  <1> HIDE DEF M
  <1>3. Nat \subseteq M
    BY <1>1, <1>2, SetInduction
  <1>4. \A n \in 0 .. Len(d) : n \in Nat /\ n <= Len(d)
    OBVIOUS
  <1> QED BY <1>3, <1>4 DEF M

-----------------------------------------------------------------------------
(* Lines cut into runs *)

Spans == [first : Nat \ {0}, last : Nat]

\* A run of what is cut: between two cuts, with text.
IsRun(d, run, cuts, r) ==
  /\ r \in Spans /\ run.first <= r.first /\ r.first <= r.last /\ r.last <= run.last
  /\ Lines(r) \cap cuts = {} /\ Written(d, r) # {}
  /\ r.first = run.first \/ r.first - 1 \in cuts

\* Runs in their order, all before line f.
RunsBefore(d, run, cuts, rs, f) ==
  /\ rs \in Seq(Spans)
  /\ \A k \in 1 .. Len(rs) : IsRun(d, run, cuts, rs[k]) /\ rs[k].last < f
  /\ \A j, k \in 1 .. Len(rs) : j < k => rs[j].last < rs[k].first

Covers(rs, i) == \E k \in 1 .. Len(rs) : i \in Lines(rs[k])

LEMMA FlushKeeps ==
  ASSUME NEW d, NEW run \in Spans, NEW cuts, NEW rs, NEW f \in Nat \ {0}, NEW l \in Nat, NEW g \in Nat,
         RunsBefore(d, run, cuts, rs, f), run.first <= f, l <= run.last, l < g, f <= g,
         f = run.first \/ f - 1 \in cuts, \A i \in f .. l : i \notin cuts
  PROVE  /\ RunsBefore(d, run, cuts, Flush(d, rs, [first |-> f, last |-> l]), g)
         /\ \A i : Covers(rs, i) => Covers(Flush(d, rs, [first |-> f, last |-> l]), i)
         /\ \A i \in f .. l : d[i] = "blank" \/ Covers(Flush(d, rs, [first |-> f, last |-> l]), i)
         /\ rs # <<>> => Flush(d, rs, [first |-> f, last |-> l]) # <<>>
  <1> DEFINE r == [first |-> f, last |-> l]
             n == Len(rs)
             new == Flush(d, rs, r)
  <1>1. r \in Spans /\ r.first = f /\ r.last = l /\ Lines(r) = f .. l
    BY DEF Spans, Lines
  <1>2. rs \in Seq(Spans) /\ n \in Nat
    BY DEF RunsBefore
  <1>3. /\ \A k \in 1 .. n : IsRun(d, run, cuts, rs[k]) /\ rs[k].last < f
        /\ \A j, k \in 1 .. n : j < k => rs[j].last < rs[k].first
    BY DEF RunsBefore
  <1>4. \A k \in 1 .. n : rs[k].last < g
    <2> SUFFICES ASSUME NEW k \in 1 .. n PROVE rs[k].last < g
      OBVIOUS
    <2>1. rs[k].last \in Nat /\ rs[k].last < f
      BY <1>3 DEF IsRun, Spans
    <2> QED BY <2>1
  <1>5. CASE Written(d, r) = {}
    <2>1. new = rs
      BY <1>5 DEF Flush
    <2>2. \A i \in f .. l : d[i] = "blank"
      BY <1>1, <1>5 DEF Written
    <2>3. RunsBefore(d, run, cuts, rs, g)
      BY <1>2, <1>3, <1>4 DEF RunsBefore
    <2> QED BY <2>1, <2>2, <2>3
  <1>6. CASE Written(d, r) # {}
    <2>1. new = Append(rs, r)
      BY <1>6 DEF Flush
    <2> HIDE DEF r
    <2>2. /\ new \in Seq(Spans) /\ Len(new) = n + 1 /\ new[n + 1] = r /\ new # <<>>
          /\ \A k \in 1 .. n : new[k] = rs[k]
      BY <1>1, <1>2, <2>1
    <2> HIDE DEF new, n
    <2>3. \A k \in 1 .. n + 1 : k \in 1 .. n \/ k = n + 1
      BY <1>2
    <2>4. f <= l
      BY <1>1, <1>6 DEF Written
    <2>5. IsRun(d, run, cuts, r)
      BY <1>1, <1>6, <2>4 DEF IsRun
    <2>6. \A k \in 1 .. Len(new) : IsRun(d, run, cuts, new[k]) /\ new[k].last < g
      <3> SUFFICES ASSUME NEW k \in 1 .. n + 1 PROVE IsRun(d, run, cuts, new[k]) /\ new[k].last < g
        BY <2>2
      <3>1. CASE k \in 1 .. n
        BY <3>1, <1>3, <1>4, <2>2
      <3>2. CASE k = n + 1
        BY <3>2, <1>1, <2>2, <2>5
      <3> QED BY <2>3, <3>1, <3>2
    <2>7. \A j, k \in 1 .. Len(new) : j < k => new[j].last < new[k].first
      <3> SUFFICES ASSUME NEW j \in 1 .. n + 1, NEW k \in 1 .. n + 1, j < k PROVE new[j].last < new[k].first
        BY <2>2
      <3>0. j \in 1 .. n
        BY <1>2
      <3>1. CASE k \in 1 .. n
        BY <3>0, <3>1, <1>3, <2>2
      <3>2. CASE k = n + 1
        BY <3>0, <3>2, <1>1, <1>3, <2>2
      <3> QED BY <2>3, <3>1, <3>2
    <2>8. RunsBefore(d, run, cuts, new, g)
      BY <2>2, <2>6, <2>7 DEF RunsBefore
    <2>9. n + 1 \in 1 .. Len(new) /\ \A k \in 1 .. n : k \in 1 .. Len(new)
      BY <1>2, <2>2
    <2>10. \A i : Covers(rs, i) => Covers(new, i)
      BY <2>2, <2>9 DEF Covers, n
    <2>11. \A i \in f .. l : Covers(new, i)
      BY <1>1, <2>2, <2>9 DEF Covers
    <2> QED BY <2>2, <2>8, <2>10, <2>11 DEF new, r
  <1> QED BY <1>5, <1>6

Cutting == [done : Seq(Spans), first : Nat \ {0}]

CutStart(run) == [done |-> <<>>, first |-> run.first]

LEMMA CutToIs ==
  ASSUME NEW d, NEW run, NEW cuts
  PROVE  CutTo(d, run, cuts) =
           CHOOSE F : F = [n \in 0 .. run.last |->
                            IF n < run.first THEN CutStart(run) ELSE Cut(d, cuts, n, F[n-1])]
  BY DEF CutTo, CutStart

LEMMA CutType ==
  ASSUME NEW d, NEW cuts, NEW n \in Nat \ {0}, NEW acc \in Cutting
  PROVE  Cut(d, cuts, n, acc) \in Cutting
  <1> DEFINE r == [first |-> acc.first, last |-> n - 1]
  <1>1. acc.done \in Seq(Spans) /\ acc.first \in Nat \ {0} /\ n + 1 \in Nat \ {0}
    BY DEF Cutting
  <1>2. r \in Spans
    BY <1>1 DEF Spans
  <1> HIDE DEF r
  <1>3. Flush(d, acc.done, r) \in Seq(Spans)
    BY <1>1, <1>2 DEF Flush
  <1>4. Cut(d, cuts, n, acc) = IF n \in cuts THEN [done |-> Flush(d, acc.done, r), first |-> n + 1] ELSE acc
    BY DEF Cut, r
  <1> QED BY <1>1, <1>3, <1>4 DEF Cutting

LEMMA CutSteps ==
  ASSUME NEW d, NEW run \in Spans, NEW cuts, NEW n \in 0 .. run.last
  PROVE  /\ CutTo(d, run, cuts)[n] \in Cutting
         /\ n < run.first => CutTo(d, run, cuts)[n] = CutStart(run)
         /\ n >= run.first => CutTo(d, run, cuts)[n] = Cut(d, cuts, n, CutTo(d, run, cuts)[n-1])
  <1> DEFINE N == run.last
             G == [k \in 1 .. N |-> [a \in Cutting |-> IF k < run.first THEN CutStart(run) ELSE Cut(d, cuts, k, a)]]
             Is(F) == F = [k \in 0 .. N |-> IF k < run.first THEN CutStart(run) ELSE Cut(d, cuts, k, F[k-1])]
  <1>1. N \in Nat /\ run.first \in Nat \ {0} /\ CutStart(run) \in Cutting
    BY DEF Spans, CutStart, Cutting
  <1>2. \A k \in 1 .. N, a \in Cutting : Cut(d, cuts, k, a) \in Cutting
    BY CutType
  <1>3. \A k \in 1 .. N, a \in Cutting :
          G[k][a] = IF k < run.first THEN CutStart(run) ELSE Cut(d, cuts, k, a)
    OBVIOUS
  <1>4. StepsIn(G, N, Cutting)
    BY <1>1, <1>2 DEF StepsIn
  <1> HIDE DEF G, N
  <1>5. PICK F : Solves(F, N, Cutting, CutStart(run), G)
    BY <1>1, <1>4, Recursion
  <1>6. \A k \in 1 .. N : F[k-1] \in Cutting
    BY <1>1, <1>5 DEF Solves
  <1>7. \A k \in 0 .. N : F[k] = IF k < run.first THEN CutStart(run) ELSE Cut(d, cuts, k, F[k-1])
    <2> SUFFICES ASSUME NEW k \in 0 .. N
                 PROVE  F[k] = IF k < run.first THEN CutStart(run) ELSE Cut(d, cuts, k, F[k-1])
      OBVIOUS
    <2>1. CASE k = 0
      BY <2>1, <1>1, <1>5 DEF Solves
    <2>2. CASE k # 0
      <3>1. k \in 1 .. N
        BY <1>1, <2>2
      <3> QED BY <3>1, <1>3, <1>5, <1>6 DEF Solves
    <2> QED BY <2>1, <2>2
  <1>8. Is(F)
    <2>1. F = [k \in 0 .. N |-> F[k]]
      BY <1>5 DEF Solves
    <2> QED BY <2>1, <1>7
  <1>9. Is(CutTo(d, run, cuts))
    BY <1>8, CutToIs DEF N
  <1> DEFINE E == CutTo(d, run, cuts)
  <1>10. \A k \in 0 .. N : E[k] = IF k < run.first THEN CutStart(run) ELSE Cut(d, cuts, k, E[k-1])
    <2> HIDE DEF E
    <2> SUFFICES ASSUME Is(E)
                 PROVE  \A k \in 0 .. N : E[k] = IF k < run.first THEN CutStart(run) ELSE Cut(d, cuts, k, E[k-1])
      BY <1>9 DEF E
    <2> QED OBVIOUS
  <1> HIDE DEF E, Is
  <1>11. \A k \in 0 .. N : E[k] \in Cutting
    <2>1. \A k \in 1 .. N : E[k-1] \in Cutting => E[k] = G[k][E[k-1]]
      BY <1>1, <1>3, <1>10
    <2>2. E[0] = CutStart(run)
      BY <1>1, <1>10
    <2> QED BY <1>1, <1>4, <2>1, <2>2, StaysIn
  <1>12. n \in 0 .. N /\ n \in Nat
    BY <1>1 DEF N
  <1> QED BY <1>1, <1>10, <1>11, <1>12 DEF E

\* After line n: the runs that have ended, and the one under way.
CutSo(d, run, cuts, n, acc) ==
  /\ acc \in Cutting /\ run.first <= acc.first /\ acc.first <= n + 1
  /\ acc.first = run.first \/ acc.first - 1 \in cuts
  /\ \A i \in acc.first .. n : i \notin cuts
  /\ RunsBefore(d, run, cuts, acc.done, acc.first)
  /\ \A i \in run.first .. acc.first - 1 : i \in cuts \/ d[i] = "blank" \/ Covers(acc.done, i)

LEMMA CutKeeps ==
  ASSUME NEW d, NEW run \in Spans, NEW cuts, NEW n \in Nat, NEW acc, CutSo(d, run, cuts, n, acc),
         run.first <= n + 1, n + 1 <= run.last
  PROVE  CutSo(d, run, cuts, n + 1, Cut(d, cuts, n + 1, acc))
  <1> DEFINE new == Cut(d, cuts, n + 1, acc)
             f == acc.first
  <1>1. /\ acc \in Cutting /\ run.first <= f /\ f <= n + 1
        /\ f = run.first \/ f - 1 \in cuts
        /\ \A i \in f .. n : i \notin cuts
        /\ RunsBefore(d, run, cuts, acc.done, f)
        /\ \A i \in run.first .. f - 1 : i \in cuts \/ d[i] = "blank" \/ Covers(acc.done, i)
    BY DEF CutSo
  <1>2. f \in Nat \ {0} /\ run.first \in Nat \ {0} /\ run.last \in Nat /\ n + 1 \in Nat \ {0}
    BY <1>1 DEF Cutting, Spans
  <1>3. new \in Cutting
    BY <1>1, <1>2, CutType
  <1>4. CASE n + 1 \notin cuts
    <2>1. new = acc
      BY <1>4 DEF Cut
    <2>2. \A i \in f .. n + 1 : i \notin cuts
      <3>1. \A i \in f .. n + 1 : i = n + 1 \/ i \in f .. n
        BY <1>2
      <3> QED BY <3>1, <1>1, <1>4
    <2>3. f <= n + 1 + 1
      BY <1>1, <1>2
    <2> HIDE DEF new
    <2> QED BY <1>1, <2>1, <2>2, <2>3 DEF CutSo, new
  <1>5. CASE n + 1 \in cuts
    <2> DEFINE rs == Flush(d, acc.done, [first |-> f, last |-> n])
    <2>1. n + 1 - 1 = n
      OBVIOUS
    <2>2. new.done = rs /\ new.first = n + 2
      BY <1>5, <2>1 DEF Cut
    <2>3. n + 2 \in Nat /\ n < n + 2 /\ f <= n + 2 /\ n <= run.last
      BY <1>1, <1>2
    <2> HIDE DEF new
    <2>4. /\ RunsBefore(d, run, cuts, rs, n + 2)
          /\ \A i : Covers(acc.done, i) => Covers(rs, i)
          /\ \A i \in f .. n : d[i] = "blank" \/ Covers(rs, i)
      <3> HIDE DEF f
      <3> QED BY <1>1, <1>2, <2>3, FlushKeeps
    <2> HIDE DEF rs
    <2>5. \A i \in run.first .. n + 2 - 1 : i \in cuts \/ d[i] = "blank" \/ Covers(rs, i)
      <3> SUFFICES ASSUME NEW i \in run.first .. n + 2 - 1 PROVE i \in cuts \/ d[i] = "blank" \/ Covers(rs, i)
        OBVIOUS
      <3>1. i \in run.first .. f - 1 \/ i \in f .. n \/ i = n + 1
        BY <1>2
      <3> HIDE DEF f
      <3> QED BY <3>1, <1>1, <1>5, <2>4
    <2>6. run.first <= n + 2 /\ n + 2 <= n + 1 + 1 /\ n + 2 - 1 = n + 1 /\ (n + 2) .. (n + 1) = {}
      BY <1>1, <1>2
    <2> QED BY <1>3, <1>5, <2>2, <2>4, <2>5, <2>6 DEF CutSo, new
  <1> QED BY <1>4, <1>5

LEMMA CutHolds ==
  ASSUME NEW d, NEW run \in Spans, NEW cuts, run.first <= run.last + 1
  PROVE  CutSo(d, run, cuts, run.last, CutTo(d, run, cuts)[run.last])
  <1> DEFINE E == CutTo(d, run, cuts)
             M == {m \in Nat : run.first - 1 <= m /\ m <= run.last => CutSo(d, run, cuts, m, E[m])}
  <1>1. run.first \in Nat \ {0} /\ run.first - 1 \in 0 .. run.last /\ run.last \in 0 .. run.last /\ run.last \in Nat
    BY DEF Spans
  <1>2. /\ \A n \in 0 .. run.last : n < run.first => E[n] = CutStart(run)
        /\ \A n \in 0 .. run.last : n >= run.first => E[n] = Cut(d, cuts, n, E[n-1])
    BY CutSteps
  <1> HIDE DEF E
  <1>3. CutSo(d, run, cuts, run.first - 1, E[run.first - 1])
    <2>1. E[run.first - 1] = CutStart(run)
      BY <1>1, <1>2
    <2>2. CutStart(run) \in Cutting /\ CutStart(run).first = run.first /\ CutStart(run).done = <<>>
      BY <1>1 DEF CutStart, Cutting
    <2>3. RunsBefore(d, run, cuts, <<>>, run.first)
      BY DEF RunsBefore
    <2>4. run.first <= run.first - 1 + 1 /\ run.first .. run.first - 1 = {} /\ run.first <= run.first
      BY <1>1
    <2> QED BY <2>1, <2>2, <2>3, <2>4 DEF CutSo
  <1>4. 0 \in M
    <2>1. 0 >= run.first - 1 => run.first - 1 = 0
      BY <1>1
    <2> QED BY <1>1, <1>3, <2>1
  <1>5. ASSUME NEW m \in Nat, m \in M PROVE m + 1 \in M
    <2> SUFFICES ASSUME run.first - 1 <= m + 1, m + 1 <= run.last PROVE CutSo(d, run, cuts, m + 1, E[m + 1])
      OBVIOUS
    <2>1. CASE m + 1 = run.first - 1
      BY <2>1, <1>3
    <2>2. CASE m + 1 # run.first - 1
      <3>1. /\ run.first - 1 <= m /\ m <= run.last /\ run.first <= m + 1 /\ m + 1 \in 0 .. run.last
            /\ m + 1 - 1 = m
        BY <1>1, <2>2
      <3>2. E[m + 1] = Cut(d, cuts, m + 1, E[m])
        BY <1>2, <3>1
      <3>3. CutSo(d, run, cuts, m, E[m])
        BY <1>5, <3>1
      <3> QED BY <3>1, <3>2, <3>3, CutKeeps
    <2> QED BY <2>1, <2>2
  <1> HIDE DEF M
  <1>6. run.last \in M
    BY <1>1, <1>4, <1>5, SetInduction
  <1>7. run.first - 1 <= run.last /\ run.last <= run.last
    BY <1>1
  <1> QED BY <1>6, <1>7 DEF M, E

\* The runs of a cut: in order, between the cuts, and with every line of text.
LEMMA RunsFacts ==
  ASSUME NEW d, NEW run \in Spans, NEW cuts, run.first <= run.last + 1
  PROVE  /\ RunsBefore(d, run, cuts, Runs(d, run, cuts), run.last + 1)
         /\ \A i \in Lines(run) : i \in cuts \/ d[i] = "blank" \/ Covers(Runs(d, run, cuts), i)
  <1> DEFINE end == CutTo(d, run, cuts)[run.last]
             f == end.first
             rs == Flush(d, end.done, [first |-> f, last |-> run.last])
  <1>1. CutSo(d, run, cuts, run.last, end)
    BY CutHolds
  <1>2. Runs(d, run, cuts) = rs
    BY DEF Runs
  <1> HIDE DEF end
  <1>3. /\ end \in Cutting /\ run.first <= f /\ f <= run.last + 1
        /\ f = run.first \/ f - 1 \in cuts
        /\ \A i \in f .. run.last : i \notin cuts
        /\ RunsBefore(d, run, cuts, end.done, f)
        /\ \A i \in run.first .. f - 1 : i \in cuts \/ d[i] = "blank" \/ Covers(end.done, i)
    BY <1>1 DEF CutSo
  <1>4. f \in Nat \ {0} /\ run.last \in Nat /\ run.last + 1 \in Nat /\ run.first \in Nat
        /\ run.last < run.last + 1 /\ run.last <= run.last
    BY <1>3 DEF Cutting, Spans
  <1> HIDE DEF f
  <1>5. /\ RunsBefore(d, run, cuts, rs, run.last + 1)
        /\ \A i : Covers(end.done, i) => Covers(rs, i)
        /\ \A i \in f .. run.last : d[i] = "blank" \/ Covers(rs, i)
    BY <1>3, <1>4, FlushKeeps
  <1> HIDE DEF rs
  <1>6. \A i \in Lines(run) : i \in run.first .. f - 1 \/ i \in f .. run.last
    BY <1>3, <1>4 DEF Lines
  <1> QED BY <1>2, <1>3, <1>5, <1>6

-----------------------------------------------------------------------------
(* Windows *)

\* A window over the limit has no more than the overlap before its last block.
FitsIn(d, bs, w) ==
  TokensIn(d, SubSeq(bs, w.first, w.last)) > MaxTokens =>
    TokensIn(d, SubSeq(bs, w.first, w.last - 1)) <= OverlapTokens

LEMMA NoTokens == ASSUME NEW d PROVE TokensIn(d, <<>>) = 0
  <1>1. ToSet(<<>>) = {}
    BY DEF ToSet
  <1>2. UNION {Written(d, b) : b \in ToSet(<<>>)} = {}
    BY <1>1
  <1> QED BY <1>2, FS_EmptySet DEF TokensIn

LEMMA CarryFacts ==
  ASSUME NEW d, NEW bs \in Seq(Spans), NEW w \in Spans, w.first <= w.last, w.last <= Len(bs)
  PROVE  /\ Carry(d, bs, w) \in w.first .. w.last + 1
         /\ TokensIn(d, SubSeq(bs, Carry(d, bs, w), w.last)) <= OverlapTokens
  <1> DEFINE C == {b \in Lines(w) \cup {w.last + 1} : TokensIn(d, SubSeq(bs, b, w.last)) <= OverlapTokens}
  <1>1. w.first \in Nat \ {0} /\ w.last \in Nat /\ Len(bs) \in Nat
    BY DEF Spans
  <1>2. SubSeq(bs, w.last + 1, w.last) = <<>>
    BY <1>1
  <1>3. w.last + 1 \in C
    <2>1. 0 <= OverlapTokens
      BY ChunkingAssumption
    <2> QED BY <1>2, <2>1, NoTokens
  <1>4. C \in SUBSET Nat
    BY <1>1 DEF Lines
  <1>5. Min(C) \in C
    <2> HIDE DEF C
    <2> QED BY <1>3, <1>4, MinFacts
  <1>6. Carry(d, bs, w) = Min(C)
    BY DEF Carry
  <1>7. \A b \in C : b \in w.first .. w.last + 1
    BY <1>1 DEF Lines
  <1> QED BY <1>5, <1>6, <1>7

LEMMA FillToIs ==
  ASSUME NEW d, NEW bs
  PROVE  FillTo(d, bs) =
           CHOOSE F : F = [n \in 0 .. Len(bs) |->
                            IF n = 0 THEN [done |-> <<>>, first |-> 1] ELSE Fill(d, bs, n, F[n-1])]
  BY DEF FillTo

\* After block n: the windows that have ended, and the one under way.
FillSo(d, bs, n, acc) ==
  /\ acc \in Cutting /\ acc.first <= n + 1
  /\ n # 0 => acc.first <= n /\ FitsIn(d, bs, [first |-> acc.first, last |-> n])
  /\ \A k \in 1 .. Len(acc.done) : /\ acc.done[k].first <= acc.done[k].last /\ acc.done[k].last < n
                                   /\ FitsIn(d, bs, acc.done[k])
  /\ \A j, k \in 1 .. Len(acc.done) : j < k => acc.done[j].last < acc.done[k].last
  /\ \A i \in 1 .. n : i >= acc.first \/ Covers(acc.done, i)

\* One more window.
LEMMA WindowAdded ==
  ASSUME NEW d, NEW bs, NEW ws \in Seq(Spans), NEW w \in Spans, NEW n \in Nat, w.first <= w.last, w.last < n,
         FitsIn(d, bs, w),
         \A k \in 1 .. Len(ws) : ws[k].first <= ws[k].last /\ ws[k].last < w.last /\ FitsIn(d, bs, ws[k]),
         \A j, k \in 1 .. Len(ws) : j < k => ws[j].last < ws[k].last
  PROVE  /\ Append(ws, w) \in Seq(Spans)
         /\ \A k \in 1 .. Len(Append(ws, w)) : /\ Append(ws, w)[k].first <= Append(ws, w)[k].last
                                               /\ Append(ws, w)[k].last < n
                                               /\ FitsIn(d, bs, Append(ws, w)[k])
         /\ \A j, k \in 1 .. Len(Append(ws, w)) : j < k => Append(ws, w)[j].last < Append(ws, w)[k].last
         /\ \A i : Covers(ws, i) \/ i \in Lines(w) => Covers(Append(ws, w), i)
  <1> DEFINE new == Append(ws, w)
             l == Len(ws)
  <1>1. /\ l \in Nat /\ new \in Seq(Spans) /\ Len(new) = l + 1 /\ new[l + 1] = w
        /\ \A k \in 1 .. l : new[k] = ws[k]
    OBVIOUS
  <1>2. \A k \in 1 .. l : ws[k].last \in Nat /\ ws[k].last < n
    <2> SUFFICES ASSUME NEW k \in 1 .. l PROVE ws[k].last \in Nat /\ ws[k].last < n
      OBVIOUS
    <2>1. ws[k] \in Spans
      OBVIOUS
    <2>2. ws[k].last \in Nat /\ w.last \in Nat /\ ws[k].last < w.last
      BY <2>1 DEF Spans
    <2> QED BY <2>2
  <1> HIDE DEF new, l
  <1>3. l + 1 \in 1 .. l + 1 /\ \A k \in 1 .. l + 1 : k = l + 1 \/ k \in 1 .. l
    BY <1>1
  <1>4. \A k \in 1 .. l : k \in 1 .. l + 1
    BY <1>1
  <1>5. \A k \in 1 .. Len(new) : new[k].first <= new[k].last /\ new[k].last < n /\ FitsIn(d, bs, new[k])
    <2> SUFFICES ASSUME NEW k \in 1 .. l + 1
                 PROVE  new[k].first <= new[k].last /\ new[k].last < n /\ FitsIn(d, bs, new[k])
      BY <1>1
    <2>1. CASE k \in 1 .. l
      BY <2>1, <1>1, <1>2 DEF l
    <2>2. CASE k = l + 1
      BY <2>2, <1>1
    <2> QED BY <1>3, <2>1, <2>2
  <1>6. \A j, k \in 1 .. Len(new) : j < k => new[j].last < new[k].last
    <2> SUFFICES ASSUME NEW j \in 1 .. l + 1, NEW k \in 1 .. l + 1, j < k PROVE new[j].last < new[k].last
      BY <1>1
    <2>0. j \in 1 .. l
      BY <1>1
    <2>1. CASE k \in 1 .. l
      BY <2>0, <2>1, <1>1 DEF l
    <2>2. CASE k = l + 1
      BY <2>0, <2>2, <1>1 DEF l
    <2> QED BY <1>3, <2>1, <2>2
  <1>7. \A i : Covers(ws, i) => Covers(new, i)
    BY <1>1, <1>4 DEF Covers, l
  <1>8. \A i : i \in Lines(w) => Covers(new, i)
    BY <1>1, <1>3 DEF Covers
  <1> QED BY <1>1, <1>5, <1>6, <1>7, <1>8 DEF new

LEMMA FillType ==
  ASSUME NEW d, NEW bs \in Seq(Spans), NEW n \in 1 .. Len(bs), NEW acc \in Cutting
  PROVE  Fill(d, bs, n, acc) \in Cutting
  <1> DEFINE w == [first |-> acc.first, last |-> n - 1]
             c == Carry(d, bs, w)
  <1>1. acc.done \in Seq(Spans) /\ acc.first \in Nat \ {0} /\ Len(bs) \in Nat
    BY DEF Cutting
  <1>2. w \in Spans /\ w.first = acc.first /\ w.last = n - 1
    BY <1>1 DEF Spans
  <1>3. CASE acc.first < n /\ TokensIn(d, SubSeq(bs, acc.first, n)) > MaxTokens
    <2> HIDE DEF w
    <2>1. w.first <= w.last /\ w.last <= Len(bs)
      BY <1>1, <1>2, <1>3
    <2>2. c \in w.first .. w.last + 1
      BY <1>2, <2>1, CarryFacts
    <2> HIDE DEF c
    <2>3. c \in Nat \ {0}
      BY <1>1, <1>2, <2>2
    <2>4. Append(acc.done, w) \in Seq(Spans)
      BY <1>1, <1>2
    <2>5. Fill(d, bs, n, acc) = [done |-> Append(acc.done, w), first |-> c]
      BY <1>3 DEF Fill, c, w
    <2> QED BY <2>3, <2>4, <2>5 DEF Cutting
  <1>4. CASE ~(acc.first < n /\ TokensIn(d, SubSeq(bs, acc.first, n)) > MaxTokens)
    BY <1>4 DEF Fill
  <1> QED BY <1>3, <1>4

LEMMA FillCases ==
  ASSUME NEW d, NEW bs, NEW n, NEW acc, NEW w, w = [first |-> acc.first, last |-> n - 1]
  PROVE  \/ /\ acc.first < n /\ TokensIn(d, SubSeq(bs, acc.first, n)) > MaxTokens
            /\ Fill(d, bs, n, acc) = [done |-> Append(acc.done, w), first |-> Carry(d, bs, w)]
         \/ /\ ~(acc.first < n /\ TokensIn(d, SubSeq(bs, acc.first, n)) > MaxTokens)
            /\ Fill(d, bs, n, acc) = acc
  BY DEF Fill

LEMMA FillSteps ==
  ASSUME NEW d, NEW bs \in Seq(Spans), NEW n \in 0 .. Len(bs)
  PROVE  /\ FillTo(d, bs)[n] \in Cutting
         /\ n = 0 => FillTo(d, bs)[n] = [done |-> <<>>, first |-> 1]
         /\ n # 0 => FillTo(d, bs)[n] = Fill(d, bs, n, FillTo(d, bs)[n-1])
  <1> DEFINE N == Len(bs)
             s0 == [done |-> <<>>, first |-> 1]
             G == [k \in 1 .. N |-> [a \in Cutting |-> Fill(d, bs, k, a)]]
             Is(F) == F = [k \in 0 .. N |-> IF k = 0 THEN s0 ELSE Fill(d, bs, k, F[k-1])]
  <1>1. N \in Nat /\ s0 \in Cutting
    BY DEF Cutting
  <1>2. \A k \in 1 .. N, a \in Cutting : Fill(d, bs, k, a) \in Cutting
    BY FillType
  <1>3. \A k \in 1 .. N, a \in Cutting : G[k][a] = Fill(d, bs, k, a)
    OBVIOUS
  <1>4. StepsIn(G, N, Cutting)
    BY <1>2 DEF StepsIn
  <1> HIDE DEF G, N, s0
  <1>5. PICK F : Solves(F, N, Cutting, s0, G)
    BY <1>1, <1>4, Recursion
  <1>6. \A k \in 1 .. N : F[k-1] \in Cutting
    BY <1>1, <1>5 DEF Solves
  <1>7. \A k \in 0 .. N : F[k] = IF k = 0 THEN s0 ELSE Fill(d, bs, k, F[k-1])
    <2> SUFFICES ASSUME NEW k \in 0 .. N PROVE F[k] = IF k = 0 THEN s0 ELSE Fill(d, bs, k, F[k-1])
      OBVIOUS
    <2>1. CASE k = 0
      BY <2>1, <1>5 DEF Solves
    <2>2. CASE k # 0
      <3>1. k \in 1 .. N
        BY <1>1, <2>2
      <3> QED BY <2>2, <3>1, <1>3, <1>5, <1>6 DEF Solves
    <2> QED BY <2>1, <2>2
  <1>8. Is(F)
    <2>1. F = [k \in 0 .. N |-> F[k]]
      BY <1>5 DEF Solves
    <2> QED BY <2>1, <1>7
  <1>9. Is(FillTo(d, bs))
    BY <1>8, FillToIs DEF N, s0
  <1> DEFINE E == FillTo(d, bs)
  <1>10. \A k \in 0 .. N : E[k] = IF k = 0 THEN s0 ELSE Fill(d, bs, k, E[k-1])
    <2> HIDE DEF E
    <2> SUFFICES ASSUME Is(E) PROVE \A k \in 0 .. N : E[k] = IF k = 0 THEN s0 ELSE Fill(d, bs, k, E[k-1])
      BY <1>9 DEF E
    <2> QED OBVIOUS
  <1> HIDE DEF E, Is
  <1>11. \A k \in 0 .. N : E[k] \in Cutting
    <2>1. \A k \in 1 .. N : E[k-1] \in Cutting => E[k] = G[k][E[k-1]]
      BY <1>1, <1>3, <1>10
    <2>2. E[0] = s0
      BY <1>1, <1>10
    <2> QED BY <1>1, <1>4, <2>1, <2>2, StaysIn
  <1>12. n \in 0 .. N /\ n \in Nat
    BY DEF N
  <1> QED BY <1>10, <1>11, <1>12 DEF E, s0

LEMMA FillKeeps ==
  ASSUME NEW d, NEW bs \in Seq(Spans), NEW n \in Nat, n + 1 <= Len(bs), NEW acc, FillSo(d, bs, n, acc)
  PROVE  FillSo(d, bs, n + 1, Fill(d, bs, n + 1, acc))
  <1> DEFINE f == acc.first
             ws == acc.done
             w == [first |-> f, last |-> n]
             new == Fill(d, bs, n + 1, acc)
             c == Carry(d, bs, w)
  <1>1. /\ acc \in Cutting /\ f <= n + 1
        /\ n # 0 => f <= n /\ FitsIn(d, bs, w)
        /\ \A k \in 1 .. Len(ws) : ws[k].first <= ws[k].last /\ ws[k].last < n /\ FitsIn(d, bs, ws[k])
        /\ \A j, k \in 1 .. Len(ws) : j < k => ws[j].last < ws[k].last
        /\ \A i \in 1 .. n : i >= f \/ Covers(ws, i)
    BY DEF FillSo
  <1>2. f \in Nat \ {0} /\ ws \in Seq(Spans) /\ Len(bs) \in Nat /\ n + 1 \in 1 .. Len(bs) /\ n + 1 - 1 = n
    BY <1>1 DEF Cutting
  <1>3. new \in Cutting
    BY <1>1, <1>2, FillType
  <1>4. w \in Spans /\ w.first = f /\ w.last = n
    BY <1>2 DEF Spans
  <1>5. CASE f < n + 1 /\ TokensIn(d, SubSeq(bs, f, n + 1)) > MaxTokens
    <2>0. n # 0 /\ f <= n /\ n <= Len(bs)
      BY <1>2, <1>5
    <2>1. new = [done |-> Append(ws, w), first |-> c]
      <3> DEFINE m == n + 1
      <3>1. w = [first |-> f, last |-> m - 1]
        BY <1>2
      <3> HIDE DEF m, w
      <3>2. /\ f < m /\ TokensIn(d, SubSeq(bs, f, m)) > MaxTokens
            /\ Fill(d, bs, m, acc) = [done |-> Append(ws, w), first |-> Carry(d, bs, w)]
        BY <1>5, <3>1, FillCases DEF m
      <3> QED BY <3>2 DEF m
    <2> HIDE DEF w, new
    <2>2. c \in f .. n + 1 /\ TokensIn(d, SubSeq(bs, c, n)) <= OverlapTokens
      BY <1>4, <2>0, CarryFacts
    <2> HIDE DEF c
    <2>3. FitsIn(d, bs, w)
      BY <1>1, <2>0 DEF w
    <2>4. /\ \A k \in 1 .. Len(Append(ws, w)) : /\ Append(ws, w)[k].first <= Append(ws, w)[k].last
                                                /\ Append(ws, w)[k].last < n + 1
                                                /\ FitsIn(d, bs, Append(ws, w)[k])
          /\ \A j, k \in 1 .. Len(Append(ws, w)) : j < k => Append(ws, w)[j].last < Append(ws, w)[k].last
          /\ \A i : Covers(ws, i) \/ i \in Lines(w) => Covers(Append(ws, w), i)
      <3>1. w.first <= w.last /\ w.last < n + 1 /\ n + 1 \in Nat
        BY <1>4, <2>0
      <3> HIDE DEF f, ws
      <3> QED BY <1>1, <1>2, <1>4, <2>3, <3>1, WindowAdded
    <2>5. c <= n + 1 /\ c <= n + 1 + 1
      BY <1>2, <2>2
    <2>6. FitsIn(d, bs, [first |-> c, last |-> n + 1])
      BY <1>2, <2>2 DEF FitsIn
    <2>7. \A i \in 1 .. n + 1 : i >= c \/ Covers(Append(ws, w), i)
      <3> SUFFICES ASSUME NEW i \in 1 .. n + 1, i < c PROVE Covers(Append(ws, w), i)
        BY <2>2, <1>2
      <3>1. i \in 1 .. n
        BY <1>2, <2>2
      <3>2. i >= f => i \in Lines(w)
        BY <1>2, <1>4, <3>1 DEF Lines
      <3> QED BY <1>1, <2>4, <3>1, <3>2
    <2> DEFINE vs == Append(ws, w)
    <2>8. new.done = vs /\ new.first = c
      BY <2>1
    <2> HIDE DEF vs
    <2>9. FillSo(d, bs, n + 1, new)
      BY <1>3, <2>4, <2>5, <2>6, <2>7, <2>8 DEF FillSo, vs
    <2> QED BY <2>9 DEF new
  <1>6. CASE ~(f < n + 1 /\ TokensIn(d, SubSeq(bs, f, n + 1)) > MaxTokens)
    <2>1. new = acc
      BY <1>6 DEF Fill
    <2>2. FitsIn(d, bs, [first |-> f, last |-> n + 1])
      <3>1. CASE f < n + 1
        BY <1>6, <3>1 DEF FitsIn
      <3>2. CASE f = n + 1
        <4>1. SubSeq(bs, f, n) = <<>>
          BY <1>2, <3>2
        <4>2. TokensIn(d, SubSeq(bs, f, n)) = 0 /\ 0 <= OverlapTokens
          BY <4>1, NoTokens, ChunkingAssumption
        <4> QED BY <1>2, <4>2 DEF FitsIn
      <3> QED BY <1>1, <1>2, <3>1, <3>2
    <2>3. f <= n + 1 + 1 /\ \A k \in 1 .. Len(ws) : ws[k].last < n + 1
      <3>1. \A k \in 1 .. Len(ws) : ws[k] \in Spans
        BY <1>2
      <3>2. \A k \in 1 .. Len(ws) : ws[k].last \in Nat /\ ws[k].last < n
        BY <1>1, <3>1 DEF Spans
      <3> HIDE DEF ws
      <3>3. \A k \in 1 .. Len(ws) : ws[k].last < n + 1
        BY <3>2
      <3> QED BY <1>1, <1>2, <3>3
    <2>4. \A i \in 1 .. n + 1 : i >= f \/ Covers(ws, i)
      <3>1. \A i \in 1 .. n + 1 : i \in 1 .. n \/ i = n + 1
        BY <1>2
      <3> HIDE DEF ws, f
      <3> QED BY <1>1, <1>2, <3>1
    <2> HIDE DEF new
    <2>5. FillSo(d, bs, n + 1, acc)
      BY <1>1, <2>2, <2>3, <2>4 DEF FillSo
    <2> QED BY <2>1, <2>5 DEF new
  <1> QED BY <1>5, <1>6

LEMMA FillHolds ==
  ASSUME NEW d, NEW bs \in Seq(Spans)
  PROVE  FillSo(d, bs, Len(bs), FillTo(d, bs)[Len(bs)])
  <1> DEFINE E == FillTo(d, bs)
             N == Len(bs)
             M == {m \in Nat : m <= N => FillSo(d, bs, m, E[m])}
  <1>1. N \in Nat
    OBVIOUS
  <1>2. /\ \A n \in 0 .. N : n = 0 => E[n] = [done |-> <<>>, first |-> 1]
        /\ \A n \in 0 .. N : n # 0 => E[n] = Fill(d, bs, n, E[n-1])
    BY FillSteps
  <1> HIDE DEF E
  <1>3. 0 \in M
    <2> DEFINE acc == [done |-> <<>>, first |-> 1]
    <2>1. E[0] = acc
      BY <1>1, <1>2
    <2>2. acc \in Cutting /\ acc.first = 1 /\ acc.done = <<>>
      BY DEF Cutting
    <2> HIDE DEF acc
    <2>3. FillSo(d, bs, 0, acc)
      BY <2>2 DEF FillSo
    <2> QED BY <2>1, <2>3
  <1>4. ASSUME NEW m \in Nat, m \in M PROVE m + 1 \in M
    <2> SUFFICES ASSUME m + 1 <= N PROVE FillSo(d, bs, m + 1, E[m + 1])
      OBVIOUS
    <2>1. m <= N /\ m + 1 \in 0 .. N /\ m + 1 # 0 /\ m + 1 - 1 = m
      BY <1>1
    <2>2. E[m + 1] = Fill(d, bs, m + 1, E[m]) /\ FillSo(d, bs, m, E[m])
      BY <1>2, <1>4, <2>1
    <2> QED BY <2>2, FillKeeps
  <1> HIDE DEF M
  <1>5. N \in M
    BY <1>1, <1>3, <1>4, SetInduction
  <1>6. N <= N
    BY <1>1
  <1> QED BY <1>5, <1>6 DEF M, E

\* The windows hold every block, end in the order of the blocks, and fit.
WindowsOf(d, bs, ws) ==
  /\ ws \in Seq(Spans)
  /\ \A k \in 1 .. Len(ws) : ws[k].first <= ws[k].last /\ ws[k].last <= Len(bs) /\ FitsIn(d, bs, ws[k])
  /\ \A j, k \in 1 .. Len(ws) : j < k => ws[j].last < ws[k].last
  /\ \A i \in 1 .. Len(bs) : Covers(ws, i)

LEMMA WindowsFacts ==
  ASSUME NEW d, NEW bs \in Seq(Spans)
  PROVE  WindowsOf(d, bs, Windows(d, bs))
  <1>1. CASE bs = <<>>
    <2>1. Windows(d, bs) = <<>> /\ Len(bs) = 0
      BY <1>1 DEF Windows
    <2> QED BY <2>1 DEF WindowsOf
  <1>2. CASE bs # <<>>
    <2> DEFINE N == Len(bs)
               end == FillTo(d, bs)[N]
               ws == end.done
               w == [first |-> end.first, last |-> N]
    <2>1. N \in Nat /\ N # 0 /\ N <= N /\ N < N + 1 /\ N + 1 \in Nat
      BY <1>2
    <2>2. FillSo(d, bs, N, end)
      BY FillHolds
    <2>3. Windows(d, bs) = Append(ws, w)
      BY <1>2 DEF Windows
    <2> HIDE DEF end, N
    <2>4. /\ end \in Cutting /\ end.first <= N /\ FitsIn(d, bs, w)
          /\ \A k \in 1 .. Len(ws) : ws[k].first <= ws[k].last /\ ws[k].last < N /\ FitsIn(d, bs, ws[k])
          /\ \A j, k \in 1 .. Len(ws) : j < k => ws[j].last < ws[k].last
          /\ \A i \in 1 .. N : i >= end.first \/ Covers(ws, i)
      BY <2>1, <2>2 DEF FillSo
    <2>5. ws \in Seq(Spans) /\ end.first \in Nat \ {0}
      BY <2>4 DEF Cutting
    <2>6. w \in Spans /\ w.first = end.first /\ w.last = N
      BY <2>1, <2>5 DEF Spans
    <2>7. w.first <= w.last /\ w.last < N + 1
      BY <2>1, <2>4, <2>6
    <2> HIDE DEF ws, w
    <2>8. /\ Append(ws, w) \in Seq(Spans)
          /\ \A k \in 1 .. Len(Append(ws, w)) : /\ Append(ws, w)[k].first <= Append(ws, w)[k].last
                                                /\ Append(ws, w)[k].last < N + 1
                                                /\ FitsIn(d, bs, Append(ws, w)[k])
          /\ \A j, k \in 1 .. Len(Append(ws, w)) : j < k => Append(ws, w)[j].last < Append(ws, w)[k].last
          /\ \A i : Covers(ws, i) \/ i \in Lines(w) => Covers(Append(ws, w), i)
      BY <2>1, <2>4, <2>5, <2>6, <2>7, WindowAdded
    <2> DEFINE vs == Append(ws, w)
    <2>9. \A k \in 1 .. Len(vs) : vs[k] \in Spans
      <3> HIDE DEF vs
      <3>1. vs \in Seq(Spans)
        BY <2>8 DEF vs
      <3> QED BY <3>1
    <2> HIDE DEF vs
    <2>10. \A k \in 1 .. Len(vs) : vs[k].last <= N
      <3> SUFFICES ASSUME NEW k \in 1 .. Len(vs) PROVE vs[k].last <= N
        OBVIOUS
      <3>1. vs[k].last \in Nat
        BY <2>9 DEF Spans
      <3>2. vs[k].last < N + 1
        BY <2>8 DEF vs
      <3> QED BY <2>1, <3>1, <3>2
    <2>11. \A i \in 1 .. N : Covers(vs, i)
      <3> SUFFICES ASSUME NEW i \in 1 .. N PROVE Covers(vs, i)
        OBVIOUS
      <3>1. i >= end.first => i \in Lines(w)
        BY <2>1, <2>5, <2>6 DEF Lines
      <3> QED BY <2>4, <2>8, <3>1 DEF vs
    <2> QED BY <2>3, <2>8, <2>10, <2>11 DEF WindowsOf, vs, N
  <1> QED BY <1>1, <1>2

-----------------------------------------------------------------------------
(* One sequence of sequences *)

\* F[n] is the first n sequences of s, joined.
JoinsTo(F, s) ==
  /\ F[0] = <<>>
  /\ \A n \in 1 .. Len(s) : F[n] = F[n-1] \o s[n]
  /\ FlattenSeq(s) = F[Len(s)]

Flattening(g, s) == g = [i \in 1 .. Len(s) |-> IF i = 1 THEN s[i] ELSE g[i-1] \o s[i]]

LEMMA FlattenIs ==
  ASSUME NEW s, Len(s) # 0
  PROVE  FlattenSeq(s) = (CHOOSE g : Flattening(g, s))[Len(s)]
  BY DEF FlattenSeq, Flattening

LEMMA FlattenJoins ==
  ASSUME NEW T, NEW s \in Seq(Seq(T))
  PROVE  \E F : JoinsTo(F, s) /\ \A n \in 0 .. Len(s) : F[n] \in Seq(T)
  <1> DEFINE N == Len(s)
             S == Seq(T)
             G == [k \in 1 .. N |-> [a \in S |-> a \o s[k]]]
  <1>1. N \in Nat /\ <<>> \in S /\ \A k \in 1 .. N : s[k] \in S
    OBVIOUS
  <1>2. \A k \in 1 .. N : <<>> \o s[k] = s[k]
    <2> SUFFICES ASSUME NEW k \in 1 .. N PROVE <<>> \o s[k] = s[k]
      OBVIOUS
    <2>1. s[k] \in Seq(T)
      OBVIOUS
    <2> QED BY <2>1
  <1>3. \A a \in S : \A b \in S : a \o b \in S
    OBVIOUS
  <1> HIDE DEF S
  <1>4. StepsIn(G, N, S)
    <2> HIDE DEF N
    <2> QED BY <1>1, <1>3 DEF StepsIn
  <1>5. \A k \in 1 .. N, a \in S : G[k][a] = a \o s[k]
    OBVIOUS
  <1> HIDE DEF G, N
  <1>6. CASE N = 0
    <2>1. s = <<>>
      BY <1>6 DEF N
    <2>2. FlattenSeq(s) = <<>>
      BY <2>1, <1>6 DEF FlattenSeq, N
    <2> DEFINE F == [n \in 0 .. 0 |-> <<>>]
    <2>3. F[0] = <<>> /\ \A n \in 0 .. N : F[n] \in S
      BY <1>1, <1>6
    <2> HIDE DEF F
    <2>4. JoinsTo(F, s)
      BY <1>6, <2>2, <2>3 DEF JoinsTo, N
    <2> QED BY <2>3, <2>4 DEF N, S
  <1>7. CASE N # 0
    <2>1. PICK F : Solves(F, N, S, <<>>, G)
      BY <1>1, <1>4, Recursion
    <2>2. F[0] = <<>> /\ \A k \in 1 .. N : F[k-1] \in S
      BY <1>1, <2>1 DEF Solves
    <2>3. \A k \in 1 .. N : F[k] = F[k-1] \o s[k]
      BY <1>5, <2>1, <2>2 DEF Solves
    <2>4. \E g : Flattening(g, s)
      <3> DEFINE g == [i \in 1 .. N |-> F[i]]
      <3>1. \A i \in 1 .. N : g[i] = IF i = 1 THEN s[i] ELSE g[i-1] \o s[i]
        <4> SUFFICES ASSUME NEW i \in 1 .. N PROVE g[i] = IF i = 1 THEN s[i] ELSE g[i-1] \o s[i]
          OBVIOUS
        <4>1. CASE i = 1
          <5>1. g[i] = F[1] /\ 1 - 1 = 0 /\ 1 \in 1 .. N
            BY <4>1
          <5>2. F[1] = F[1-1] \o s[1]
            BY <2>3, <5>1
          <5>3. g[i] = F[0] \o s[i]
            BY <4>1, <5>1, <5>2
          <5> QED BY <1>2, <2>2, <4>1, <5>3
        <4>2. CASE i # 1
          <5>1. i - 1 \in 1 .. N
            BY <1>1, <4>2
          <5> QED BY <2>3, <4>2, <5>1
        <4> QED BY <4>1, <4>2
      <3>2. g = [i \in 1 .. N |-> g[i]]
        OBVIOUS
      <3> HIDE DEF g
      <3>3. Flattening(g, s)
        BY <3>1, <3>2 DEF Flattening, N
      <3> QED BY <3>3
    <2> DEFINE h == CHOOSE g : Flattening(g, s)
    <2>5. Flattening(h, s)
      BY <2>4
    <2>6. FlattenSeq(s) = h[N]
      BY <1>7, FlattenIs DEF N
    <2> HIDE DEF h
    <2>7. \A i \in 1 .. N : h[i] = IF i = 1 THEN s[i] ELSE h[i-1] \o s[i]
      BY <2>5 DEF Flattening, N
    <2> DEFINE E == [n \in 0 .. N |-> IF n = 0 THEN <<>> ELSE h[n]]
    <2>8. E[0] = <<>> /\ \A n \in 1 .. N : E[n] = h[n]
      BY <1>1
    <2>9. \A n \in 1 .. N : n # 1 => n - 1 \in 1 .. N
      BY <1>1
    <2> HIDE DEF E
    <2>10. \A n \in 1 .. N : E[n] = E[n-1] \o s[n]
      <3> SUFFICES ASSUME NEW n \in 1 .. N PROVE E[n] = E[n-1] \o s[n]
        OBVIOUS
      <3>1. CASE n = 1
        <4>1. n - 1 = 0 /\ E[n] = s[n]
          BY <2>7, <2>8, <3>1
        <4> QED BY <1>2, <2>8, <4>1
      <3>2. CASE n # 1
        BY <2>7, <2>8, <2>9, <3>2
      <3> QED BY <3>1, <3>2
    <2>11. \A n \in 0 .. N : E[n] \in S
      <3>1. \A n \in 1 .. N : E[n-1] \in S => E[n] = G[n][E[n-1]]
        BY <1>5, <2>10
      <3> QED BY <1>1, <1>4, <2>8, <3>1, StaysIn
    <2>12. JoinsTo(E, s)
      <3>1. N \in 1 .. N
        BY <1>1, <1>7
      <3> QED BY <2>6, <2>8, <2>10, <3>1 DEF JoinsTo, N
    <2> QED BY <2>11, <2>12 DEF N, S
  <1> QED BY <1>6, <1>7

-----------------------------------------------------------------------------
(* Sections and blocks *)

All(d) == [first |-> 1, last |-> Len(d)]

HeadingsOf(d) == {i \in DOMAIN d : IsHeading(d, i)}

BlanksOf(d, s) == {i \in Lines(s) : Splits(FencesFrom(d, s.first)[i - 1], d[i])}

IsSection(d, s) == IsRun(d, All(d), HeadingsOf(d), s)

LEMMA SectionsFacts ==
  ASSUME NEW d \in Seq(Kinds)
  PROVE  /\ RunsBefore(d, All(d), HeadingsOf(d), Sections(d), Len(d) + 1)
         /\ \A i \in DOMAIN d : i \in HeadingsOf(d) \/ d[i] = "blank" \/ Covers(Sections(d), i)
  <1>1. /\ All(d) \in Spans /\ All(d).first = 1 /\ All(d).last = Len(d) /\ Len(d) \in Nat
        /\ DOMAIN d = 1 .. Len(d)
    BY DEF All, Spans
  <1>2. Lines(All(d)) = 1 .. Len(d) /\ All(d).first <= All(d).last + 1
    BY <1>1 DEF Lines
  <1>3. Sections(d) = Runs(d, All(d), HeadingsOf(d))
    BY DEF Sections, All, HeadingsOf
  <1> QED BY <1>1, <1>2, <1>3, RunsFacts

LEMMA SectionsAre ==
  ASSUME NEW d \in Seq(Kinds)
  PROVE  /\ Sections(d) \in Seq(Spans) /\ Len(Sections(d)) \in Nat
         /\ \A k \in 1 .. Len(Sections(d)) : IsSection(d, Sections(d)[k]) /\ Sections(d)[k] \in Spans
         /\ \A j, k \in 1 .. Len(Sections(d)) : j < k => Sections(d)[j].last < Sections(d)[k].first
  <1> DEFINE S == Sections(d)
  <1>1. RunsBefore(d, All(d), HeadingsOf(d), S, Len(d) + 1)
    BY SectionsFacts
  <1> HIDE DEF S
  <1>2. /\ S \in Seq(Spans)
        /\ \A k \in 1 .. Len(S) : IsRun(d, All(d), HeadingsOf(d), S[k])
        /\ \A j, k \in 1 .. Len(S) : j < k => S[j].last < S[k].first
    BY <1>1 DEF RunsBefore
  <1>3. Len(S) \in Nat /\ \A k \in 1 .. Len(S) : S[k] \in Spans
    BY <1>2
  <1> QED BY <1>2, <1>3 DEF IsSection, S

\* A section has no heading, and starts outside a fence: looking for fences from its first
\* line on finds those of the document.
LEMMA SectionIs ==
  ASSUME NEW d \in Seq(Kinds), NEW s, IsSection(d, s)
  PROVE  /\ s \in Spans /\ s.first <= s.last /\ s.last <= Len(d) /\ s.first \in 1 .. Len(d) + 1
         /\ \A i \in Lines(s) : i \in DOMAIN d /\ ~IsHeading(d, i)
         /\ \A n \in s.first - 1 .. Len(d) : FencesFrom(d, s.first)[n] = Fences(d)[n]
  <1>1. /\ s \in Spans /\ 1 <= s.first /\ s.first <= s.last /\ s.last <= Len(d)
        /\ Lines(s) \cap HeadingsOf(d) = {}
        /\ s.first = 1 \/ s.first - 1 \in HeadingsOf(d)
    BY DEF IsSection, IsRun, All
  <1>2. s.first \in Nat \ {0} /\ s.last \in Nat /\ Len(d) \in Nat /\ DOMAIN d = 1 .. Len(d)
    BY <1>1 DEF Spans
  <1>3. s.first \in 1 .. Len(d) + 1
    BY <1>1, <1>2
  <1>4. \A i \in Lines(s) : i \in DOMAIN d
    BY <1>1, <1>2 DEF Lines
  <1>5. \A i \in Lines(s) : ~IsHeading(d, i)
    BY <1>1, <1>4 DEF HeadingsOf
  <1>6. Fences(d)[s.first - 1] = Open
    <2>1. CASE s.first = 1
      <3>1. 0 \in 0 .. Len(d) /\ 1 \in Nat \ {0} /\ 0 < 1
        BY <1>2
      <3>2. FencesFrom(d, 1)[0] = Open
        BY <3>1, FenceSteps
      <3> QED BY <2>1, <3>2 DEF Fences
    <2>2. CASE s.first - 1 \in HeadingsOf(d)
      <3>1. s.first - 1 \in DOMAIN d /\ IsHeading(d, s.first - 1)
        BY <2>2 DEF HeadingsOf
      <3> QED BY <3>1, HeadingsAreOutside
    <2> QED BY <1>1, <2>1, <2>2
  <1>7. \A n \in s.first - 1 .. Len(d) : FencesFrom(d, s.first)[n] = Fences(d)[n]
    BY <1>3, <1>6, FencesAgree
  <1> QED BY <1>1, <1>3, <1>4, <1>5, <1>7

\* Where the text of a section is cut: at its blank lines outside a fence.
LEMMA BlanksAre ==
  ASSUME NEW d \in Seq(Kinds), NEW s, IsSection(d, s)
  PROVE  BlanksOf(d, s) = {i \in Lines(s) : d[i] = "blank" /\ Fences(d)[i - 1] = Open}
  <1>1. s.first \in Nat \ {0} /\ s.last \in Nat /\ s.last <= Len(d) /\ Len(d) \in Nat
    BY SectionIs DEF Spans
  <1>2. \A i \in Lines(s) : i - 1 \in s.first - 1 .. Len(d)
    BY <1>1 DEF Lines
  <1>3. \A i \in Lines(s) : FencesFrom(d, s.first)[i - 1] = Fences(d)[i - 1]
    BY <1>2, SectionIs
  <1> QED BY <1>3 DEF BlanksOf, Splits

LEMMA BlocksFacts ==
  ASSUME NEW d \in Seq(Kinds), NEW s, IsSection(d, s)
  PROVE  /\ Blocks(d, s) \in Seq(Spans)
         /\ RunsBefore(d, s, BlanksOf(d, s), Blocks(d, s), s.last + 1)
         /\ \A i \in Lines(s) : d[i] = "blank" \/ Covers(Blocks(d, s), i)
  <1>1. s \in Spans /\ s.first <= s.last + 1
    BY SectionIs DEF Spans
  <1>2. Blocks(d, s) = Runs(d, s, BlanksOf(d, s))
    BY DEF Blocks, BlanksOf
  <1>3. \A i \in BlanksOf(d, s) : d[i] = "blank"
    BY BlanksAre
  <1>4. RunsBefore(d, s, BlanksOf(d, s), Blocks(d, s), s.last + 1)
    BY <1>1, <1>2, RunsFacts
  <1>5. \A i \in Lines(s) : i \in BlanksOf(d, s) \/ d[i] = "blank" \/ Covers(Blocks(d, s), i)
    BY <1>1, <1>2, RunsFacts
  <1> QED BY <1>3, <1>4, <1>5 DEF RunsBefore

\* One block of a section.
LEMMA BlockIs ==
  ASSUME NEW d \in Seq(Kinds), NEW s, IsSection(d, s), NEW k \in 1 .. Len(Blocks(d, s))
  PROVE  LET b == Blocks(d, s)[k]
         IN  /\ b \in Spans /\ s.first <= b.first /\ b.first <= b.last /\ b.last <= s.last
             /\ Lines(b) \subseteq Lines(s)
             /\ \A i \in Lines(b) : Fences(d)[i - 1] # Open => i - 1 \in Lines(b)
  <1> DEFINE b == Blocks(d, s)[k]
  <1>1. IsRun(d, s, BlanksOf(d, s), b)
    BY BlocksFacts DEF RunsBefore
  <1> HIDE DEF b
  <1>2. /\ b \in Spans /\ s.first <= b.first /\ b.first <= b.last /\ b.last <= s.last
        /\ b.first = s.first \/ b.first - 1 \in BlanksOf(d, s)
    BY <1>1 DEF IsRun
  <1>3. b.first \in Nat \ {0} /\ b.last \in Nat /\ s.first \in Nat \ {0} /\ s.last \in Nat
    BY <1>2, SectionIs DEF Spans
  <1>4. Lines(b) \subseteq Lines(s)
    BY <1>2, <1>3 DEF Lines
  <1>5. ASSUME NEW i \in Lines(b), Fences(d)[i - 1] # Open PROVE i - 1 \in Lines(b)
    <2>1. i \in Nat /\ b.first <= i /\ i <= b.last
      BY <1>3 DEF Lines
    <2>2. i # b.first
      <3> SUFFICES ASSUME i = b.first PROVE FALSE
        OBVIOUS
      <3>1. CASE b.first = s.first
        <4>1. /\ \A n \in s.first - 1 .. Len(d) : FencesFrom(d, s.first)[n] = Fences(d)[n]
              /\ s.last <= Len(d) /\ s.first <= s.last
          BY SectionIs
        <4>2. s.first - 1 \in s.first - 1 .. Len(d) /\ s.first - 1 \in 0 .. Len(d) /\ s.first - 1 < s.first
          BY <1>3, <4>1
        <4>3. FencesFrom(d, s.first)[s.first - 1] = Open
          BY <1>3, <4>2, FenceSteps
        <4> QED BY <1>5, <3>1, <4>1, <4>2, <4>3
      <3>2. CASE b.first - 1 \in BlanksOf(d, s)
        <4> DEFINE p == b.first - 1
        <4>1. p \in Lines(s) /\ d[p] = "blank" /\ Fences(d)[p - 1] = Open
          BY <3>2, BlanksAre
        <4>2. p \in 1 .. Len(d)
          BY <4>1, SectionIs
        <4>3. p \in 0 .. Len(d) /\ 1 \in Nat \ {0} /\ p >= 1
          BY <4>2
        <4>4. FencesFrom(d, 1)[p] = Fence(FencesFrom(d, 1)[p - 1], d[p])
          BY <4>3, FenceSteps
        <4>5. Fences(d)[p] = Open
          BY <4>1, <4>4 DEF Fences, Fence, FenceMarks
        <4> QED BY <1>5, <4>5
      <3> QED BY <1>2, <3>1, <3>2
    <2> QED BY <1>3, <2>1, <2>2 DEF Lines
  <1> QED BY <1>2, <1>4, <1>5 DEF b

-----------------------------------------------------------------------------
(* Passages *)

\* A passage of a section: some consecutive blocks under its trail.
IsPart(d, s, c, j, k) ==
  /\ 1 <= j /\ j <= k /\ k <= Len(Blocks(d, s))
  /\ c.path = Trails(d)[s.last] /\ c.blocks = SubSeq(Blocks(d, s), j, k)
  /\ FitsIn(d, Blocks(d, s), [first |-> j, last |-> k])

Parts == [path : Seq(Nat), blocks : Seq(Spans)]

LEMMA PassedFacts ==
  ASSUME NEW d \in Seq(Kinds), NEW s, IsSection(d, s)
  PROVE  LET W == Windows(d, Blocks(d, s))
             P == Passed(d, s)
         IN  /\ P \in Seq(Parts) /\ Len(P) = Len(W)
             /\ \A k \in 1 .. Len(W) : W[k] \in Spans /\ IsPart(d, s, P[k], W[k].first, W[k].last)
  <1> DEFINE B == Blocks(d, s)
             W == Windows(d, B)
             P == Passed(d, s)
  <1>1. B \in Seq(Spans) /\ Len(B) \in Nat
    BY BlocksFacts
  <1>2. WindowsOf(d, B, W)
    BY <1>1, WindowsFacts
  <1>3. P = [k \in DOMAIN W |-> [path |-> Trails(d)[s.last], blocks |-> SubSeq(B, W[k].first, W[k].last)]]
    BY DEF Passed
  <1> HIDE DEF B, W, P
  <1>4. /\ W \in Seq(Spans)
        /\ \A k \in 1 .. Len(W) : W[k].first <= W[k].last /\ W[k].last <= Len(B) /\ FitsIn(d, B, W[k])
    BY <1>2 DEF WindowsOf
  <1>5. Len(W) \in Nat /\ DOMAIN W = 1 .. Len(W) /\ \A k \in 1 .. Len(W) : W[k] \in Spans
    BY <1>4
  <1>6. \A k \in 1 .. Len(W) : W[k].first \in Nat \ {0} /\ W[k].last \in Nat
    BY <1>5 DEF Spans
  <1>7. Trails(d)[s.last] \in Seq(Nat)
    <2>1. s.last \in 0 .. Len(d)
      BY SectionIs DEF Spans
    <2> QED BY <2>1, TrailSteps
  <1>8. \A k \in 1 .. Len(W) : SubSeq(B, W[k].first, W[k].last) \in Seq(Spans)
    <2> SUFFICES ASSUME NEW k \in 1 .. Len(W) PROVE SubSeq(B, W[k].first, W[k].last) \in Seq(Spans)
      OBVIOUS
    <2>1. \A i \in W[k].first .. W[k].last : B[i] \in Spans
      <3>1. \A i \in W[k].first .. W[k].last : i \in 1 .. Len(B)
        <4>1. W[k].first \in Nat \ {0} /\ W[k].last \in Nat /\ W[k].last <= Len(B)
          BY <1>4, <1>6
        <4> QED BY <1>1, <4>1
      <3> QED BY <1>1, <3>1
    <2> DEFINE j == W[k].first
               l == W[k].last
    <2>2. j \in Nat \ {0} /\ l \in Nat /\ j <= l /\ l <= Len(B)
      BY <1>4, <1>6
    <2> HIDE DEF j, l
    <2>3. SubSeq(B, j, l) \in Seq(Spans)
      BY <1>1, <2>2
    <2> QED BY <2>3 DEF j, l
  <1>9. \A k \in 1 .. Len(W) :
          /\ P[k] \in Parts /\ P[k].path = Trails(d)[s.last]
          /\ P[k].blocks = SubSeq(B, W[k].first, W[k].last)
    BY <1>3, <1>5, <1>7, <1>8 DEF Parts
  <1>10. P \in Seq(Parts) /\ Len(P) = Len(W)
    <2>1. DOMAIN P = 1 .. Len(W) /\ P = [k \in 1 .. Len(W) |-> P[k]]
      BY <1>3, <1>5
    <2> QED BY <1>5, <1>9, <2>1
  <1>11. \A k \in 1 .. Len(W) : W[k] = [first |-> W[k].first, last |-> W[k].last]
    BY <1>5 DEF Spans
  <1>12. \A k \in 1 .. Len(W) : IsPart(d, s, P[k], W[k].first, W[k].last)
    <2> SUFFICES ASSUME NEW k \in 1 .. Len(W) PROVE IsPart(d, s, P[k], W[k].first, W[k].last)
      OBVIOUS
    <2>1. FitsIn(d, B, [first |-> W[k].first, last |-> W[k].last])
      BY <1>4, <1>11
    <2>2. 1 <= W[k].first
      BY <1>6
    <2> QED BY <1>4, <1>9, <2>1, <2>2 DEF IsPart, B
  <1> QED BY <1>5, <1>10, <1>12 DEF P, W, B

\* The lines of a passage are those of its blocks, the last one's last at the end.
LEMMA PartLines ==
  ASSUME NEW d \in Seq(Kinds), NEW s, IsSection(d, s), NEW c, NEW j \in Nat, NEW k \in Nat,
         IsPart(d, s, c, j, k)
  PROVE  /\ \A x : x \in LinesOf(c) <=> \E i \in j .. k : x \in Lines(Blocks(d, s)[i])
         /\ LinesOf(c) \subseteq Lines(s) /\ LinesOf(c) # {}
         /\ Max(LinesOf(c)) = Blocks(d, s)[k].last /\ Max(LinesOf(c)) \in Lines(s)
         /\ \A x \in LinesOf(c) : Fences(d)[x - 1] # Open => x - 1 \in LinesOf(c)
  <1> DEFINE B == Blocks(d, s)
  <1>1. B \in Seq(Spans) /\ Len(B) \in Nat
    BY BlocksFacts
  <1>2. /\ 1 <= j /\ j <= k /\ k <= Len(B) /\ c.blocks = SubSeq(B, j, k)
    BY DEF IsPart
  <1>3. /\ \A i \in 1 .. Len(B) : /\ B[i] \in Spans /\ s.first <= B[i].first /\ B[i].first <= B[i].last
                                  /\ B[i].last <= s.last /\ Lines(B[i]) \subseteq Lines(s)
                                  /\ \A x \in Lines(B[i]) : Fences(d)[x - 1] # Open => x - 1 \in Lines(B[i])
    BY BlockIs
  <1>4. \A a, b \in 1 .. Len(B) : a < b => B[a].last < B[b].first
    BY BlocksFacts DEF RunsBefore
  <1> HIDE DEF B
  <1>5. \A i \in j .. k : i \in 1 .. Len(B)
    BY <1>1, <1>2
  <1>6. \A b : b \in ToSet(c.blocks) <=> \E i \in j .. k : b = B[i]
    <2> DEFINE t == SubSeq(B, j, k)
               n == k - j + 1
    <2>1. n \in Nat /\ Len(t) = n /\ DOMAIN t = 1 .. n /\ \A i \in 1 .. n : t[i] = B[i + j - 1]
      BY <1>1, <1>2
    <2>2. \A i \in 1 .. n : i + j - 1 \in j .. k
      BY <1>2
    <2>3. \A i \in j .. k : i - j + 1 \in 1 .. n /\ i - j + 1 + j - 1 = i
      BY <1>2
    <2> HIDE DEF t, n
    <2>4. \A b : b \in ToSet(t) <=> \E i \in 1 .. n : b = t[i]
      BY <2>1 DEF ToSet
    <2>5. \A b : (\E i \in 1 .. n : b = t[i]) <=> \E i \in j .. k : b = B[i]
      <3>1. ASSUME NEW i \in 1 .. n PROVE \E m \in j .. k : t[i] = B[m]
        BY <2>1, <2>2
      <3>2. ASSUME NEW i \in j .. k PROVE \E m \in 1 .. n : B[i] = t[m]
        <4>1. t[i - j + 1] = B[i - j + 1 + j - 1] /\ i - j + 1 \in 1 .. n
          BY <2>1, <2>3
        <4>2. B[i - j + 1 + j - 1] = B[i]
          BY <2>3
        <4> QED BY <4>1, <4>2
      <3> QED BY <3>1, <3>2
    <2> QED BY <1>2, <2>4, <2>5 DEF t
  <1>7. \A x : x \in LinesOf(c) <=> \E i \in j .. k : x \in Lines(B[i])
    <2>1. \A x : x \in LinesOf(c) <=> \E b \in ToSet(c.blocks) : x \in Lines(b)
      BY DEF LinesOf
    <2> QED BY <1>6, <2>1
  <1>8. LinesOf(c) \subseteq Lines(s)
    BY <1>3, <1>5, <1>7
  <1>9. k \in j .. k /\ j \in Nat
    BY <1>2
  <1> DEFINE z == B[k].last
  <1>10. z \in LinesOf(c) /\ z \in Nat
    <2>1. B[k] \in Spans /\ B[k].first <= B[k].last
      BY <1>3, <1>5, <1>9
    <2>2. z \in Lines(B[k]) /\ z \in Nat
      BY <2>1 DEF Lines, Spans
    <2> QED BY <1>7, <1>9, <2>2
  <1>11. \A x \in LinesOf(c) : x \in Nat /\ x <= z
    <2> SUFFICES ASSUME NEW i \in j .. k, NEW x \in Lines(B[i]) PROVE x \in Nat /\ x <= z
      BY <1>7
    <2>1. B[i] \in Spans /\ i \in 1 .. Len(B) /\ k \in 1 .. Len(B) /\ B[k] \in Spans
      BY <1>3, <1>5, <1>9
    <2>2. x \in Nat /\ x <= B[i].last /\ B[i].last \in Nat
      BY <2>1 DEF Lines, Spans
    <2>3. CASE i = k
      BY <2>2, <2>3
    <2>4. CASE i # k
      <3>1. i < k
        BY <2>4
      <3>2. B[i].last < B[k].first /\ B[k].first <= B[k].last
        BY <1>3, <1>4, <2>1, <3>1
      <3>3. B[k].first \in Nat /\ B[k].last \in Nat
        BY <2>1 DEF Spans
      <3> QED BY <2>2, <3>2, <3>3
    <2> QED BY <2>3, <2>4
  <1>12. Max(LinesOf(c)) = z
    <2> DEFINE m == Max(LinesOf(c))
               S == LinesOf(c)
    <2>1. S \in SUBSET Nat /\ S # {} /\ z \in Nat
      BY <1>10, <1>11
    <2> HIDE DEF S, z
    <2>2. Max(S) \in S /\ \A x \in S : x <= Max(S)
      BY <1>11, <2>1, MaxFacts DEF S
    <2>3. Max(S) <= z /\ z <= Max(S) /\ Max(S) \in Nat
      BY <1>10, <1>11, <2>1, <2>2 DEF S
    <2>4. Max(S) = z
      BY <2>1, <2>3
    <2> QED BY <2>4 DEF S
  <1>13. \A x \in LinesOf(c) : Fences(d)[x - 1] # Open => x - 1 \in LinesOf(c)
    BY <1>3, <1>5, <1>7
  <1> QED BY <1>7, <1>8, <1>10, <1>12, <1>13 DEF B

PartOf(d, s, c) == \E j, k \in Nat : IsPart(d, s, c, j, k)

\* The passages of a section: they hold every line that is not blank, and end in order.
PassedSo(d, s, P) ==
  /\ P \in Seq(Parts)
  /\ \A k \in 1 .. Len(P) : PartOf(d, s, P[k])
  /\ \A j, k \in 1 .. Len(P) : j < k => Max(LinesOf(P[j])) < Max(LinesOf(P[k]))
  /\ \A i \in Lines(s) : d[i] = "blank" \/ \E k \in 1 .. Len(P) : i \in LinesOf(P[k])

LEMMA SectionPassed ==
  ASSUME NEW d \in Seq(Kinds), NEW s, IsSection(d, s)
  PROVE  PassedSo(d, s, Passed(d, s))
  <1> DEFINE B == Blocks(d, s)
             W == Windows(d, B)
             P == Passed(d, s)
  <1>1. /\ P \in Seq(Parts) /\ Len(P) = Len(W)
        /\ \A k \in 1 .. Len(W) : W[k] \in Spans /\ IsPart(d, s, P[k], W[k].first, W[k].last)
    BY PassedFacts
  <1>2. B \in Seq(Spans) /\ Len(B) \in Nat /\ RunsBefore(d, s, BlanksOf(d, s), B, s.last + 1)
    BY BlocksFacts
  <1>3. WindowsOf(d, B, W)
    BY <1>2, WindowsFacts
  <1>4. \A i \in Lines(s) : d[i] = "blank" \/ Covers(B, i)
    BY BlocksFacts
  <1>5. \A k \in 1 .. Len(B) : B[k] \in Spans /\ B[k].first <= B[k].last
    BY BlockIs
  <1> HIDE DEF B, W, P
  <1>6. /\ W \in Seq(Spans)
        /\ \A k \in 1 .. Len(W) : W[k].first <= W[k].last /\ W[k].last <= Len(B)
        /\ \A j, k \in 1 .. Len(W) : j < k => W[j].last < W[k].last
        /\ \A i \in 1 .. Len(B) : Covers(W, i)
    BY <1>3 DEF WindowsOf
  <1>7. \A k \in 1 .. Len(W) : W[k].first \in Nat \ {0} /\ W[k].last \in Nat
    BY <1>1 DEF Spans
  <1>8. \A k \in 1 .. Len(W) :
          /\ Max(LinesOf(P[k])) = B[W[k].last].last
          /\ \A x : x \in LinesOf(P[k]) <=> \E i \in W[k].first .. W[k].last : x \in Lines(B[i])
    <2> SUFFICES ASSUME NEW k \in 1 .. Len(W)
                 PROVE  /\ Max(LinesOf(P[k])) = B[W[k].last].last
                        /\ \A x : x \in LinesOf(P[k]) <=> \E i \in W[k].first .. W[k].last : x \in Lines(B[i])
      OBVIOUS
    <2> DEFINE a == W[k].first
               b == W[k].last
               c == P[k]
    <2>1. a \in Nat /\ b \in Nat /\ IsPart(d, s, c, a, b)
      BY <1>1, <1>7
    <2> HIDE DEF a, b, c
    <2>2. Max(LinesOf(c)) = B[b].last /\ \A x : x \in LinesOf(c) <=> \E i \in a .. b : x \in Lines(B[i])
      BY <2>1, PartLines DEF B
    <2> QED BY <2>2 DEF a, b, c
  <1>9. \A k \in 1 .. Len(P) : PartOf(d, s, P[k])
    BY <1>1, <1>7 DEF PartOf
  <1>10. \A j, k \in 1 .. Len(P) : j < k => Max(LinesOf(P[j])) < Max(LinesOf(P[k]))
    <2> SUFFICES ASSUME NEW j \in 1 .. Len(W), NEW k \in 1 .. Len(W), j < k
                 PROVE  Max(LinesOf(P[j])) < Max(LinesOf(P[k]))
      BY <1>1
    <2> DEFINE a == W[j].last
               b == W[k].last
    <2>1. a \in 1 .. Len(B) /\ b \in 1 .. Len(B) /\ a < b
      BY <1>2, <1>6, <1>7
    <2> HIDE DEF a, b
    <2>2. B[a].last < B[b].first
      BY <1>2, <2>1 DEF RunsBefore
    <2>3. B[a] \in Spans /\ B[b] \in Spans /\ B[b].first <= B[b].last
      BY <1>5, <2>1
    <2>4. B[a].last < B[b].last
      BY <2>2, <2>3 DEF Spans
    <2> QED BY <1>8, <2>4 DEF a, b
  <1>11. ASSUME NEW i \in Lines(s), d[i] # "blank"
         PROVE  \E k \in 1 .. Len(P) : i \in LinesOf(P[k])
    <2>1. PICK n \in 1 .. Len(B) : i \in Lines(B[n])
      BY <1>4, <1>11 DEF Covers
    <2>2. PICK k \in 1 .. Len(W) : n \in Lines(W[k])
      BY <1>6 DEF Covers
    <2>3. n \in W[k].first .. W[k].last
      BY <2>2 DEF Lines
    <2>4. i \in LinesOf(P[k])
      BY <1>8, <2>1, <2>3
    <2> QED BY <1>1, <2>4
  <1> QED BY <1>1, <1>9, <1>10, <1>11 DEF PassedSo, P

\* The passages of the first n sections.
DocSo(d, n, C) ==
  /\ C \in Seq(Parts)
  /\ \A k \in 1 .. Len(C) : \E m \in 1 .. n : PartOf(d, Sections(d)[m], C[k])
  /\ \A j, k \in 1 .. Len(C) : j < k => Max(LinesOf(C[j])) < Max(LinesOf(C[k]))
  /\ \A m \in 1 .. n : \A i \in Lines(Sections(d)[m]) :
       d[i] = "blank" \/ \E k \in 1 .. Len(C) : i \in LinesOf(C[k])

LEMMA DocGrows ==
  ASSUME NEW d \in Seq(Kinds), NEW n \in Nat, n + 1 <= Len(Sections(d)), NEW C, NEW P,
         DocSo(d, n, C), PassedSo(d, Sections(d)[n + 1], P)
  PROVE  DocSo(d, n + 1, C \o P)
  <1> DEFINE S == Sections(d)
             D == C \o P
  <1>1. S \in Seq(Spans) /\ Len(S) \in Nat
        /\ (\A k \in 1 .. Len(S) : IsSection(d, S[k]) /\ S[k] \in Spans)
        /\ \A j, k \in 1 .. Len(S) : j < k => S[j].last < S[k].first
    BY SectionsAre
  <1>2. /\ C \in Seq(Parts)
        /\ \A k \in 1 .. Len(C) : \E m \in 1 .. n : PartOf(d, S[m], C[k])
        /\ \A j, k \in 1 .. Len(C) : j < k => Max(LinesOf(C[j])) < Max(LinesOf(C[k]))
        /\ \A m \in 1 .. n : \A i \in Lines(S[m]) :
             d[i] = "blank" \/ \E k \in 1 .. Len(C) : i \in LinesOf(C[k])
    BY DEF DocSo
  <1>3. /\ P \in Seq(Parts)
        /\ \A k \in 1 .. Len(P) : PartOf(d, S[n + 1], P[k])
        /\ \A j, k \in 1 .. Len(P) : j < k => Max(LinesOf(P[j])) < Max(LinesOf(P[k]))
        /\ \A i \in Lines(S[n + 1]) : d[i] = "blank" \/ \E k \in 1 .. Len(P) : i \in LinesOf(P[k])
    BY DEF PassedSo
  <1> HIDE DEF S
  <1>4. /\ D \in Seq(Parts) /\ Len(D) = Len(C) + Len(P)
        /\ \A k \in 1 .. Len(C) : D[k] = C[k]
        /\ \A k \in 1 .. Len(P) : D[Len(C) + k] = P[k]
    BY <1>2, <1>3, Joined
  <1>5. Len(C) \in Nat /\ Len(P) \in Nat
    BY <1>2, <1>3
  <1> HIDE DEF D
  <1>6. \A k \in 1 .. Len(D) : \/ k \in 1 .. Len(C) /\ D[k] = C[k]
                               \/ k - Len(C) \in 1 .. Len(P) /\ D[k] = P[k - Len(C)]
    <2> SUFFICES ASSUME NEW k \in 1 .. Len(D), ~(k \in 1 .. Len(C))
                 PROVE  k - Len(C) \in 1 .. Len(P) /\ D[k] = P[k - Len(C)]
      BY <1>4
    <2> DEFINE l == k - Len(C)
    <2>1. l \in 1 .. Len(P) /\ k = Len(C) + l
      BY <1>4, <1>5
    <2> QED BY <1>4, <2>1
  <1>7. \A k \in 1 .. Len(D) : \E m \in 1 .. n + 1 : PartOf(d, S[m], D[k])
    <2> SUFFICES ASSUME NEW k \in 1 .. Len(D) PROVE \E m \in 1 .. n + 1 : PartOf(d, S[m], D[k])
      OBVIOUS
    <2>1. CASE k \in 1 .. Len(C) /\ D[k] = C[k]
      <3>1. PICK m \in 1 .. n : PartOf(d, S[m], C[k])
        BY <1>2, <2>1
      <3>2. m \in 1 .. n + 1
        OBVIOUS
      <3> QED BY <2>1, <3>1, <3>2
    <2>2. CASE k - Len(C) \in 1 .. Len(P) /\ D[k] = P[k - Len(C)]
      <3>1. PartOf(d, S[n + 1], D[k]) /\ n + 1 \in 1 .. n + 1
        BY <1>3, <2>2
      <3> QED BY <3>1
    <2> QED BY <1>6, <2>1, <2>2
  <1>8. \A j, k \in 1 .. Len(D) : j < k => Max(LinesOf(D[j])) < Max(LinesOf(D[k]))
    <2> SUFFICES ASSUME NEW j \in 1 .. Len(D), NEW k \in 1 .. Len(D), j < k
                 PROVE  Max(LinesOf(D[j])) < Max(LinesOf(D[k]))
      OBVIOUS
    <2>1. CASE k \in 1 .. Len(C) /\ D[k] = C[k]
      <3>1. j \in 1 .. Len(C)
        BY <1>5, <2>1
      <3> QED BY <1>2, <1>4, <2>1, <3>1
    <2>2. CASE j \in 1 .. Len(C) /\ D[j] = C[j] /\ k - Len(C) \in 1 .. Len(P) /\ D[k] = P[k - Len(C)]
      <3>1. PICK m \in 1 .. n : PartOf(d, S[m], D[j])
        BY <1>2, <2>2
      <3>2. PartOf(d, S[n + 1], D[k])
        BY <1>3, <2>2
      <3>3. m \in 1 .. Len(S) /\ n + 1 \in 1 .. Len(S) /\ m < n + 1
        BY <1>1 DEF S
      <3>4. \A i \in 1 .. Len(S) : \A c : PartOf(d, S[i], c) => Max(LinesOf(c)) \in Lines(S[i])
        BY <1>1, PartLines DEF PartOf
      <3>5. Max(LinesOf(D[j])) \in Lines(S[m]) /\ Max(LinesOf(D[k])) \in Lines(S[n + 1])
        BY <3>1, <3>2, <3>3, <3>4
      <3> DEFINE x == Max(LinesOf(D[j]))
                 y == Max(LinesOf(D[k]))
                 u == S[m]
                 v == S[n + 1]
      <3>6. u \in Spans /\ v \in Spans /\ u.last < v.first
        BY <1>1, <3>3
      <3> HIDE DEF x, y, u, v
      <3>7. x \in u.first .. u.last /\ y \in v.first .. v.last
        BY <3>5 DEF Lines, x, y, u, v
      <3>8. u.first \in Nat /\ u.last \in Nat /\ v.first \in Nat /\ v.last \in Nat
        BY <3>6 DEF Spans
      <3>9. x < y
        BY <3>6, <3>7, <3>8
      <3> QED BY <3>9 DEF x, y
    <2>3. CASE j - Len(C) \in 1 .. Len(P) /\ D[j] = P[j - Len(C)] /\ k - Len(C) \in 1 .. Len(P) /\ D[k] = P[k - Len(C)]
      <3>1. j - Len(C) < k - Len(C)
        BY <1>5
      <3> QED BY <1>3, <2>3, <3>1
    <2>4. CASE j - Len(C) \in 1 .. Len(P) /\ k \in 1 .. Len(C)
      BY <1>5, <2>4
    <2> QED BY <1>6, <2>1, <2>2, <2>3
  <1>9. \A m \in 1 .. n + 1 : \A i \in Lines(S[m]) :
          d[i] = "blank" \/ \E k \in 1 .. Len(D) : i \in LinesOf(D[k])
    <2> SUFFICES ASSUME NEW m \in 1 .. n + 1, NEW i \in Lines(S[m]), d[i] # "blank"
                 PROVE  \E k \in 1 .. Len(D) : i \in LinesOf(D[k])
      OBVIOUS
    <2>1. CASE m \in 1 .. n
      <3>1. PICK k \in 1 .. Len(C) : i \in LinesOf(C[k])
        BY <1>2, <2>1
      <3>2. k \in 1 .. Len(D)
        BY <1>4, <1>5
      <3> QED BY <1>4, <3>1, <3>2
    <2>2. CASE m = n + 1
      <3>1. PICK k \in 1 .. Len(P) : i \in LinesOf(P[k])
        BY <1>3, <2>2
      <3>2. Len(C) + k \in 1 .. Len(D)
        BY <1>4, <1>5
      <3> QED BY <1>4, <3>1, <3>2
    <2> QED BY <2>1, <2>2
  <1> QED BY <1>4, <1>7, <1>8, <1>9 DEF DocSo, S, D

LEMMA DocHolds ==
  ASSUME NEW d \in Seq(Kinds)
  PROVE  DocSo(d, Len(Sections(d)), ChunkMarkdown(d))
  <1> DEFINE S == Sections(d)
             N == Len(S)
             Q == [n \in DOMAIN S |-> Passed(d, S[n])]
  <1>1. S \in Seq(Spans) /\ N \in Nat /\ DOMAIN S = 1 .. N /\ \A n \in 1 .. N : IsSection(d, S[n])
    BY SectionsAre
  <1>2. ChunkMarkdown(d) = FlattenSeq(Q)
    BY DEF ChunkMarkdown
  <1> HIDE DEF S, Q
  <1>3. \A n \in 1 .. N : PassedSo(d, S[n], Passed(d, S[n]))
    BY <1>1, SectionPassed
  <1>4. Q \in Seq(Seq(Parts)) /\ Len(Q) = N /\ \A n \in 1 .. N : Q[n] = Passed(d, S[n])
    <2>1. \A n \in 1 .. N : Passed(d, S[n]) \in Seq(Parts)
      BY <1>3 DEF PassedSo
    <2> DEFINE T == Seq(Parts)
    <2> HIDE DEF T, N
    <2>2. Q = [n \in 1 .. N |-> Passed(d, S[n])]
      BY <1>1 DEF Q
    <2>3. \A n \in 1 .. N : Passed(d, S[n]) \in T
      BY <2>1 DEF T
    <2>4. Q \in Seq(T) /\ Len(Q) = N
      BY <1>1, <2>2, <2>3
    <2> QED BY <2>2, <2>4 DEF T
  <1>5. PICK F : JoinsTo(F, Q)
    BY <1>4, FlattenJoins
  <1>6. /\ F[0] = <<>> /\ FlattenSeq(Q) = F[N]
        /\ \A n \in 1 .. N : F[n] = F[n-1] \o Q[n]
    BY <1>4, <1>5 DEF JoinsTo
  <1> DEFINE M == {n \in Nat : n <= N => DocSo(d, n, F[n])}
  <1>7. 0 \in M
    <2>1. <<>> \in Seq(Parts) /\ Len(<<>>) = 0
      OBVIOUS
    <2>2. DocSo(d, 0, <<>>)
      BY <2>1 DEF DocSo
    <2> QED BY <1>6, <2>2
  <1>8. ASSUME NEW n \in M PROVE n + 1 \in M
    <2> SUFFICES ASSUME n + 1 <= N PROVE DocSo(d, n + 1, F[n + 1])
      OBVIOUS
    <2>1. n \in Nat /\ n <= N /\ n + 1 \in 1 .. N /\ n + 1 - 1 = n
      BY <1>1
    <2>2. DocSo(d, n, F[n])
      BY <2>1
    <2>3. F[n + 1] = F[n] \o Passed(d, S[n + 1])
      <3> DEFINE m == n + 1
      <3>1. m \in 1 .. N /\ m - 1 = n
        BY <2>1
      <3> HIDE DEF m, N
      <3>2. F[m] = F[m - 1] \o Q[m] /\ Q[m] = Passed(d, S[m])
        BY <1>4, <1>6, <3>1
      <3> QED BY <3>1, <3>2 DEF m
    <2>4. PassedSo(d, Sections(d)[n + 1], Passed(d, S[n + 1]))
      BY <1>3, <2>1 DEF S
    <2>5. n + 1 <= Len(Sections(d))
      BY DEF S
    <2> HIDE DEF M
    <2> QED BY <2>1, <2>2, <2>3, <2>4, <2>5, DocGrows
  <1>9. M \subseteq Nat
    OBVIOUS
  <1> HIDE DEF M
  <1>10. M = Nat
    BY <1>7, <1>8, <1>9, SetInduction
  <1>11. DocSo(d, N, F[N])
    BY <1>1, <1>10 DEF M
  <1> QED BY <1>2, <1>6, <1>11 DEF S

Above(d, i) == {h \in 1 .. i - 1 : IsHeading(d, h)}

Nearest(d, above) == {h \in above : \A g \in above : g > h => Level[d[g]] > Level[d[h]]}

LEMMA AncestorsAre == ASSUME NEW d, NEW i PROVE Ancestors(d, i) = Nearest(d, Above(d, i))
  BY DEF Ancestors, Nearest, Above

\* The trail of a passage of a document that skips no level.
LEMMA PartTrail ==
  ASSUME NEW d \in Seq(Kinds), Tidy(d), NEW s, IsSection(d, s), NEW c, PartOf(d, s, c)
  PROVE  /\ \A i \in LinesOf(c) : ToSet(c.path) = Ancestors(d, i)
         /\ \A j, k \in DOMAIN c.path : j < k => c.path[j] < c.path[k]
  <1>1. c.path = Trails(d)[s.last] /\ LinesOf(c) \subseteq Lines(s)
    BY PartLines DEF PartOf, IsPart
  <1>2. /\ s \in Spans /\ s.last <= Len(d) /\ s.first <= s.last
        /\ \A i \in Lines(s) : i \in DOMAIN d /\ ~IsHeading(d, i)
    BY SectionIs
  <1> DEFINE f == s.first
             l == s.last
             t == Trails(d)[l]
  <1>3. f \in Nat \ {0} /\ l \in Nat /\ f <= l /\ l <= Len(d) /\ Lines(s) = f .. l /\ l \in 0 .. Len(d)
    BY <1>2 DEF Spans, Lines
  <1>4. Stacked(d, l) /\ t \in Seq(Nat)
    BY <1>3, StacksAreAncestors, TrailSteps
  <1>5. ToSet(t) = Ancestors(d, l + 1) /\ \A j, k \in 1 .. Len(t) : j < k => t[j] < t[k]
    BY <1>4 DEF Stacked
  <1> HIDE DEF f, l, t
  <1>6. ASSUME NEW i \in f .. l PROVE Ancestors(d, i) = Ancestors(d, l + 1)
    <2> DEFINE m == l + 1
               A == Above(d, m)
               B == Above(d, i)
    <2>1. m \in Nat /\ i \in Nat /\ m - 1 = l
      BY <1>3
    <2> HIDE DEF m
    <2>2. (\A h : h \in A <=> h \in 1 .. m - 1 /\ IsHeading(d, h))
          /\ (\A h : h \in B <=> h \in 1 .. i - 1 /\ IsHeading(d, h))
      BY DEF Above
    <2> HIDE DEF A, B
    <2>3. ASSUME NEW h PROVE h \in A <=> h \in B
      <3>1. CASE h \in i .. l
        <4>1. h \in f .. l
          BY <1>3, <3>1
        <4>2. ~IsHeading(d, h)
          BY <1>2, <1>3, <4>1
        <4> QED BY <2>2, <4>2
      <3>2. CASE h \notin i .. l
        <4>1. h \in 1 .. m - 1 <=> h \in 1 .. i - 1
          BY <1>3, <2>1, <3>2
        <4> QED BY <2>2, <4>1
      <3> QED BY <3>1, <3>2
    <2>4. A = B
      BY <2>3
    <2>5. Ancestors(d, i) = Nearest(d, B) /\ Ancestors(d, m) = Nearest(d, A)
      BY AncestorsAre DEF A, B
    <2> QED BY <2>4, <2>5 DEF m
  <1>7. DOMAIN t = 1 .. Len(t)
    BY <1>4
  <1> QED BY <1>1, <1>3, <1>5, <1>6, <1>7 DEF t, l

\* A passage over the limit is one block and an overlap.
LEMMA PartFits ==
  ASSUME NEW d \in Seq(Kinds), NEW s, IsSection(d, s), NEW c, PartOf(d, s, c)
  PROVE  TokensIn(d, c.blocks) > MaxTokens => TokensIn(d, Front(c.blocks)) <= OverlapTokens
  <1> DEFINE B == Blocks(d, s)
  <1>1. PICK j \in Nat, k \in Nat : IsPart(d, s, c, j, k)
    BY DEF PartOf
  <1>2. 1 <= j /\ j <= k /\ k <= Len(B) /\ c.blocks = SubSeq(B, j, k) /\ FitsIn(d, B, [first |-> j, last |-> k])
    BY <1>1 DEF IsPart
  <1>3. B \in Seq(Spans)
    BY BlocksFacts
  <1> HIDE DEF B
  <1>4. Front(c.blocks) = SubSeq(B, j, k - 1)
    <2> DEFINE t == SubSeq(B, j, k)
               n == k - j
    <2>1. n \in Nat /\ Len(t) = n + 1 /\ \A i \in 1 .. n + 1 : t[i] = B[i + j - 1]
      BY <1>2, <1>3
    <2>2. Front(t) = SubSeq(t, 1, n)
      BY <2>1 DEF Front
    <2>3. SubSeq(t, 1, n) = [i \in 1 .. n |-> t[i]]
      <3> HIDE DEF t
      <3> QED BY <2>1 DEF SubSeq
    <2>4. SubSeq(B, j, k - 1) = [i \in 1 .. n |-> B[i + j - 1]]
      <3>1. k - 1 - j + 1 = n
        BY <1>2
      <3> QED BY <1>2, <1>3, <3>1
    <2>5. \A i \in 1 .. n : t[i] = B[i + j - 1]
      BY <2>1
    <2> HIDE DEF t, n
    <2> QED BY <1>2, <2>2, <2>3, <2>4, <2>5 DEF t
  <1> QED BY <1>2, <1>4 DEF FitsIn

-----------------------------------------------------------------------------
(* The passages of a document *)

\* What ChunkMarkdown gives, of any document: each passage is cut from one section, and the
\* passages hold what was written, in its order.
LEMMA ChunksAre ==
  ASSUME NEW d \in Seq(Kinds)
  PROVE  LET C == ChunkMarkdown(d)
         IN  /\ C \in Seq(Parts)
             /\ \A c \in ToSet(C) : \E s : IsSection(d, s) /\ PartOf(d, s, c)
             /\ \A j, k \in 1 .. Len(C) : j < k => Max(LinesOf(C[j])) < Max(LinesOf(C[k]))
             /\ \A i \in DOMAIN d :
                  d[i] = "blank" \/ IsHeading(d, i) \/ \E k \in 1 .. Len(C) : i \in LinesOf(C[k])
  <1> DEFINE S == Sections(d)
             C == ChunkMarkdown(d)
  <1>1. /\ S \in Seq(Spans) /\ \A n \in 1 .. Len(S) : IsSection(d, S[n])
        /\ \A i \in DOMAIN d : i \in HeadingsOf(d) \/ d[i] = "blank" \/ Covers(S, i)
    BY SectionsFacts, SectionsAre
  <1>2. /\ C \in Seq(Parts)
        /\ \A k \in 1 .. Len(C) : \E m \in 1 .. Len(S) : PartOf(d, S[m], C[k])
        /\ \A j, k \in 1 .. Len(C) : j < k => Max(LinesOf(C[j])) < Max(LinesOf(C[k]))
        /\ \A m \in 1 .. Len(S) : \A i \in Lines(S[m]) :
             d[i] = "blank" \/ \E k \in 1 .. Len(C) : i \in LinesOf(C[k])
    BY DocHolds DEF DocSo
  <1> HIDE DEF S, C
  <1>3. \A c \in ToSet(C) : \E s : IsSection(d, s) /\ PartOf(d, s, c)
    <2> SUFFICES ASSUME NEW k \in 1 .. Len(C) PROVE \E s : IsSection(d, s) /\ PartOf(d, s, C[k])
      BY <1>2 DEF ToSet
    <2>1. PICK m \in 1 .. Len(S) : PartOf(d, S[m], C[k])
      BY <1>2
    <2> QED BY <1>1, <2>1
  <1>4. ASSUME NEW i \in DOMAIN d, d[i] # "blank", ~IsHeading(d, i)
        PROVE  \E k \in 1 .. Len(C) : i \in LinesOf(C[k])
    <2>1. Covers(S, i)
      BY <1>1, <1>4 DEF HeadingsOf
    <2>2. PICK m \in 1 .. Len(S) : i \in Lines(S[m])
      BY <2>1 DEF Covers
    <2> QED BY <1>2, <1>4, <2>2
  <1> QED BY <1>2, <1>3, <1>4 DEF C

ChunkingIInv == doc \in Seq(Kinds)

LEMMA DocumentIsWritten ==
  /\ ChunkingInit => ChunkingIInv
  /\ ChunkingIInv /\ [ChunkingNext]_doc => ChunkingIInv'
  <1>1. ChunkingInit => ChunkingIInv
    BY DEF ChunkingInit, ChunkingIInv
  <1>2. ASSUME ChunkingIInv, NEW line \in Kinds, Write(line) PROVE ChunkingIInv'
    BY <1>2 DEF Write, ChunkingIInv
  <1>3. ASSUME ChunkingIInv, UNCHANGED doc PROVE ChunkingIInv'
    BY <1>3 DEF ChunkingIInv
  <1> QED BY <1>1, <1>2, <1>3 DEF ChunkingNext

LEMMA PassagesAreRight ==
  ASSUME ChunkingIInv
  PROVE  CutWhereAllowed /\ TrailIsAncestors
  <1> DEFINE C == ChunkMarkdown(doc)
  <1>1. /\ C \in Seq(Parts)
        /\ \A c \in ToSet(C) : \E s : IsSection(doc, s) /\ PartOf(doc, s, c)
        /\ \A j, k \in 1 .. Len(C) : j < k => Max(LinesOf(C[j])) < Max(LinesOf(C[k]))
        /\ \A i \in DOMAIN doc :
             doc[i] = "blank" \/ IsHeading(doc, i) \/ \E k \in 1 .. Len(C) : i \in LinesOf(C[k])
    BY ChunksAre DEF ChunkingIInv
  <1> HIDE DEF C
  <1>2. NothingIsLost
    <2>1. DOMAIN C = 1 .. Len(C)
      BY <1>1
    <2> QED BY <1>1, <2>1 DEF NothingIsLost, C
  <1>3. FencesAreWhole
    <2> SUFFICES ASSUME NEW c \in ToSet(C), NEW i \in DOMAIN doc, Fences(doc)[i - 1] # Open, i \in LinesOf(c)
                 PROVE  i - 1 \in LinesOf(c)
      BY DEF FencesAreWhole, C
    <2>1. PICK s : IsSection(doc, s) /\ PartOf(doc, s, c)
      BY <1>1
    <2> QED BY <2>1, PartLines DEF PartOf, ChunkingIInv
  <1>4. WindowsFit
    <2> SUFFICES ASSUME NEW c \in ToSet(C)
                 PROVE  TokensIn(doc, c.blocks) > MaxTokens => TokensIn(doc, Front(c.blocks)) <= OverlapTokens
      BY DEF WindowsFit, C
    <2>1. PICK s : IsSection(doc, s) /\ PartOf(doc, s, c)
      BY <1>1
    <2> QED BY <2>1, PartFits DEF ChunkingIInv
  <1>5. TrailIsAncestors
    <2> SUFFICES ASSUME NoLevelSkipped, NEW c \in ToSet(C)
                 PROVE  /\ \A i \in LinesOf(c) : ToSet(c.path) = Ancestors(doc, i)
                        /\ \A j, k \in DOMAIN c.path : j < k => c.path[j] < c.path[k]
      BY DEF TrailIsAncestors, C
    <2>1. Tidy(doc)
      BY DEF NoLevelSkipped, Tidy
    <2>2. PICK s : IsSection(doc, s) /\ PartOf(doc, s, c)
      BY <1>1
    <2> QED BY <2>1, <2>2, PartTrail DEF ChunkingIInv
  <1> QED BY <1>2, <1>3, <1>4, <1>5 DEF CutWhereAllowed

\* Whatever the document, of any length, with headings of any levels, and whatever the two
\* limits: every line that is not blank is in a passage or is a heading, passages come in
\* document order, none holds a part of a fence without its beginning, and one over the
\* limit is a block that could not be cut behind no more than the overlap (chunk_markdown).
THEOREM PassagesAreCutRight == ChunkingSpec => []CutWhereAllowed
  <1>1. ChunkingIInv => CutWhereAllowed
    BY PassagesAreRight
  <1> QED BY <1>1, DocumentIsWritten, PTL DEF ChunkingSpec

\* Whatever the document, as long as it skips no level: the trail of a passage is the
\* headings each of its lines stands under, outermost first (_sections).
THEOREM TrailsAreRight == ChunkingSpec => []TrailIsAncestors
  <1>1. ChunkingIInv => TrailIsAncestors
    BY PassagesAreRight
  <1> QED BY <1>1, DocumentIsWritten, PTL DEF ChunkingSpec

=============================================================================
