------------------------------ MODULE Chunking ------------------------------
(***************************************************************************)
(* A knowledge-base document split into passages: the sections under its   *)
(* headings, the blocks of a section, the windows of blocks.  The document *)
(* is written line by line, and split after every line.                    *)
(*                                                                         *)
(* A line is what the splitter tells apart: a heading (in a fence the same *)
(* characters are a comment), a line of text, a blank one, and the two     *)
(* fence tokens.  Sections and blocks are runs of consecutive lines, told  *)
(* by the first and the last; windows are runs of consecutive blocks.  A   *)
(* line that is not blank counts for one token.                            *)
(***************************************************************************)
EXTENDS Naturals, SequencesExt

CONSTANTS Level,          \* the level of each heading
          MaxTokens,      \* max_tokens
          OverlapTokens,  \* overlap_tokens
          MaxLines        \* bound: lines of the document

Headings   == DOMAIN Level
FenceMarks == {"ticks", "tildes"}
Kinds      == Headings \cup FenceMarks \cup {"text", "blank"}

ASSUME ChunkingAssumption ==
  /\ Level \in [Headings -> 1 .. 6] /\ Headings \cap (FenceMarks \cup {"text", "blank"}) = {}
  /\ MaxTokens \in Nat /\ OverlapTokens \in Nat /\ MaxLines \in Nat

VARIABLE doc

ChunkingInit == doc = <<>>

Write(line) == Len(doc) < MaxLines /\ doc' = Append(doc, line)

ChunkingNext == \E line \in Kinds : Write(line)

ChunkingSpec == ChunkingInit /\ [][ChunkingNext]_doc

-----------------------------------------------------------------------------
(* Fences *)

Open == "open"

\* The fence after a line, Open outside one: only its own token closes it.
Fence(fence, line) ==
  IF line \notin FenceMarks THEN fence
  ELSE IF fence = Open THEN line
  ELSE IF line = fence THEN Open ELSE fence

\* The fence after each line, when they are looked for from line first on.
FencesFrom(d, first) ==
  LET after[n \in 0 .. Len(d)] == IF n < first THEN Open ELSE Fence(after[n - 1], d[n])
  IN  after

Fences(d) == FencesFrom(d, 1)

IsHeading(d, i) == d[i] \in Headings /\ Fences(d)[i - 1] = Open

-----------------------------------------------------------------------------
(* Lines cut into runs *)

Lines(run) == run.first .. run.last

Written(d, run) == {i \in Lines(run) : d[i] # "blank"}

\* A run with nothing left when it is stripped is dropped.
Flush(d, done, run) == IF Written(d, run) = {} THEN done ELSE Append(done, run)

\* Line n: one that cuts ends the run under way, and is in none.
Cut(d, cuts, n, acc) ==
  IF n \in cuts
  THEN [done |-> Flush(d, acc.done, [first |-> acc.first, last |-> n - 1]), first |-> n + 1]
  ELSE acc

CutTo(d, run, cuts) ==
  LET after[n \in 0 .. run.last] ==
        IF n < run.first THEN [done |-> <<>>, first |-> run.first] ELSE Cut(d, cuts, n, after[n - 1])
  IN  after

\* What is under way at the end is forgotten.
NotTheLast(d, run, cuts) == CutTo(d, run, cuts)[run.last].done

\* What the lines of a run are cut into, in their order.
Runs(d, run, cuts) ==
  LET end == CutTo(d, run, cuts)[run.last]
  IN  Flush(d, end.done, [first |-> end.first, last |-> run.last])

-----------------------------------------------------------------------------
(* _sections *)

\* The deepest heading stays on the trail.
TrailGrows(stack, level, i) == Append(stack, i)

\* stack[: level - 1], then the heading.
Trail(stack, level, i) == Append(SubSeq(stack, 1, Min({level - 1, Len(stack)})), i)

Under(d, n, stack) == IF IsHeading(d, n) THEN Trail(stack, Level[d[n]], n) ELSE stack

\* The stack of headings after each line.
Trails(d) ==
  LET after[n \in 0 .. Len(d)] == IF n = 0 THEN <<>> ELSE Under(d, n, after[n - 1])
  IN  after

Sections(d) == Runs(d, [first |-> 1, last |-> Len(d)], {i \in DOMAIN d : IsHeading(d, i)})

-----------------------------------------------------------------------------
(* _blocks *)

\* A blank line splits, fence or not.
SplitsAnywhere(fence, line) == line = "blank"

Splits(fence, line) == line = "blank" /\ fence = Open

\* The fence is looked for again, from the section's first line.
Blocks(d, section) ==
  Runs(d, section, {i \in Lines(section) : Splits(FencesFrom(d, section.first)[i - 1], d[i])})

-----------------------------------------------------------------------------
(* _windows *)

\* estimate_tokens, of blocks that share no line.
TokensIn(d, blocks) == Cardinality(UNION {Written(d, b) : b \in ToSet(blocks)})

\* All of the window.
CarryAll(d, blocks, window) == window.first

\* The block the next window starts with: the longest end that fits the overlap.
Carry(d, blocks, window) ==
  Min({b \in Lines(window) \cup {window.last + 1} :
         TokensIn(d, SubSeq(blocks, b, window.last)) <= OverlapTokens})

\* Block n: one too many for the window ends it; alone in it, it may have any size.
Fill(d, blocks, n, acc) ==
  LET window == [first |-> acc.first, last |-> n - 1]
  IN  IF acc.first < n /\ TokensIn(d, SubSeq(blocks, acc.first, n)) > MaxTokens
      THEN [done |-> Append(acc.done, window), first |-> Carry(d, blocks, window)]
      ELSE acc

FillTo(d, blocks) ==
  LET after[n \in 0 .. Len(blocks)] ==
        IF n = 0 THEN [done |-> <<>>, first |-> 1] ELSE Fill(d, blocks, n, after[n - 1])
  IN  after

Windows(d, blocks) ==
  LET end == FillTo(d, blocks)[Len(blocks)]
  IN  IF blocks = <<>> THEN <<>>
      ELSE Append(end.done, [first |-> end.first, last |-> Len(blocks)])

-----------------------------------------------------------------------------
(* chunk_markdown *)

\* The passages of a section, each under its trail.
Passed(d, section) ==
  LET blocks  == Blocks(d, section)
      windows == Windows(d, blocks)
  IN  [k \in DOMAIN windows |->
         [path   |-> Trails(d)[section.last],
          blocks |-> SubSeq(blocks, windows[k].first, windows[k].last)]]

ChunkMarkdown(d) ==
  LET sections == Sections(d)
  IN  FlattenSeq([n \in DOMAIN sections |-> Passed(d, sections[n])])

-----------------------------------------------------------------------------
(* Properties *)

LinesOf(chunk) == UNION {Lines(b) : b \in ToSet(chunk.blocks)}

\* Nothing that was written is lost: every line that is neither a heading nor blank is
\* in a passage, an oversized block included, and passages come in document order
\* (_sections, _blocks, _windows).
NothingIsLost ==
  LET parts == ChunkMarkdown(doc)
  IN  /\ \A i \in DOMAIN doc :
           doc[i] = "blank" \/ IsHeading(doc, i) \/ \E k \in DOMAIN parts : i \in LinesOf(parts[k])
      /\ \A j, k \in DOMAIN parts : j < k => Max(LinesOf(parts[j])) < Max(LinesOf(parts[k]))

\* Fenced code is atomic: a passage with a line of a fence has the line before it, back
\* to the one that opened the fence, whatever the lines look like (_sections, _blocks).
FencesAreWhole ==
  LET fenced == {i \in DOMAIN doc : Fences(doc)[i - 1] # Open}
  IN  \A chunk \in ToSet(ChunkMarkdown(doc)) :
        \A i \in fenced \cap LinesOf(chunk) : i - 1 \in LinesOf(chunk)

\* A passage over the limit is one block that could not be cut, with no more than the
\* overlap in front of it (_windows).
WindowsFit ==
  \A chunk \in ToSet(ChunkMarkdown(doc)) :
    TokensIn(doc, chunk.blocks) > MaxTokens =>
      TokensIn(doc, Front(chunk.blocks)) <= OverlapTokens

\* A document is cut into passages only where it may be, and wherever it must, and
\* nothing falls out between them.
CutWhereAllowed == NothingIsLost /\ FencesAreWhole /\ WindowsFit

\* The headings above line i: of each level the last one with no heading of a smaller
\* level after it.
Ancestors(d, i) ==
  LET above == {h \in 1 .. i - 1 : IsHeading(d, h)}
  IN  {h \in above : \A g \in above : g > h => Level[d[g]] > Level[d[h]]}

\* No heading is more than one level below the heading before it.
NoLevelSkipped ==
  \A i \in DOMAIN doc :
    IsHeading(doc, i) => Level[doc[i]] <= Cardinality(Ancestors(doc, i)) + 1

\* A passage's trail is the headings it stands under, outermost first, in a document that
\* skips no level (_sections): a heading ends the sections of its own level and deeper.
TrailIsAncestors ==
  NoLevelSkipped =>
    \A chunk \in ToSet(ChunkMarkdown(doc)) :
      /\ \A i \in LinesOf(chunk) : ToSet(chunk.path) = Ancestors(doc, i)
      /\ \A j, k \in DOMAIN chunk.path : j < k => chunk.path[j] < chunk.path[k]

=============================================================================
