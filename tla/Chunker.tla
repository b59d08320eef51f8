------------------------------ MODULE Chunker ------------------------------
(***************************************************************************)
(* ingest/chunker.go: how a text is cut into overlapping chunks.           *)
(*                                                                         *)
(* Runes are positions 0 .. size - 1; all that matters of one is whether   *)
(* it is blank.  Chunk first joins the words of the text by single blanks, *)
(* so no blank is first, last or next to another one.  A chunk is the      *)
(* range of positions it holds and its identifier.                         *)
(***************************************************************************)
EXTENDS Integers, FiniteSets

CONSTANTS
    MaxRunesArg,      \* the size that NewChunker is asked for
    OverlapRunesArgs, \* the overlaps that it may be asked for
    MaxSize,          \* bound: the size of a text
    IDSpace           \* how many chunk identifiers there are: 10000

ASSUME ChunkerAssumption ==
    /\ MaxRunesArg \in Int
    /\ OverlapRunesArgs \subseteq Int
    /\ MaxSize \in Nat
    /\ IDSpace \in Nat \ {0}

MaxRunes == IF MaxRunesArg <= 0 THEN 1200 ELSE MaxRunesArg

\* Mutant of OverlapRunes: an overlap of a whole chunk or more is kept.
OverlapRunesUnclamped(arg) == IF arg < 0 THEN 0 ELSE arg

\* The overlap that NewChunker makes of its argument.
OverlapRunes(arg) ==
    IF arg < 0 THEN 0
    ELSE IF arg >= MaxRunes THEN MaxRunes \div 5
    ELSE arg

VARIABLES
    overlap, \* the overlap of this chunker
    size,    \* the number of runes of the cleaned text
    blanks,  \* the positions of its blanks
    start,   \* where the next chunk starts
    nextID,  \* the identifier of the next chunk
    chunks,  \* the chunks so far
    done     \* Chunk has returned

vars == <<overlap, size, blanks, start, nextID, chunks, done>>

Positions == 0 .. size - 1

\* What strings.Fields and strings.Join leave of a text.
Cleaned == \A p \in blanks : p # 0 /\ p # size - 1 /\ p + 1 \notin blanks

TypeOK ==
    /\ overlap \in 0 .. MaxRunes - 1
    /\ size \in 0 .. MaxSize
    /\ blanks \subseteq Positions
    /\ start \in 0 .. size
    /\ nextID \in 0 .. IDSpace - 1
    /\ chunks \subseteq [id : 0 .. IDSpace - 1, first : Positions, last : Positions]
    /\ done \in BOOLEAN

Init ==
    /\ overlap \in {OverlapRunes(arg) : arg \in OverlapRunesArgs}
    /\ size \in 0 .. MaxSize
    /\ blanks \in SUBSET Positions
    /\ Cleaned
    /\ start = 0
    /\ nextID = 0
    /\ chunks = {}
    /\ done = (size = 0)

-----------------------------------------------------------------------------
\* Mutant of BoundaryBefore: no boundary is looked for.
NoBoundary(end, desired, floor) == end = desired

\* boundaryBefore: the chunk ends after the last blank of the window, or where
\* the window ends if there is none.
BoundaryBefore(end, desired, floor) ==
    \/ /\ end \in floor + 1 .. desired
       /\ end - 1 \in blanks
       /\ \A i \in end + 1 .. desired : i - 1 \notin blanks
    \/ /\ end = desired
       /\ \A i \in floor + 1 .. desired : i - 1 \notin blanks

\* strings.TrimSpace: no two blanks are adjacent, so it drops at most one rune
\* at either end.
First(from) == IF from \in blanks THEN from + 1 ELSE from
Last(end) == IF end - 1 \in blanks THEN end - 2 ELSE end - 1

\* Mutant of ChunkID: all chunks of a text share one identifier.
ChunkIDConstant(id) == id

\* chunkID: four decimal digits of the index, the rest is dropped.
ChunkID(id) == (id + 1) % IDSpace

\* A trimmed chunk is added unless nothing is left of it.
Emit(from, end) ==
    IF First(from) > Last(end)
    THEN UNCHANGED <<chunks, nextID>>
    ELSE /\ chunks' = chunks \cup
              {[id |-> nextID, first |-> First(from), last |-> Last(end)]}
         /\ nextID' = ChunkID(nextID)

\* A text of one chunk is returned as it is.
ChunkWhole ==
    /\ ~done
    /\ size <= MaxRunes
    /\ chunks' = {[id |-> nextID, first |-> 0, last |-> size - 1]}
    /\ nextID' = ChunkID(nextID)
    /\ done' = TRUE
    /\ UNCHANGED <<overlap, size, blanks, start>>

\* Mutant of NextStart: the next chunk starts where an untouched window would
\* have ended, whatever boundary the chunk was cut at.
NextStartOfWindow(from, end) ==
    IF from + MaxRunes - overlap > size THEN end
    ELSE from + MaxRunes - overlap

\* Mutant of NextStart: the overlap is taken from the trimmed chunk.
NextStartOfTrimmed(from, end) ==
    IF Last(end) + 1 < overlap THEN 0 ELSE Last(end) + 1 - overlap

\* Where the next chunk starts.
NextStart(from, end) == IF end < overlap THEN 0 ELSE end - overlap

\* One pass of the loop.
CutChunk ==
    /\ ~done
    /\ size > MaxRunes
    /\ \E end \in start + 1 .. size :
        /\ IF start + MaxRunes > size
           THEN end = size
           ELSE BoundaryBefore(end, start + MaxRunes, start)
        /\ Emit(start, end)
        /\ done' = (end = size)
        /\ start' = IF end = size THEN start ELSE NextStart(start, end)
    /\ UNCHANGED <<overlap, size, blanks>>

Next == ChunkWhole \/ CutChunk

Spec == Init /\ [][Next]_vars

\* Chunk is a sequential function: it runs until it returns.
FairSpec == Spec /\ WF_vars(Next)

-----------------------------------------------------------------------------
(***************************************************************************)
(* Properties                                                              *)
(***************************************************************************)

Covered(p) == \E c \in chunks : p \in c.first .. c.last

\* No part of a document is missing from the index: everything before the
\* current start, and at the end the whole text, is in some chunk.
NoTextLost ==
    \A p \in Positions \ blanks : p < start \/ done => Covered(p)

\* A chunk starts and ends with a rune of a word, and ends inside a word only
\* if that word alone fills the chunk.
WordsEndWhole ==
    \A c \in chunks :
        /\ c.first <= c.last /\ c.last - c.first < MaxRunes
        /\ c.first \notin blanks /\ c.last \notin blanks
        /\ c.last + 1 \in Positions \ blanks =>
             /\ c.last - c.first + 1 = MaxRunes
             /\ c.first .. c.last \cap blanks = {}

\* The chunks of one text have different identifiers, under which the vector
\* index stores them, as long as there are identifiers left.
DistinctChunks ==
    Cardinality(chunks) <= IDSpace => \A b, c \in chunks : b.id = c.id => b = c

\* Words are short enough to leave a boundary after the overlap of every window.
ShortWords ==
    \A p \in Positions :
        p + (MaxRunes - overlap - 1) \in Positions =>
            \E q \in p .. p + (MaxRunes - overlap - 1) : q \in blanks

\* Every pass starts a later chunk, whichever boundary it was cut at, as long
\* as words are short.
ShortWordsProgress == [][ShortWords /\ ~done' => start' > start]_vars

\* docs/workers.md lists chunking as a step of every ingestion that is followed
\* by the next: Chunk returns.
ChunkReturns == <>done
=============================================================================
