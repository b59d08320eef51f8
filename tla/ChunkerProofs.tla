--------------------------- MODULE ChunkerProofs ---------------------------
(***************************************************************************)
(* Proofs about Chunker for every text, every chunk size and every overlap.*)
(***************************************************************************)
EXTENDS Chunker, FiniteSetTheorems, TLAPS

\* NewChunker always yields a positive size and a smaller overlap.
LEMMA ChunkerSizes ==
  /\ MaxRunes \in Nat \ {0}
  /\ \A arg \in OverlapRunesArgs : OverlapRunes(arg) \in 0 .. MaxRunes - 1
<1>1. MaxRunes \in Nat \ {0}
  BY ChunkerAssumption DEF MaxRunes
<1>2. MaxRunes \div 5 \in 0 .. MaxRunes - 1
  BY <1>1
<1> QED
  BY <1>1, <1>2, ChunkerAssumption DEF OverlapRunes

\* The text is cleaned, and a chunk that ends the text ends the function.
IInv ==
    /\ TypeOK
    /\ Cleaned
    /\ NoTextLost
    /\ ~done => start < size

\* Where a pass may cut, and that the next one starts no later than that.
LEMMA CutBounds ==
  ASSUME IInv, CutChunk
  PROVE  \E end \in start + 1 .. size :
            /\ end <= start + MaxRunes
            /\ Emit(start, end)
            /\ done' = (end = size)
            /\ start' = IF end = size THEN start ELSE NextStart(start, end)
            /\ NextStart(start, end) \in 0 .. end
            /\ start + MaxRunes <= size => BoundaryBefore(end, start + MaxRunes, start)
            /\ start + MaxRunes > size => end = size
<1>1. size \in Nat /\ start \in Nat
  BY DEF IInv, TypeOK
<1>2. PICK end \in start + 1 .. size :
        /\ IF start + MaxRunes > size
           THEN end = size
           ELSE BoundaryBefore(end, start + MaxRunes, start)
        /\ Emit(start, end)
        /\ done' = (end = size)
        /\ start' = IF end = size THEN start ELSE NextStart(start, end)
  BY DEF CutChunk
<1>3. NextStart(start, end) \in 0 .. end
  BY <1>1, ChunkerSizes DEF NextStart, IInv, TypeOK
<1>4. end <= start + MaxRunes
  BY <1>1, <1>2, ChunkerSizes DEF BoundaryBefore
<1> QED
  BY <1>1, <1>2, <1>3, <1>4, ChunkerSizes

\* What a pass adds holds every rune of a word between its two ends.
LEMMA EmitCovers ==
  ASSUME IInv, NEW from \in 0 .. size - 1, NEW end \in from + 1 .. size,
         Emit(from, end), size' = size, blanks' = blanks,
         NEW p \in from .. end - 1, p \notin blanks
  PROVE  Covered(p)'
<1> USE DEF IInv, TypeOK, Positions
<1>1. size \in Nat /\ from \in Nat /\ end \in Nat /\ p \in Nat
  OBVIOUS
<1>2. First(from) <= p /\ p <= Last(end)
  BY <1>1 DEF First, Last
<1>3. First(from) \in Int /\ Last(end) \in Int
  BY <1>1 DEF First, Last
<1>4. chunks' = chunks \cup
         {[id |-> nextID, first |-> First(from), last |-> Last(end)]}
  BY <1>1, <1>2, <1>3 DEF Emit
<1> DEFINE c == [id |-> nextID, first |-> First(from), last |-> Last(end)]
<1>5. c \in chunks' /\ p \in c.first .. c.last
  BY <1>1, <1>2, <1>3, <1>4
<1> QED
  BY <1>5 DEF Covered

\* Nothing covered is ever uncovered.
LEMMA EmitKeeps ==
  ASSUME NEW from, NEW end, Emit(from, end), NEW p, Covered(p)
  PROVE  Covered(p)'
  BY DEF Emit, Covered

\* A pass keeps the types.
LEMMA EmitTypeOK ==
  ASSUME IInv, NEW from \in 0 .. size - 1, NEW end \in from + 1 .. size,
         Emit(from, end), size' = size
  PROVE  /\ nextID' \in 0 .. IDSpace - 1
         /\ chunks' \subseteq
              [id : 0 .. IDSpace - 1, first : 0 .. size - 1, last : 0 .. size - 1]
<1> USE DEF IInv, TypeOK, Positions
<1> USE ChunkerAssumption
<1>1. size \in Nat /\ from \in Nat /\ end \in Nat /\ nextID \in Nat
  OBVIOUS
<1>2. ChunkID(nextID) \in 0 .. IDSpace - 1
  BY <1>1 DEF ChunkID
<1>3. CASE First(from) > Last(end)
  BY <1>3 DEF Emit
<1>4. CASE ~(First(from) > Last(end))
  <2>1. First(from) \in 0 .. size - 1 /\ Last(end) \in 0 .. size - 1
    BY <1>1, <1>4 DEF First, Last
  <2> QED
    BY <1>2, <1>4, <2>1 DEF Emit
<1> QED
  BY <1>3, <1>4

\* Every text that is cut starts out as it should.
LEMMA InitIInv ==
  ASSUME Init
  PROVE  IInv
<1>1. size \in Nat /\ 0 \in 0 .. size /\ 0 \in 0 .. IDSpace - 1
  BY ChunkerAssumption DEF Init
<1>2. done \in BOOLEAN /\ (done <=> size = 0)
  BY DEF Init
<1>3. TypeOK
  <2>1. overlap \in 0 .. MaxRunes - 1
    BY ChunkerSizes DEF Init
  <2> QED
    BY <1>1, <1>2, <2>1 DEF Init, TypeOK
<1>4. NoTextLost
  BY <1>1, <1>2 DEF Init, NoTextLost, Positions
<1>5. ~done => start < size
  BY <1>1, <1>2 DEF Init
<1> QED
  BY <1>3, <1>4, <1>5 DEF Init, IInv

\* Every step keeps the invariant.
LEMMA NextIInv ==
  ASSUME IInv, [Next]_vars
  PROVE  IInv'
<1> USE ChunkerAssumption
<1>1. CASE ChunkWhole
  <2>1. size \in Nat /\ nextID \in Nat /\ ~done /\ 0 < size /\ start \in Nat
    BY <1>1 DEF ChunkWhole, IInv, TypeOK
  <2>2. /\ size' = size /\ blanks' = blanks /\ start' = start
        /\ overlap' = overlap
        /\ done' = TRUE
        /\ nextID' = ChunkID(nextID)
        /\ chunks' = {[id |-> nextID, first |-> 0, last |-> size - 1]}
    BY <1>1 DEF ChunkWhole
  <2>3. nextID' \in 0 .. IDSpace - 1
    BY <2>1, <2>2 DEF ChunkID
  <2>4. TypeOK'
    BY <2>1, <2>2, <2>3 DEF IInv, TypeOK, Positions
  <2>5. NoTextLost'
    BY <2>1, <2>2 DEF NoTextLost, Covered, Positions
  <2>6. Cleaned'
    BY <2>2 DEF IInv, Cleaned, Positions
  <2> QED
    BY <2>2, <2>4, <2>5, <2>6 DEF IInv
<1>2. CASE CutChunk
  <2>1. /\ size' = size /\ blanks' = blanks /\ overlap' = overlap
        /\ size \in Nat /\ start \in 0 .. size - 1
    BY <1>2 DEF CutChunk, IInv, TypeOK
  <2>2. PICK end \in start + 1 .. size :
          /\ Emit(start, end)
          /\ done' = (end = size)
          /\ start' = IF end = size THEN start ELSE NextStart(start, end)
          /\ NextStart(start, end) \in 0 .. end
    BY <1>2, CutBounds
  <2>3. TypeOK'
    <3>1. start' \in 0 .. size
      BY <2>1, <2>2
    <3>2. /\ nextID' \in 0 .. IDSpace - 1
          /\ chunks' \subseteq
               [id : 0 .. IDSpace - 1, first : 0 .. size - 1, last : 0 .. size - 1]
      BY <2>1, <2>2, EmitTypeOK
    <3> QED
      BY <2>1, <2>2, <3>1, <3>2 DEF IInv, TypeOK, Positions
  <2>4. NoTextLost'
    <3>1. ASSUME NEW p \in Positions \ blanks, p < end
          PROVE  Covered(p)'
      <4>1. CASE p < start
        BY <2>2, <3>1, <4>1, EmitKeeps DEF IInv, NoTextLost
      <4>2. CASE ~(p < start)
        <5>1. p \in start .. end - 1
          BY <2>1, <2>2, <3>1, <4>2 DEF Positions
        <5> QED
          BY <2>1, <2>2, <3>1, <5>1, EmitCovers
      <4> QED
        BY <4>1, <4>2
    <3>0. done' => end = size
      BY <2>2
    <3>2. ASSUME NEW p \in Positions \ blanks, p < start' \/ done'
          PROVE  p < end
      <4>1. CASE end = size
        BY <2>1, <2>2, <3>2, <4>1 DEF Positions
      <4>2. CASE end # size
        BY <2>1, <2>2, <3>0, <3>2, <4>2 DEF Positions
      <4> QED
        BY <4>1, <4>2
    <3> QED
      BY <2>1, <3>1, <3>2 DEF NoTextLost, Positions
  <2>5. Cleaned'
    BY <2>1 DEF IInv, Cleaned, Positions
  <2>6. ~done' => start' < size'
    BY <2>1, <2>2
  <2> QED
    BY <2>3, <2>4, <2>5, <2>6 DEF IInv
<1>3. CASE UNCHANGED vars
  BY <1>3 DEF vars, IInv, TypeOK, Cleaned, NoTextLost, Covered, Positions
<1> QED
  BY <1>1, <1>2, <1>3 DEF Next

\* The invariant holds in every reachable state.
THEOREM Invariance == Spec => []IInv
<1>1. Init => IInv
  BY InitIInv
<1>2. IInv /\ [Next]_vars => IInv'
  BY NextIInv
<1> QED
  BY <1>1, <1>2, PTL DEF Spec

\* Positions, identifiers and chunks stay within the text.
THEOREM ChunkerTypes == Spec => []TypeOK
<1>1. IInv => TypeOK
  BY DEF IInv
<1> QED
  BY <1>1, Invariance, PTL

\* Whatever the text, the size and the overlap, no word of it is left out.
THEOREM TextKept == Spec => []NoTextLost
<1>1. IInv => NoTextLost
  BY DEF IInv
<1> QED
  BY <1>1, Invariance, PTL

\* A pass over a window with a boundary after its overlap starts a later one.
LEMMA ProgressStep ==
  ASSUME IInv, CutChunk, ShortWords, ~done'
  PROVE  start' > start
<1> USE DEF IInv, TypeOK
<1>1. size \in Nat /\ start \in Nat /\ MaxRunes \in Nat
      /\ overlap \in 0 .. MaxRunes - 1
  BY ChunkerSizes, ChunkerAssumption
<1>2. PICK end \in start + 1 .. size :
        /\ done' = (end = size)
        /\ start' = IF end = size THEN start ELSE NextStart(start, end)
        /\ start + MaxRunes <= size => BoundaryBefore(end, start + MaxRunes, start)
        /\ start + MaxRunes > size => end = size
  BY CutBounds
<1>0. end # size
  BY <1>2
<1>3. /\ start' = NextStart(start, end)
      /\ start + MaxRunes <= size
      /\ BoundaryBefore(end, start + MaxRunes, start)
  BY <1>0, <1>1, <1>2
<1>4. end > start + overlap
  <2>1. CASE end = start + MaxRunes
    BY <1>1, <2>1, ChunkerSizes
  <2>2. CASE end # start + MaxRunes
    <3>1. \A i \in end + 1 .. start + MaxRunes : i - 1 \notin blanks
      BY <1>3, <2>2 DEF BoundaryBefore
    <3> DEFINE p == start + overlap
               last == p + (MaxRunes - overlap - 1)
    <3>2. p \in Positions /\ last \in Positions /\ last = start + MaxRunes - 1
      BY <1>1, <1>3 DEF Positions
    <3>3. PICK q \in p .. last : q \in blanks
      BY <3>2 DEF ShortWords
    <3>4. q \in Int /\ q + 1 <= start + MaxRunes /\ q >= start + overlap
      BY <1>1, <3>2, <3>3
    <3>5. ~(q + 1 >= end + 1)
      <4>1. SUFFICES ASSUME q + 1 >= end + 1 PROVE FALSE
        OBVIOUS
      <4>2. q + 1 \in end + 1 .. start + MaxRunes
        BY <1>1, <3>4, <4>1
      <4>3. (q + 1) - 1 = q
        BY <3>4
      <4> QED
        BY <3>1, <3>3, <4>2, <4>3
    <3> QED
      BY <1>1, <1>2, <3>4, <3>5
  <2> QED
    BY <2>1, <2>2
<1> QED
  BY <1>1, <1>2, <1>3, <1>4 DEF NextStart

\* With words shorter than a chunk less its overlap, every pass gets further:
\* no choice of text within that bound makes the loop run in place.
THEOREM ShortWordsAdvance == Spec => ShortWordsProgress
<1>1. ASSUME IInv, [Next]_vars
      PROVE  [ShortWords /\ ~done' => start' > start]_vars
  <2>1. CASE ChunkWhole
    BY <2>1 DEF ChunkWhole
  <2>2. CASE CutChunk
    BY <1>1, <2>2, ProgressStep
  <2> QED
    BY <1>1, <2>1, <2>2 DEF Next
<1>2. IInv /\ [Next]_vars => [ShortWords /\ ~done' => start' > start]_vars
  BY <1>1
<1> QED
  BY <1>2, Invariance, PTL DEF Spec, ShortWordsProgress

-----------------------------------------------------------------------------
(***************************************************************************)
(* Where chunks end                                                        *)
(***************************************************************************)

\* A trimmed chunk starts and ends with a rune of a word, and follows on a rune
\* of one only where the window had no boundary.
LEMMA EmittedWord ==
  ASSUME IInv, NEW from \in 0 .. size - 1, NEW end \in from + 1 .. size,
         end <= from + MaxRunes, First(from) <= Last(end),
         from + MaxRunes <= size => BoundaryBefore(end, from + MaxRunes, from),
         from + MaxRunes > size => end = size
  PROVE  /\ Last(end) - First(from) < MaxRunes
         /\ First(from) \notin blanks /\ Last(end) \notin blanks
         /\ Last(end) + 1 \in Positions \ blanks =>
              /\ Last(end) - First(from) + 1 = MaxRunes
              /\ (First(from) .. Last(end)) \cap blanks = {}
<1> USE DEF IInv, TypeOK
<1>1. size \in Nat /\ from \in Nat /\ end \in Nat /\ MaxRunes \in Nat \ {0}
  BY ChunkerSizes
<1>2. Last(end) - First(from) < MaxRunes
  BY <1>1 DEF First, Last
<1>3. First(from) \notin blanks
  BY <1>1 DEF First, Cleaned
<1>4. Last(end) \notin blanks
  <2>1. CASE end - 1 \in blanks
    <3>1. (end - 2) + 1 = end - 1
      BY <1>1
    <3>2. end - 2 \notin blanks
      BY <2>1, <3>1 DEF Cleaned
    <3> QED
      BY <2>1, <3>2 DEF Last
  <2>2. CASE end - 1 \notin blanks
    BY <2>2 DEF Last
  <2> QED
    BY <2>1, <2>2
<1>5. ASSUME Last(end) + 1 \in Positions \ blanks
      PROVE  /\ Last(end) - First(from) + 1 = MaxRunes
             /\ (First(from) .. Last(end)) \cap blanks = {}
  <2>1. end - 1 \notin blanks
    <3>1. SUFFICES ASSUME end - 1 \in blanks PROVE FALSE
      OBVIOUS
    <3>2. Last(end) + 1 = end - 1
      BY <1>1, <3>1 DEF Last
    <3> QED
      BY <1>5, <3>1, <3>2
  <2>2. Last(end) = end - 1 /\ Last(end) + 1 = end
    BY <1>1, <2>1 DEF Last
  <2>3. end # size
    BY <1>1, <1>5, <2>2 DEF Positions
  <2>4. BoundaryBefore(end, from + MaxRunes, from)
    BY <1>1, <2>3
  <2>5. end = from + MaxRunes /\ \A i \in from + 1 .. end : i - 1 \notin blanks
    BY <2>1, <2>4 DEF BoundaryBefore
  <2>6. ASSUME NEW p \in from .. end - 1
        PROVE  p \notin blanks
    <3>1. p + 1 \in from + 1 .. end /\ (p + 1) - 1 = p
      BY <1>1, <2>6
    <3> QED
      BY <2>5, <3>1
  <2>7. from \notin blanks
    BY <1>1, <2>6
  <2>8. First(from) = from
    BY <2>7 DEF First
  <2> QED
    BY <1>1, <2>2, <2>5, <2>6, <2>8
<1> QED
  BY <1>2, <1>3, <1>4, <1>5

\* Every pass, and the short cut for a text of one chunk, keeps words whole.
LEMMA WordsStep ==
  ASSUME IInv, WordsEndWhole, [Next]_vars
  PROVE  WordsEndWhole'
<1> USE DEF IInv, TypeOK
<1>1. size \in Nat /\ start \in Nat /\ MaxRunes \in Nat \ {0}
  BY ChunkerSizes
<1>2. CASE ChunkWhole
  <2>1. size > 0 /\ size <= MaxRunes /\ size' = size /\ blanks' = blanks
    BY <1>1, <1>2 DEF ChunkWhole
  <2>2. chunks' = {[id |-> nextID, first |-> 0, last |-> size - 1]}
    BY <1>2 DEF ChunkWhole
  <2>3. 0 \notin blanks /\ size - 1 \notin blanks
    BY DEF Cleaned
  <2>4. (size - 1) + 1 \notin Positions
    BY <1>1 DEF Positions
  <2> QED
    BY <1>1, <2>1, <2>2, <2>3, <2>4 DEF WordsEndWhole, Positions
<1>3. CASE CutChunk
  <2>1. /\ size' = size /\ blanks' = blanks /\ start \in 0 .. size - 1
    BY <1>1, <1>3 DEF CutChunk
  <2>2. PICK end \in start + 1 .. size :
          /\ end <= start + MaxRunes
          /\ Emit(start, end)
          /\ start + MaxRunes <= size => BoundaryBefore(end, start + MaxRunes, start)
          /\ start + MaxRunes > size => end = size
    BY <1>3, CutBounds
  <2>3. CASE First(start) > Last(end)
    BY <2>1, <2>2, <2>3 DEF Emit, WordsEndWhole, Positions
  <2>4. CASE ~(First(start) > Last(end))
    <3> DEFINE new == [id |-> nextID, first |-> First(start), last |-> Last(end)]
    <3>1. chunks' = chunks \cup {new}
      BY <2>2, <2>4 DEF Emit
    <3>2. new.first <= new.last
      BY <1>1, <2>2, <2>4 DEF First, Last
    <3>3. /\ new.last - new.first < MaxRunes
          /\ new.first \notin blanks /\ new.last \notin blanks
          /\ new.last + 1 \in Positions \ blanks =>
               /\ new.last - new.first + 1 = MaxRunes
               /\ (new.first .. new.last) \cap blanks = {}
      BY <2>1, <2>2, <3>2, EmittedWord
    <3> HIDE DEF new
    <3> QED
      BY <2>1, <3>1, <3>2, <3>3 DEF WordsEndWhole, Positions
  <2> QED
    BY <2>3, <2>4
<1>4. CASE UNCHANGED vars
  BY <1>4 DEF vars, WordsEndWhole, Positions
<1> QED
  BY <1>2, <1>3, <1>4 DEF Next

\* Whatever the text, the size and the overlap: a chunk never starts or ends
\* with a blank, never exceeds the size, and cuts a word only if that word alone
\* fills it (boundaryBefore and the trimming of chunker.go).
THEOREM WordsKeptWhole == Spec => []WordsEndWhole
<1>1. Init => WordsEndWhole
  BY DEF Init, WordsEndWhole
<1>2. IInv /\ WordsEndWhole /\ [Next]_vars => WordsEndWhole'
  BY WordsStep
<1> QED
  BY <1>1, <1>2, Invariance, PTL DEF Spec

-----------------------------------------------------------------------------
(***************************************************************************)
(* Chunk identifiers                                                       *)
(***************************************************************************)

\* As long as there are identifiers left, the next one is the number of chunks
\* and all chunks have earlier ones.
NumberedChunks ==
    /\ IsFiniteSet(chunks)
    /\ ~done /\ size <= MaxRunes => chunks = {} /\ nextID = 0
    /\ Cardinality(chunks) <= IDSpace =>
         /\ \A b, c \in chunks : b.id = c.id => b = c
         /\ \/ Cardinality(chunks) = IDSpace
            \/ /\ nextID = Cardinality(chunks)
               /\ \A c \in chunks : c.id < nextID

\* chunkID counts up until its four digits are used up.
LEMMA ChunkIDCounts ==
  ASSUME NEW id \in Nat, id + 1 < IDSpace
  PROVE  ChunkID(id) = id + 1
  BY ChunkerAssumption DEF ChunkID

\* A chunk with the next identifier leaves the chunks numbered.
LEMMA NumberedAfterAdding ==
  ASSUME IInv, NumberedChunks, NEW c, c.id = nextID,
         chunks' = chunks \cup {c}, nextID' = ChunkID(nextID)
  PROVE  /\ IsFiniteSet(chunks')
         /\ Cardinality(chunks') <= IDSpace =>
              /\ \A a, b \in chunks' : a.id = b.id => a = b
              /\ \/ Cardinality(chunks') = IDSpace
                 \/ /\ nextID' = Cardinality(chunks')
                    /\ \A b \in chunks' : b.id < nextID'
<1> DEFINE n == Cardinality(chunks)
<1> USE ChunkerAssumption
<1>1. /\ IsFiniteSet(chunks') /\ n \in Nat
      /\ Cardinality(chunks') = IF c \in chunks THEN n ELSE n + 1
  BY FS_AddElement, FS_CardinalityType DEF NumberedChunks
<1>2. nextID \in Nat /\ IDSpace \in Nat /\ \A b \in chunks : b.id \in Nat
  BY DEF IInv, TypeOK
<1>3. ASSUME c \in chunks, n <= IDSpace
      PROVE  /\ chunks' = chunks /\ n = IDSpace
             /\ \A a, b \in chunks : a.id = b.id => a = b
  <2>1. ~(c.id < nextID)
    BY <1>2
  <2>2. chunks' = chunks
    BY <1>3
  <2> QED
    BY <1>3, <2>1, <2>2 DEF NumberedChunks
<1>4. ASSUME c \notin chunks, n + 1 <= IDSpace
      PROVE  /\ \A a, b \in chunks' : a.id = b.id => a = b
             /\ \/ n + 1 = IDSpace
                \/ /\ nextID' = n + 1
                   /\ \A b \in chunks' : b.id < nextID'
  <2>1. n <= IDSpace /\ n # IDSpace
    BY <1>1, <1>2, <1>4
  <2>2. /\ \A a, b \in chunks : a.id = b.id => a = b
        /\ nextID = n /\ \A b \in chunks : b.id < nextID
    BY <2>1 DEF NumberedChunks
  <2>3. \A b \in chunks : b.id # c.id
    BY <1>2, <2>2
  <2>4. \A a, b \in chunks' : a.id = b.id => a = b
    BY <2>2, <2>3
  <2>5. ASSUME n + 1 # IDSpace
        PROVE  nextID' = n + 1
    BY <1>1, <1>2, <1>4, <2>2, <2>5, ChunkIDCounts
  <2>6. ASSUME nextID' = n + 1
        PROVE  \A b \in chunks' : b.id < nextID'
    BY <1>2, <2>2, <2>6
  <2> QED
    BY <2>4, <2>5, <2>6
<1> QED
  BY <1>1, <1>3, <1>4

LEMMA NumberedStep ==
  ASSUME IInv, NumberedChunks, [Next]_vars
  PROVE  NumberedChunks'
<1>1. CASE ChunkWhole
  <2> DEFINE c == [id |-> nextID, first |-> 0, last |-> size - 1]
  <2>1. done' /\ chunks = {} /\ chunks' = {c} /\ nextID' = ChunkID(nextID)
    BY <1>1 DEF ChunkWhole, NumberedChunks
  <2>2. chunks' = chunks \cup {c}
    BY <2>1
  <2>3. c.id = nextID
    OBVIOUS
  <2> HIDE DEF c
  <2> QED
    BY <2>1, <2>2, <2>3, NumberedAfterAdding DEF NumberedChunks
<1>2. CASE CutChunk
  <2>1. size' = size /\ ~(size' <= MaxRunes)
    BY <1>2, ChunkerSizes DEF CutChunk, IInv, TypeOK
  <2>2. PICK end : Emit(start, end)
    BY <1>2 DEF CutChunk
  <2>3. CASE First(start) > Last(end)
    BY <2>1, <2>2, <2>3 DEF Emit, NumberedChunks
  <2>4. CASE ~(First(start) > Last(end))
    <3> DEFINE c == [id |-> nextID, first |-> First(start), last |-> Last(end)]
    <3>1. chunks' = chunks \cup {c} /\ nextID' = ChunkID(nextID)
      BY <2>2, <2>4 DEF Emit
    <3>2. c.id = nextID
      OBVIOUS
    <3> HIDE DEF c
    <3> QED
      BY <2>1, <3>1, <3>2, NumberedAfterAdding DEF NumberedChunks
  <2> QED
    BY <2>3, <2>4
<1>3. CASE UNCHANGED vars
  BY <1>3 DEF vars, NumberedChunks
<1> QED
  BY <1>1, <1>2, <1>3 DEF Next

\* No two chunks of a text share an identifier, under which the vector index
\* would keep only one of them, as long as the four digits of chunkID last.
THEOREM ChunksKeptApart == Spec => []DistinctChunks
<1>1. Init => NumberedChunks
  BY FS_EmptySet, ChunkerAssumption DEF Init, NumberedChunks
<1>2. IInv /\ NumberedChunks /\ [Next]_vars => NumberedChunks'
  BY NumberedStep
<1>3. NumberedChunks => DistinctChunks
  BY DEF NumberedChunks, DistinctChunks
<1> QED
  BY <1>1, <1>2, <1>3, Invariance, PTL DEF Spec
=============================================================================
