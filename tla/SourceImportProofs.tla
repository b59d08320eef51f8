------------------------- MODULE SourceImportProofs -------------------------
(***************************************************************************)
(* Proofs about SourceImport for any number of files and scan workers, any *)
(* contents, edits, faults and bounds.                                     *)
(***************************************************************************)
EXTENDS SourceImport, SequenceTheorems, TLAPS

-----------------------------------------------------------------------------
(* What a scan knows of one file.                                          *)

\* The entry names a document of file p, if it names one.
Names(e, p) == e.doc # 0 => e.doc \in DOMAIN docs /\ docs[e.doc].path = p

\* The entry names the document that mirrors file p.
Holds(e, p) ==
  /\ IsActive(e)
  /\ docs[e.doc].path = p
  /\ docs[e.doc].live
  /\ docs[e.doc].content = disk[p].content

\* What scan t remembers of file p is what its newest entry says.
Trusted(t, p) ==
  /\ t.previous[p] = IF IsActive(latest[p]) THEN latest[p] ELSE NoEntry
  /\ t.previous[p].doc # 0 =>
       docs[t.previous[p].doc].live /\ docs[t.previous[p].doc].content = t.previous[p].hash

\* The walk of t is done with file p, or had nothing to do with it.
Settled(t, p) ==
  IF WouldImport(p) THEN p \in t.seen /\ Holds(latest[p], p)
  ELSE IsActive(latest[p]) => p \notin t.seen /\ IsActive(t.previous[p])

\* The document of file p is gone, if t did not see p.
Swept(t, p) ==
  p \notin t.seen /\ t.previous[p].doc # 0 => ~docs[t.previous[p].doc].live

-----------------------------------------------------------------------------
(* The parts of the invariant.                                             *)

\* Entries name documents of their file, in whoever's hands they are.
EntriesNameTheirFiles ==
  /\ \A p \in Files : Names(latest[p], p)
  /\ \A s \in Scanners, p \in Files : Names(scan[s].previous[p], p)
  /\ \A s \in Scanners : scan[s].path # 0 => Names(scan[s].entry, scan[s].path)

\* What a scan has in hand at each of its steps.
Hands(t) ==
  /\ \A p \in Files : t.previous[p] = NoEntry \/ IsActive(t.previous[p])
  /\ t.at \in {"list", "examine"} => t.path = 0
  /\ t.at \in {"upload", "replace", "record", "recordMissing"} => t.path \in t.todo
  /\ t.at = "upload" => t.entry.outcome = "imported" /\ t.entry.hash \in Contents
  /\ t.at = "replace" => t.entry.doc > t.previous[t.path].doc /\ t.previous[t.path].doc # 0
  /\ t.at \in {"reconcile", "recordMissing"} =>
       \A p \in t.todo : p \notin t.seen /\ IsActive(t.previous[p])
  /\ t.unread # {} => t.failed
  /\ t.at = "reconcile" => ~t.failed

\* A clean scan runs alone, with the patterns of the row.
Alone(s) == scan[s].clean =>
  /\ scan[s].patterns = patterns
  /\ \A t \in Scanners \ {s} : ~Busy(t)

Walks == {"list", "examine", "upload", "replace", "record"}

\* A clean scan that walks: the files before it are as its entries say, those
\* behind it are mirrored, and so is the one in hand.
CleanWalk(t) == t.clean =>
  /\ t.at = "list" => t.seen = {} /\ \A p \in Files : Trusted(t, p)
  /\ t.at \in Walks \ {"list"} =>
       \A p \in Files : IF p \in t.todo THEN p = t.path \/ Trusted(t, p) ELSE Settled(t, p)
  /\ t.at = "upload" =>
       /\ Trusted(t, t.path)
       /\ WouldImport(t.path) /\ t.path \in t.seen
       /\ t.entry.hash = disk[t.path].content
  /\ t.at = "replace" =>
       WouldImport(t.path) /\ t.path \in t.seen /\ Holds(t.entry, t.path)
  /\ t.at = "record" =>
       IF WouldImport(t.path) THEN t.path \in t.seen /\ Holds(t.entry, t.path)
       ELSE ~IsActive(t.entry)

\* A clean scan after its walk: what is left to do is what it did not see.
CleanSweep(t) == t.clean =>
  /\ t.at \in {"reconcile", "recordMissing", "done"} =>
       \A p \in Files : IF WouldImport(p) THEN p \in t.seen /\ Holds(latest[p], p)
                        ELSE \/ t.at # "done" /\ p \in t.todo
                             \/ ~IsActive(latest[p]) /\ Swept(t, p)
  /\ t.at = "recordMissing" =>
       t.entry.outcome = "deleted" /\ ~docs[t.previous[t.path].doc].live

HandsFull == \A s \in Scanners : Hands(scan[s])
CleanScans == \A s \in Scanners :
  Alone(s) /\ CleanWalk(scan[s]) /\ CleanSweep(scan[s])

IInv == TypeOK /\ EntriesNameTheirFiles /\ HandsFull /\ CleanScans

-----------------------------------------------------------------------------
(***************************************************************************)
(* Types.                                                                  *)
(***************************************************************************)

LEMMA Rows ==
  ASSUME ImportAssumption
  PROVE  /\ NoEntry \in Entry /\ IdleScan \in Scan
         /\ \A doc \in 0..MaxDocuments, hash \in Contents \cup {None} :
              Skipped \in Entry /\ Failed(doc, hash) \in Entry /\ Imported(doc, hash) \in Entry
         /\ \A e \in Entry : Unchanged(e) \in Entry
BY DEF ImportAssumption, NoEntry, Entry, IdleScan, Scan, Steps, Patterns, Skipped, Failed,
       Imported, Unchanged, Files

\* The fields of a scan.
LEMMA Fields ==
  ASSUME NEW t \in Scan
  PROVE  /\ t.at \in Steps /\ t.previous \in [Files -> Entry]
         /\ t.patterns \in [Files -> Patterns]
         /\ t.todo \subseteq Files /\ t.seen \subseteq Files /\ t.unread \subseteq Files
         /\ t.failed \in BOOLEAN
         /\ t.path \in 0..NumFiles /\ t.entry \in Entry /\ t.clean \in BOOLEAN
BY DEF Scan

\* Where a walk goes on.
LEMMA WalkingCases ==
  ASSUME ImportAssumption, NEW t \in Scan
  PROVE  \/ t.todo # {} /\ Walking(t) = [t EXCEPT !.at = "examine"]
         \/ t.todo = {} /\ t.failed /\ Walking(t) = IdleScan
         \/ t.todo = {} /\ ~t.failed /\ Missing(t) = {} /\ Walking(t) = Finished(t)
         \/ /\ t.todo = {} /\ ~t.failed
            /\ Walking(t) = [t EXCEPT !.at = "reconcile", !.todo = Missing(t)]
BY DEF Walking

LEMMA FinishedIsScan ==
  ASSUME ImportAssumption, NEW t \in Scan PROVE Finished(t) \in Scan
BY Rows DEF Finished, Scan, Steps

LEMMA WalkingIsScan ==
  ASSUME ImportAssumption, NEW t \in Scan PROVE Walking(t) \in Scan
<1>1. Missing(t) \subseteq Files
  BY DEF Missing
<1>2. [t EXCEPT !.at = "examine"] \in Scan
  BY DEF Scan, Steps
<1>3. [t EXCEPT !.at = "reconcile", !.todo = Missing(t)] \in Scan
  <2> HIDE DEF Missing
  <2>. QED
    BY <1>1 DEF Scan, Steps
<1>. QED
  BY <1>2, <1>3, Rows, FinishedIsScan, WalkingCases

\* What a step may do to the documents: all remain, and each of its file.
DocsGrow ==
  /\ docs' \in Seq(Document) /\ Len(docs') <= MaxDocuments
  /\ Len(docs) <= Len(docs')
  /\ \A d \in DOMAIN docs :
       /\ d \in DOMAIN docs'
       /\ docs'[d].path = docs[d].path
       /\ docs'[d].content = docs[d].content

LEMMA DocsAppended ==
  ASSUME ImportAssumption, TypeOK, HasRoom, NEW new \in Document, docs' = Append(docs, new)
  PROVE  /\ DocsGrow
         /\ Len(docs) \in Nat /\ Len(docs') = Len(docs) + 1
         /\ Len(docs) + 1 \in DOMAIN docs' /\ Len(docs) + 1 \in 0..MaxDocuments
         /\ docs'[Len(docs) + 1] = new
         /\ \A d \in DOMAIN docs : docs'[d] = docs[d]
BY DEF ImportAssumption, TypeOK, HasRoom, DocsGrow

LEMMA DocsSame ==
  ASSUME TypeOK, docs' = docs PROVE DocsGrow
BY DEF TypeOK, DocsGrow

LEMMA DocsDeleted ==
  ASSUME TypeOK, NEW d \in DOMAIN docs, docs' = [docs EXCEPT ![d].live = FALSE]
  PROVE  /\ DocsGrow
         /\ docs'[d].live = FALSE
         /\ \A i \in DOMAIN docs : i # d => docs'[i] = docs[i]
<1>1. docs \in Seq(Document) /\ DOMAIN docs = 1..Len(docs)
  BY DEF TypeOK
<1>2. docs[d] \in Document
  BY <1>1
<1> DEFINE new == [docs[d] EXCEPT !.live = FALSE]
<1>3. new \in Document /\ new.path = docs[d].path /\ new.content = docs[d].content /\ new.live = FALSE
  BY <1>2 DEF Document
<1>4. docs' = [docs EXCEPT ![d] = new]
  OBVIOUS
<1> HIDE DEF new
<1>5. /\ docs' \in Seq(Document) /\ Len(docs') = Len(docs)
      /\ \A i \in 1..Len(docs) : docs'[i] = IF i = d THEN new ELSE docs[i]
  <2>1. /\ [docs EXCEPT ![d] = new] \in Seq(Document)
        /\ Len([docs EXCEPT ![d] = new]) = Len(docs)
        /\ \A i \in 1..Len(docs) : [docs EXCEPT ![d] = new][i] = IF i = d THEN new ELSE docs[i]
    BY <1>1, <1>3, ExceptSeq
  <2>. QED
    BY <1>4, <2>1
<1>. QED
  BY <1>1, <1>3, <1>5 DEF DocsGrow, TypeOK

LEMMA TypeInit == ASSUME ImportAssumption, Init PROVE TypeOK
BY Rows DEF Init, TypeOK, ImportAssumption, Patterns, Document
-----------------------------------------------------------------------------
(***************************************************************************)
(* A step of one scan.                                                     *)
(***************************************************************************)

\* What the step of one scan has to show about what it makes of its record.
LEMMA StepOfOne ==
  ASSUME ImportAssumption, IInv, NEW s \in Scanners, Busy(s),
         NEW to \in Scan, scan' = [scan EXCEPT ![s] = to],
         DocsGrow, UNCHANGED <<disk, patterns>>,
         latest' \in [Files -> Entry], events' \in 0..MaxEvents,
         \A p \in Files : Names(latest[p], p)' /\ Names(to.previous[p], p)',
         to.path # 0 => Names(to.entry, to.path)',
         Hands(to),
         to.clean => scan[s].clean /\ to.patterns = scan[s].patterns,
         CleanWalk(to)', CleanSweep(to)'
  PROVE  IInv'
<1>1. scan' \in [Scanners -> Scan] /\ scan'[s] = to /\ \A t \in Scanners \ {s} : scan'[t] = scan[t]
  BY DEF IInv, TypeOK
<1>2. TypeOK'
  BY <1>1 DEF IInv, TypeOK, DocsGrow
<1>3. EntriesNameTheirFiles'
  <2>1. ASSUME NEW e, NEW p, Names(e, p) PROVE Names(e, p)'
    BY <2>1 DEF Names, DocsGrow
  <2>2. \A p \in Files : Names(latest[p], p)'
    OBVIOUS
  <2>3. ASSUME NEW t \in Scanners, NEW p \in Files PROVE Names(scan[t].previous[p], p)'
    <3>1. CASE t = s
      BY <3>1, <1>1 DEF Names
    <3>2. CASE t # s
      <4>1. Names(scan[t].previous[p], p)
        BY DEF IInv, EntriesNameTheirFiles
      <4>. QED
        BY <3>2, <4>1, <1>1 DEF Names, DocsGrow
    <3>. QED
      BY <3>1, <3>2
  <2>4. ASSUME NEW t \in Scanners, scan'[t].path # 0 PROVE Names(scan[t].entry, scan[t].path)'
    <3>1. CASE t = s
      BY <2>4, <3>1, <1>1 DEF Names
    <3>2. CASE t # s
      <4>1. Names(scan[t].entry, scan[t].path)
        BY <2>4, <3>2, <1>1 DEF IInv, EntriesNameTheirFiles
      <4>. QED
        BY <3>2, <4>1, <1>1 DEF Names, DocsGrow
    <3>. QED
      BY <3>1, <3>2
  <2>. QED
    BY <2>2, <2>3, <2>4 DEF EntriesNameTheirFiles
<1>4. HandsFull'
  BY <1>1 DEF IInv, HandsFull, Hands
<1>5. CleanScans'
  <2>1. ASSUME NEW t \in Scanners \ {s} PROVE ~scan'[t].clean
    BY <2>1, <1>1 DEF IInv, CleanScans, Alone
  <2>2. Alone(s)'
    BY <1>1 DEF IInv, CleanScans, Alone, Busy
  <2>3. CleanWalk(scan[s])' /\ CleanSweep(scan[s])'
    BY <1>1 DEF CleanWalk, CleanSweep, Trusted, Settled, Swept, Holds
  <2>. QED
    BY <1>1, <2>1, <2>2, <2>3 DEF CleanScans, Alone, CleanWalk, CleanSweep
<1>. QED
  BY <1>2, <1>3, <1>4, <1>5 DEF IInv

\* A scan that ends has nothing in hand.
LEMMA EndedScan ==
  ASSUME ImportAssumption
  PROVE  /\ IdleScan \in Scan /\ Hands(IdleScan) /\ ~IdleScan.clean /\ IdleScan.path = 0
         /\ IdleScan.at = "idle"
         /\ \A p \in Files : Names(IdleScan.previous[p], p)'
         /\ CleanWalk(IdleScan)' /\ CleanSweep(IdleScan)'
BY Rows DEF IdleScan, Hands, NoEntry, Names, CleanWalk, CleanSweep

\* A scan that goes on after a file, of which nothing is in hand any more.
LEMMA WalkOn ==
  ASSUME ImportAssumption, NEW t \in Scan, t.path = 0,
         \A p \in Files : t.previous[p] = NoEntry \/ IsActive(t.previous[p]),
         t.unread # {} => t.failed,
         t.clean => \A p \in Files : IF p \in t.todo THEN Trusted(t, p)' ELSE Settled(t, p)'
  PROVE  /\ Walking(t) \in Scan
         /\ Hands(Walking(t))
         /\ CleanWalk(Walking(t))' /\ CleanSweep(Walking(t))'
         /\ Walking(t).path = 0
         /\ Walking(t).clean => t.clean /\ Walking(t).patterns = t.patterns
         /\ \/ Walking(t).previous = t.previous
            \/ \A p \in Files : Walking(t).previous[p] = NoEntry
<1>1. PICK to : to = Walking(t)
  OBVIOUS
<1>2. to \in Scan
  BY <1>1, WalkingIsScan
<1>3. CASE t.todo # {} /\ to = [t EXCEPT !.at = "examine"]
  <2>1. /\ to.at = "examine" /\ to.todo = t.todo /\ to.previous = t.previous /\ to.seen = t.seen
        /\ to.path = 0 /\ to.clean = t.clean /\ to.patterns = t.patterns
        /\ to.unread = t.unread /\ to.failed = t.failed
    BY <1>3 DEF Scan
  <2>2. CleanWalk(to)' /\ CleanSweep(to)'
    BY <2>1 DEF CleanWalk, CleanSweep, Trusted, Settled, Walks
  <2>. QED
    BY <1>1, <1>2, <2>1, <2>2 DEF Hands
<1>4. CASE to = IdleScan
  BY <1>1, <1>4, EndedScan DEF IdleScan
<1>5. CASE t.todo = {} /\ ~t.failed /\ Missing(t) = {} /\ to = Finished(t)
  <2>1. CASE ~t.clean
    <3>1. /\ to.at = "done" /\ ~to.clean /\ to.path = 0 /\ to.unread = {}
          /\ to.previous = [p \in Files |-> NoEntry]
      BY <1>5, <2>1 DEF Finished, IdleScan
    <3>. QED
      BY <1>1, <1>2, <3>1 DEF Hands, CleanWalk, CleanSweep
  <2>2. CASE t.clean
    <3>1. /\ to.at = "done" /\ to.todo = {} /\ to.previous = t.previous /\ to.seen = t.seen
          /\ to.path = 0 /\ to.clean = t.clean /\ to.patterns = t.patterns
          /\ to.unread = t.unread /\ to.failed = t.failed
      BY <1>5, <2>2 DEF Finished, Scan
    <3>2. ASSUME NEW p \in Files, ~WouldImport(p)'
          PROVE  ~IsActive(latest'[p]) /\ Swept(t, p)'
      <4>1. Settled(t, p)'
        BY <1>5, <2>2
      <4>2. p \notin t.seen => ~IsActive(t.previous[p]) /\ t.previous[p].doc = 0
        BY <1>5 DEF Missing, NoEntry
      <4>. QED
        BY <3>2, <4>1, <4>2 DEF Settled, Swept
    <3>3. ASSUME NEW p \in Files, WouldImport(p)'
          PROVE  p \in t.seen /\ Holds(latest[p], p)'
      BY <1>5, <2>2, <3>3 DEF Settled
    <3>4. CleanWalk(to)' /\ CleanSweep(to)'
      BY <3>1, <3>2, <3>3 DEF CleanWalk, CleanSweep, Walks, Swept
    <3>. QED
      BY <1>1, <1>2, <3>1, <3>4 DEF Hands
  <2>. QED
    BY <2>1, <2>2
<1>6. CASE t.todo = {} /\ ~t.failed /\ to = [t EXCEPT !.at = "reconcile", !.todo = Missing(t)]
  <2>1. /\ to.at = "reconcile" /\ to.previous = t.previous /\ to.seen = t.seen
        /\ to.todo = {p \in Files \ t.seen : IsActive(t.previous[p])}
        /\ to.path = 0 /\ to.clean = t.clean /\ to.patterns = t.patterns
        /\ to.unread = t.unread /\ to.failed = t.failed
    <3> HIDE DEF Missing
    <3>1. /\ to.at = "reconcile" /\ to.previous = t.previous /\ to.seen = t.seen
          /\ to.todo = Missing(t)
          /\ to.path = 0 /\ to.clean = t.clean /\ to.patterns = t.patterns
          /\ to.unread = t.unread /\ to.failed = t.failed
      BY <1>6 DEF Scan
    <3>. QED
      BY <3>1 DEF Missing
  <2>2. ASSUME t.clean, NEW p \in Files, ~WouldImport(p)', p \notin to.todo
        PROVE  ~IsActive(latest'[p]) /\ Swept(t, p)'
    <3>1. Settled(t, p)'
      BY <1>6, <2>2
    <3>2. p \notin t.seen => ~IsActive(t.previous[p]) /\ t.previous[p].doc = 0
      BY <2>1, <2>2 DEF NoEntry
    <3>. QED
      BY <2>2, <3>1, <3>2 DEF Settled, Swept
  <2>3. ASSUME t.clean, NEW p \in Files, WouldImport(p)'
        PROVE  p \in t.seen /\ Holds(latest[p], p)'
    BY <1>6, <2>3 DEF Settled
  <2>4. CleanWalk(to)' /\ CleanSweep(to)'
    BY <2>1, <2>2, <2>3 DEF CleanWalk, CleanSweep, Walks, Swept
  <2>5. Hands(to)
    BY <1>6, <2>1 DEF Hands
  <2>. QED
    BY <1>1, <1>2, <2>1, <2>4, <2>5
<1>. QED
  BY <1>1, <1>3, <1>4, <1>5, <1>6, WalkingCases

\* What the invariant says of one scan.
LEMMA OfOne ==
  ASSUME IInv, NEW s \in Scanners
  PROVE  /\ scan[s] \in Scan /\ Hands(scan[s]) /\ Alone(s)
         /\ CleanWalk(scan[s]) /\ CleanSweep(scan[s])
         /\ \A p \in Files : Names(scan[s].previous[p], p) /\ Names(latest[p], p)
         /\ scan[s].path # 0 => Names(scan[s].entry, scan[s].path)
         /\ latest \in [Files -> Entry] /\ events \in 0..MaxEvents
         /\ docs \in Seq(Document)
BY DEF IInv, TypeOK, HandsFull, CleanScans, EntriesNameTheirFiles

\* Names are kept while documents are only added and deleted.
LEMMA NamesKept ==
  ASSUME DocsGrow, NEW e, NEW p, Names(e, p)
  PROVE  Names(e, p)'
BY DEF Names, DocsGrow

LEMMA FaultEvents ==
  ASSUME ImportAssumption, TypeOK, NEW f, Fault(f) PROVE events' \in 0..MaxEvents
BY DEF ImportAssumption, TypeOK, Fault

\* A scan that has read the directories goes on.
LEMMA ListFilesStep ==
  ASSUME ImportAssumption, IInv, NEW s \in Scanners, ListFiles(s) PROVE IInv'
<1>1. PICK listed : listed = Listed(s)
  OBVIOUS
<1>2. PICK t : t = [scan[s] EXCEPT !.todo = listed]
  OBVIOUS
<1>3. PICK to : to = Walking(t)
  OBVIOUS
<1>4. Busy(s) /\ scan[s].at = "list" /\ UNCHANGED <<disk, patterns, docs, latest, events>>
  BY DEF ListFiles, Busy
<1>5. listed \subseteq Files
  BY <1>1 DEF Listed
<1>6. /\ t \in Scan /\ t.todo = listed /\ t.previous = scan[s].previous /\ t.seen = scan[s].seen
      /\ t.path = scan[s].path /\ t.clean = scan[s].clean /\ t.patterns = scan[s].patterns
      /\ t.unread = scan[s].unread /\ t.failed = scan[s].failed
  BY <1>2, <1>5, OfOne DEF Scan
<1>7. DocsGrow
  BY <1>4, DocsSame DEF IInv
<1>8. /\ t.path = 0
      /\ t.unread # {} => t.failed
      /\ \A p \in Files : t.previous[p] = NoEntry \/ IsActive(t.previous[p])
  BY <1>4, <1>6, OfOne DEF Hands
<1>9. ASSUME t.clean, NEW p \in Files
      PROVE  IF p \in t.todo THEN Trusted(t, p)' ELSE Settled(t, p)'
  <2>1. Trusted(scan[s], p) /\ scan[s].seen = {} /\ scan[s].patterns = patterns
    BY <1>4, <1>6, <1>9, OfOne DEF CleanWalk, Alone, Walks
  <2>2. p \notin listed => ~WouldImport(p)
    BY <1>1, <2>1 DEF WouldImport, Listed
  <2>3. IsActive(latest[p]) => IsActive(t.previous[p])
    BY <1>6, <2>1 DEF Trusted
  <2>. QED
    BY <1>4, <1>6, <2>1, <2>2, <2>3 DEF Trusted, Settled, WouldImport
<1>10. /\ to \in Scan /\ Hands(to) /\ CleanWalk(to)' /\ CleanSweep(to)' /\ to.path = 0
       /\ to.clean => t.clean /\ to.patterns = t.patterns
       /\ to.previous = t.previous \/ \A p \in Files : to.previous[p] = NoEntry
  BY <1>3, <1>6, <1>8, <1>9, WalkOn
<1>11. \A p \in Files : Names(latest[p], p)' /\ Names(to.previous[p], p)'
  BY <1>4, <1>6, <1>10, OfOne DEF Names, NoEntry
<1>12. scan' = [scan EXCEPT ![s] = to]
  BY <1>1, <1>2, <1>3 DEF ListFiles, Advance
<1>. QED
  BY <1>4, <1>6, <1>7, <1>10, <1>11, <1>12, StepOfOne, OfOne

\* A scan that could not read a directory goes on without its files.
LEMMA WalkFailsStep ==
  ASSUME ImportAssumption, IInv, NEW s \in Scanners, WalkFails(s) PROVE IInv'
<1>1. PICK unread \in SUBSET Listed(s) :
        Advance(s, Walking([scan[s] EXCEPT !.todo = Listed(s) \ unread, !.unread = unread,
                                           !.failed = TRUE, !.clean = FALSE]))
  BY DEF WalkFails
<1>2. PICK listed : listed = Listed(s) \ unread
  OBVIOUS
<1>3. PICK t : t = [scan[s] EXCEPT !.todo = listed, !.unread = unread,
                                   !.failed = TRUE, !.clean = FALSE]
  OBVIOUS
<1>4. PICK to : to = Walking(t)
  OBVIOUS
<1>5. Busy(s) /\ scan[s].at = "list" /\ UNCHANGED <<disk, patterns, docs, latest>>
  BY DEF WalkFails, Busy
<1>6. listed \subseteq Files /\ unread \subseteq Files
  BY <1>1, <1>2 DEF Listed
<1>7. /\ t \in Scan /\ t.previous = scan[s].previous /\ t.path = scan[s].path
      /\ ~t.clean /\ t.failed
  BY <1>3, <1>6, OfOne DEF Scan
<1>8. t.path = 0 /\ \A p \in Files : t.previous[p] = NoEntry \/ IsActive(t.previous[p])
  BY <1>5, <1>7, OfOne DEF Hands
<1>9. /\ to \in Scan /\ Hands(to) /\ CleanWalk(to)' /\ CleanSweep(to)' /\ to.path = 0
      /\ ~to.clean
      /\ to.previous = t.previous \/ \A p \in Files : to.previous[p] = NoEntry
  BY <1>4, <1>7, <1>8, WalkOn
<1>10. DocsGrow
  BY <1>5, DocsSame DEF IInv
<1>11. \A p \in Files : Names(latest[p], p)' /\ Names(to.previous[p], p)'
  BY <1>5, <1>7, <1>9, OfOne DEF Names, NoEntry
<1>12. scan' = [scan EXCEPT ![s] = to]
  BY <1>1, <1>2, <1>3, <1>4 DEF Advance
<1>13. events' \in 0..MaxEvents
  BY FaultEvents DEF WalkFails, IInv
<1>14. UNCHANGED <<disk, patterns>> /\ latest' \in [Files -> Entry]
  BY <1>5, OfOne
<1>. QED
  BY <1>5, <1>9, <1>10, <1>11, <1>12, <1>13, <1>14, StepOfOne

LEMMA ExamineStep ==
  ASSUME ImportAssumption, IInv, NEW s \in Scanners, Examine(s) PROVE IInv'
<1>1. /\ Busy(s) /\ scan[s].at = "examine" /\ scan[s].path = 0
      /\ UNCHANGED <<disk, patterns, docs, latest, events>>
  BY OfOne DEF Examine, Busy, Hands
<1>2. PICK p \in Files :
        /\ NextFile(s, p)
        /\ LET t == [scan[s] EXCEPT !.path = p,
                                   !.seen = IF Sees(s, p) THEN @ \cup {p} ELSE @]
           IN  IF NoUpload(s, p)
               THEN Advance(s, [t EXCEPT !.at = "record", !.entry = Verdict(s, p)])
               ELSE Advance(s, [t EXCEPT !.at = "upload",
                                         !.entry = Imported(0, disk[p].content)])
  BY DEF Examine
<1>3. p \in scan[s].todo
  BY <1>2 DEF NextFile
<1>4. DocsGrow
  BY <1>1, DocsSame DEF IInv
<1>5. PICK t : t = [scan[s] EXCEPT !.path = p,
                                   !.seen = IF Sees(s, p) THEN @ \cup {p} ELSE @]
  OBVIOUS
<1>6. /\ t \in Scan /\ t.todo = scan[s].todo /\ t.previous = scan[s].previous
      /\ t.path = p /\ t.clean = scan[s].clean /\ t.patterns = scan[s].patterns
      /\ t.unread = scan[s].unread /\ t.failed = scan[s].failed
      /\ t.seen = IF Sees(s, p) THEN scan[s].seen \cup {p} ELSE scan[s].seen
  <2>1. PICK seen : seen = IF Sees(s, p) THEN scan[s].seen \cup {p} ELSE scan[s].seen
    OBVIOUS
  <2>2. scan[s] \in Scan /\ seen \subseteq Files
    BY <2>1, OfOne DEF Scan
  <2>3. t = [scan[s] EXCEPT !.path = p, !.seen = seen]
    BY <1>5, <2>1
  <2>4. p \in 0..NumFiles
    BY DEF Files, ImportAssumption
  <2>5. /\ t \in Scan /\ t.todo = scan[s].todo /\ t.previous = scan[s].previous
        /\ t.path = p /\ t.clean = scan[s].clean /\ t.patterns = scan[s].patterns
        /\ t.unread = scan[s].unread /\ t.failed = scan[s].failed
        /\ t.seen = seen
    BY <2>2, <2>3, <2>4 DEF Scan
  <2>. QED
    BY <2>1, <2>5
<1>6a. ASSUME t.clean, NEW q \in Files
       PROVE  IF q \in scan[s].todo THEN Trusted(scan[s], q) ELSE Settled(scan[s], q)
  <2>1. q # scan[s].path
    BY <1>1 DEF Files
  <2>2. CleanWalk(scan[s]) /\ scan[s].clean
    BY <1>6, <1>6a, OfOne
  <2>. QED
    BY <1>1, <2>1, <2>2 DEF CleanWalk, Walks
\* The other files are as they were.
<1>7. ASSUME t.clean, NEW q \in Files, q # p
      PROVE  IF q \in t.todo THEN Trusted(t, q)' ELSE Settled(t, q)'
  <2>1. IF q \in scan[s].todo THEN Trusted(scan[s], q) ELSE Settled(scan[s], q)
    BY <1>7, <1>6a
  <2>2. q \in t.seen <=> q \in scan[s].seen
    BY <1>6, <1>7
  <2>. QED
    BY <1>1, <1>6, <2>1, <2>2 DEF Trusted, Settled, WouldImport, Holds
<1>8. ASSUME t.clean
      PROVE  /\ Trusted(t, p) /\ scan[s].patterns = patterns
             /\ WouldImport(p) <=> Sees(s, p) /\ disk[p].kind = "file"
  <2>1. Trusted(scan[s], p) /\ scan[s].patterns = patterns
    BY <1>3, <1>6, <1>8, <1>6a, OfOne DEF Alone
  <2>. QED
    BY <1>6, <2>1 DEF Trusted, WouldImport, Sees
<1>9. Sees(s, p) => p \in t.seen
  BY <1>6
<1>10. disk[p] \in FileStates /\ scan[s].previous[p] \in Entry
  BY OfOne DEF IInv, TypeOK, Scan
<1>11. ASSUME NEW to \in Scan, scan' = [scan EXCEPT ![s] = to],
              to.at \in {"record", "upload"},
              to.todo = t.todo, to.previous = t.previous, to.seen = t.seen, to.path = p,
              to.clean = t.clean, to.patterns = t.patterns,
              to.unread = t.unread, to.failed = t.failed,
              Names(to.entry, p),
              to.at = "upload" => to.entry.outcome = "imported" /\ to.entry.hash \in Contents,
              to.clean /\ to.at = "upload" => WouldImport(p) /\ to.entry.hash = disk[p].content,
              to.clean /\ to.at = "record" =>
                IF WouldImport(p) THEN Holds(to.entry, p) ELSE ~IsActive(to.entry)
       PROVE  IInv'
  <2>1. Hands(to)
    BY <1>3, <1>6, <1>11, OfOne DEF Hands
  <2>2. CleanWalk(to)'
    <3>1. ASSUME to.clean
          PROVE  \A q \in Files : IF q \in to.todo THEN q = to.path \/ Trusted(to, q)' ELSE Settled(to, q)'
      <4>1. ASSUME NEW q \in Files, q # p
            PROVE  IF q \in to.todo THEN Trusted(to, q)' ELSE Settled(to, q)'
        BY <1>7, <1>11, <3>1, <4>1 DEF Trusted, Settled
      <4>. QED
        BY <1>3, <1>6, <1>11, <4>1
    <3>2. to.clean => Trusted(to, p)'
      BY <1>1, <1>8, <1>11 DEF Trusted
    <3>3. to.clean /\ WouldImport(p) => p \in to.seen
      BY <1>8, <1>9, <1>11
    <3>4. (WouldImport(p))' <=> WouldImport(p)
      BY <1>1 DEF WouldImport
    <3>5. (Holds(to.entry, p))' <=> Holds(to.entry, p)
      BY <1>1 DEF Holds
    <3>6. disk' = disk
      BY <1>1
    <3>. QED
      BY <1>11, <3>1, <3>2, <3>3, <3>4, <3>5, <3>6 DEF CleanWalk, Walks
  <2>3. CleanSweep(to)'
    BY <1>11 DEF CleanSweep
  <2>4. \A q \in Files : Names(latest[q], q)' /\ Names(to.previous[q], q)'
    BY <1>4, <1>6, <1>11, OfOne, NamesKept, <1>1 DEF Names
  <2>5. Names(to.entry, to.path)'
    BY <1>4, <1>11, NamesKept
  <2>6. UNCHANGED <<disk, patterns>> /\ latest' \in [Files -> Entry] /\ events' \in 0..MaxEvents
    BY <1>1, OfOne
  <2>7. to.clean => scan[s].clean /\ to.patterns = scan[s].patterns
    BY <1>6, <1>11
  <2>. QED
    BY <1>1, <1>4, <1>11, <2>1, <2>2, <2>3, <2>4, <2>5, <2>6, <2>7, StepOfOne
<1>12. CASE NoUpload(s, p)
  <2>1. PICK e : e = Verdict(s, p)
    OBVIOUS
  <2>2. PICK to : to = [t EXCEPT !.at = "record", !.entry = e]
    OBVIOUS
  <2>3. scan' = [scan EXCEPT ![s] = to]
    BY <1>2, <1>5, <1>12, <2>1, <2>2 DEF Advance
  <2>4. \/ e = Skipped /\ ~(Sees(s, p) /\ disk[p].kind = "file")
        \/ e = Failed(0, None) /\ disk[p].kind # "file"
        \/ /\ e = Unchanged(scan[s].previous[p])
           /\ Sees(s, p) /\ disk[p].kind = "file"
           /\ IsActive(scan[s].previous[p]) /\ scan[s].previous[p].hash = disk[p].content
    <3>1. Sees(s, p) => \/ disk[p].kind \in {"hidden", "unsupported", "absent", "unreadable"}
                        \/ disk[p].kind = "file"
      BY <1>10 DEF FileStates, ImportAssumption
    <3>. QED
      BY <1>12, <2>1, <3>1 DEF Verdict, NoUpload
  <2>5. e \in Entry
    BY <1>10, <2>4, Rows DEF ImportAssumption
  <2>6. /\ to \in Scan /\ to.at = "record" /\ to.entry = e
        /\ to.todo = t.todo /\ to.previous = t.previous /\ to.seen = t.seen /\ to.path = p
        /\ to.clean = t.clean /\ to.patterns = t.patterns
        /\ to.unread = t.unread /\ to.failed = t.failed
    BY <1>6, <2>2, <2>5 DEF Scan, Steps
  <2>7. Names(e, p)
    BY <2>4, OfOne DEF Names, Skipped, Failed, Unchanged
  <2>8. t.clean => IF WouldImport(p) THEN Holds(e, p) ELSE ~IsActive(e)
    <3>1. ASSUME t.clean, WouldImport(p) PROVE Holds(e, p)
      <4>1. /\ e = Unchanged(scan[s].previous[p])
            /\ IsActive(scan[s].previous[p]) /\ scan[s].previous[p].hash = disk[p].content
        BY <1>8, <2>4, <3>1
      <4>2. Trusted(t, p) /\ t.previous = scan[s].previous
        BY <1>6, <1>8, <3>1
      <4>3. IsActive(e) /\ e.doc = scan[s].previous[p].doc /\ e.doc # 0
        BY <4>1 DEF IsActive, Unchanged
      <4>4. docs[e.doc].live /\ docs[e.doc].content = disk[p].content
        BY <4>1, <4>2, <4>3 DEF Trusted
      <4>. QED
        BY <2>7, <4>3, <4>4 DEF Holds, Names
    <3>2. ASSUME t.clean, ~WouldImport(p) PROVE ~IsActive(e)
      BY <1>8, <2>4, <3>2 DEF IsActive, Skipped, Failed
    <3>. QED
      BY <3>1, <3>2
  <2>. QED
    BY <1>11, <2>3, <2>6, <2>7, <2>8
<1>13. CASE ~NoUpload(s, p)
  <2>1. PICK e : e = Imported(0, disk[p].content)
    OBVIOUS
  <2>2. PICK to : to = [t EXCEPT !.at = "upload", !.entry = e]
    OBVIOUS
  <2>3. scan' = [scan EXCEPT ![s] = to]
    BY <1>2, <1>5, <1>13, <2>1, <2>2 DEF Advance
  <2>4. Sees(s, p) /\ disk[p].kind = "file" /\ disk[p].content \in Contents
    BY <1>10, <1>13 DEF NoUpload, FileStates, ImportAssumption
  <2>5. e \in Entry /\ e.doc = 0 /\ e.hash = disk[p].content /\ e.outcome = "imported"
    BY <2>1, <2>4, Rows DEF ImportAssumption, Imported
  <2>6. /\ to \in Scan /\ to.at = "upload" /\ to.entry = e
        /\ to.todo = t.todo /\ to.previous = t.previous /\ to.seen = t.seen /\ to.path = p
        /\ to.clean = t.clean /\ to.patterns = t.patterns
        /\ to.unread = t.unread /\ to.failed = t.failed
    BY <1>6, <2>2, <2>5 DEF Scan, Steps
  <2>7. t.clean => WouldImport(p)
    BY <1>8, <2>4
  <2>. QED
    BY <1>11, <2>3, <2>4, <2>5, <2>6, <2>7 DEF Names
<1>. QED
  BY <1>12, <1>13

\* An upload or the deletion of the document it replaces: documents of other
\* files are not touched.
LEMMA HandledStep ==
  ASSUME ImportAssumption, IInv, NEW s \in Scanners, scan[s].at \in {"upload", "replace"},
         NEW to \in Scan, scan' = [scan EXCEPT ![s] = to],
         to.at \in {"replace", "record"},
         to.todo = scan[s].todo, to.previous = scan[s].previous, to.seen = scan[s].seen,
         to.path = scan[s].path, to.patterns = scan[s].patterns,
         to.unread = scan[s].unread, to.failed = scan[s].failed,
         UNCHANGED <<disk, patterns, latest>>, events' \in 0..MaxEvents,
         DocsGrow, \A d \in DOMAIN docs : docs[d].path # to.path => docs'[d] = docs[d],
         Names(to.entry, to.path)',
         to.at = "replace" => /\ to.previous[to.path].doc # 0
                              /\ to.entry.doc > to.previous[to.path].doc,
         to.clean => scan[s].clean /\ Holds(to.entry, to.path)'
  PROVE  IInv'
<1>1. Busy(s) /\ to.path \in to.todo /\ to.path \in Files
  BY OfOne DEF Busy, Hands, Scan
<1>2. Hands(to)
  BY <1>1, OfOne DEF Hands
<1>3. ASSUME to.clean, NEW q \in Files, q # to.path
      PROVE  IF q \in to.todo THEN Trusted(to, q)' ELSE Settled(to, q)'
  <2>1. IF q \in to.todo THEN Trusted(scan[s], q) ELSE Settled(scan[s], q)
    BY <1>3, OfOne DEF CleanWalk, Walks
  <2>2. Names(to.previous[q], q) /\ Names(latest[q], q)
    BY OfOne
  <2>3. CASE q \in to.todo
    <3>1. Trusted(scan[s], q)
      BY <2>1, <2>3
    <3>2. to.previous[q].doc # 0 => docs'[to.previous[q].doc] = docs[to.previous[q].doc]
      BY <1>3, <2>2 DEF Names
    <3>. QED
      BY <2>3, <3>1, <3>2 DEF Trusted
  <2>4. CASE q \notin to.todo
    <3>1. Settled(scan[s], q)
      BY <2>1, <2>4
    <3>2. IsActive(latest[q]) => docs'[latest[q].doc] = docs[latest[q].doc]
      BY <1>3, <2>2 DEF Names, IsActive
    <3>. QED
      BY <2>4, <3>1, <3>2 DEF Settled, WouldImport, Holds
  <2>. QED
    BY <2>3, <2>4
<1>4. to.clean => WouldImport(to.path) /\ to.path \in to.seen
  BY OfOne DEF CleanWalk, Walks
<1>5. CleanWalk(to)'
  <2>1. (WouldImport(to.path))' <=> WouldImport(to.path)
    BY DEF WouldImport
  <2>2. to.clean => \A q \in Files :
          IF q \in to.todo THEN q = to.path \/ Trusted(to, q)' ELSE Settled(to, q)'
    BY <1>1, <1>3
  <2>3. to.clean => Holds(to.entry, to.path)'
    OBVIOUS
  <2>. QED
    BY <1>4, <2>1, <2>2, <2>3 DEF CleanWalk, Walks
<1>6. CleanSweep(to)'
  BY DEF CleanSweep
<1>7. \A q \in Files : Names(latest[q], q)' /\ Names(to.previous[q], q)'
  BY OfOne DEF Names, DocsGrow
<1>. QED
  BY <1>1, <1>2, <1>5, <1>6, <1>7, StepOfOne, OfOne

\* The document that an upload has just stored.
LEMMA UploadedDocument ==
  ASSUME ImportAssumption, IInv, NEW s \in Scanners, scan[s].at = "upload", HasRoom,
         NEW content \in Contents,
         docs' = Append(docs, [path |-> scan[s].path, content |-> content, live |-> TRUE])
  PROVE  /\ DocsGrow
         /\ Len(docs) + 1 \in DOMAIN docs' /\ Len(docs) + 1 \in 0..MaxDocuments
         /\ Len(docs) + 1 # 0
         /\ docs'[Len(docs) + 1].path = scan[s].path
         /\ docs'[Len(docs) + 1].content = content
         /\ docs'[Len(docs) + 1].live = TRUE
         /\ \A d \in DOMAIN docs : docs'[d] = docs[d] /\ d < Len(docs) + 1
<1>1. PICK new : new = [path |-> scan[s].path, content |-> content, live |-> TRUE]
  OBVIOUS
<1>2. scan[s].path \in Files
  BY OfOne DEF Hands, Scan
<1>3. new \in Document /\ new.path = scan[s].path /\ new.content = content /\ new.live = TRUE
  BY <1>1, <1>2 DEF Document
<1>4. docs' = Append(docs, new)
  BY <1>1
<1>5. /\ DocsGrow /\ Len(docs) \in Nat
      /\ Len(docs) + 1 \in DOMAIN docs' /\ Len(docs) + 1 \in 0..MaxDocuments
      /\ docs'[Len(docs) + 1] = new
      /\ \A d \in DOMAIN docs : docs'[d] = docs[d]
  BY <1>3, <1>4, DocsAppended DEF IInv
<1>6. \A d \in DOMAIN docs : d < Len(docs) + 1
  BY OfOne
<1>. QED
  BY <1>3, <1>5, <1>6

LEMMA UploadStep ==
  ASSUME ImportAssumption, IInv, NEW s \in Scanners, Upload(s) PROVE IInv'
<1>1. /\ scan[s].at = "upload" /\ HasRoom
      /\ UNCHANGED <<disk, patterns, latest, events>>
      /\ scan[s].path \in Files /\ scan[s].entry \in Entry
  BY OfOne DEF Upload, Hands, Scan
<1>2. PICK content \in Contents :
        /\ disk[scan[s].path].kind = "file" => content = disk[scan[s].path].content
        /\ docs' = Append(docs, [path |-> scan[s].path, content |-> content, live |-> TRUE])
        /\ Advance(s, [scan[s] EXCEPT !.entry.doc = Len(docs) + 1,
             !.at = IF scan[s].previous[scan[s].path].doc # 0 THEN "replace" ELSE "record"])
  BY DEF Upload
<1>3. /\ DocsGrow
      /\ Len(docs) + 1 \in DOMAIN docs' /\ Len(docs) + 1 \in 0..MaxDocuments /\ Len(docs) + 1 # 0
      /\ docs'[Len(docs) + 1].path = scan[s].path
      /\ docs'[Len(docs) + 1].content = content
      /\ docs'[Len(docs) + 1].live = TRUE
      /\ \A d \in DOMAIN docs : docs'[d] = docs[d] /\ d < Len(docs) + 1
  BY <1>1, <1>2, UploadedDocument
<1>4. PICK n : n = Len(docs) + 1
  OBVIOUS
<1>5. PICK e : e = [scan[s].entry EXCEPT !.doc = n]
  OBVIOUS
<1>6. /\ e \in Entry /\ e.doc = n /\ e.outcome = "imported" /\ e.hash = scan[s].entry.hash
      /\ e.hash \in Contents
  BY <1>1, <1>3, <1>4, <1>5, OfOne DEF Entry, Hands
<1>7. PICK step \in {"replace", "record"} :
        step = IF scan[s].previous[scan[s].path].doc # 0 THEN "replace" ELSE "record"
  OBVIOUS
<1>8. PICK to : to = [scan[s] EXCEPT !.entry = e, !.at = step]
  OBVIOUS
<1>9. scan' = [scan EXCEPT ![s] = to]
  BY <1>2, <1>4, <1>5, <1>7, <1>8 DEF Advance
<1>10. /\ to \in Scan /\ to.at = step /\ to.entry = e
       /\ to.todo = scan[s].todo /\ to.previous = scan[s].previous /\ to.seen = scan[s].seen
       /\ to.path = scan[s].path /\ to.patterns = scan[s].patterns /\ to.clean = scan[s].clean
       /\ to.unread = scan[s].unread /\ to.failed = scan[s].failed
  BY <1>6, <1>8, OfOne DEF Scan, Steps
<1>11. to.at = "replace" => /\ to.previous[to.path].doc # 0
                            /\ to.entry.doc > to.previous[to.path].doc
  <2>1. Names(scan[s].previous[scan[s].path], scan[s].path)
    BY <1>1, OfOne
  <2>2. scan[s].previous[scan[s].path].doc # 0 => scan[s].previous[scan[s].path].doc < n
    BY <1>3, <1>4, <2>1 DEF Names
  <2>3. n \in Int /\ scan[s].previous[scan[s].path].doc \in Int
    BY <1>1, <1>3, <1>4, OfOne DEF Scan, Entry
  <2>. QED
    BY <1>6, <1>7, <1>10, <2>2, <2>3
<1>12. Names(to.entry, to.path)'
  BY <1>3, <1>4, <1>6, <1>10 DEF Names
<1>13. to.clean => Holds(to.entry, to.path)'
  <2>1. ASSUME to.clean PROVE content = disk[scan[s].path].content
    <3>1. WouldImport(scan[s].path)
      BY <1>1, <1>10, <2>1, OfOne DEF CleanWalk, Walks
    <3>. QED
      BY <1>2, <3>1 DEF WouldImport
  <2>2. IsActive(e)
    BY <1>3, <1>4, <1>6 DEF IsActive, ImportAssumption
  <2>. QED
    BY <1>1, <1>3, <1>4, <1>6, <1>10, <2>1, <2>2 DEF Holds
<1>. QED
  BY <1>1, <1>3, <1>7, <1>9, <1>10, <1>11, <1>12, <1>13, HandledStep, OfOne

LEMMA OpenFailsStep ==
  ASSUME ImportAssumption, IInv, NEW s \in Scanners, OpenFails(s) PROVE IInv'
<1>1. /\ scan[s].at = "upload" /\ disk[scan[s].path].kind \in {"absent", "unreadable"}
      /\ UNCHANGED <<disk, patterns, docs, latest, events>>
  BY DEF OpenFails
<1>2. PICK e : e = Failed(0, scan[s].entry.hash)
  OBVIOUS
<1>3. e \in Entry /\ e.doc = 0
  BY <1>2, OfOne DEF Scan, Entry, Failed, ImportAssumption
<1>4. PICK to : to = [scan[s] EXCEPT !.at = "record", !.entry = e]
  OBVIOUS
<1>5. scan' = [scan EXCEPT ![s] = to]
  BY <1>2, <1>4 DEF OpenFails, Advance
<1>6. /\ to \in Scan /\ to.at = "record" /\ to.entry = e
      /\ to.todo = scan[s].todo /\ to.previous = scan[s].previous /\ to.seen = scan[s].seen
      /\ to.path = scan[s].path /\ to.patterns = scan[s].patterns /\ to.clean = scan[s].clean
      /\ to.unread = scan[s].unread /\ to.failed = scan[s].failed
  BY <1>3, <1>4, OfOne DEF Scan, Steps
<1>7. ~to.clean
  BY <1>1, <1>6, OfOne DEF CleanWalk, Walks, WouldImport
<1>8. Names(to.entry, to.path)'
  BY <1>3, <1>6 DEF Names
<1>9. DocsGrow
  BY <1>1, DocsSame DEF IInv
<1>. QED
  BY <1>1, <1>5, <1>6, <1>7, <1>8, <1>9, HandledStep, OfOne

LEMMA UploadFailsStep ==
  ASSUME ImportAssumption, IInv, NEW s \in Scanners, UploadFails(s) PROVE IInv'
<1>1. /\ scan[s].at = "upload" /\ HasRoom /\ UNCHANGED <<disk, patterns, latest>>
  BY DEF UploadFails
<1>2. scan[s].entry.hash \in Contents
  BY <1>1, OfOne DEF Hands
<1>3. events' \in 0..MaxEvents
  BY FaultEvents DEF UploadFails, IInv
<1>4. PICK doc :
        /\ Advance(s, [scan[s] EXCEPT !.at = "record", !.clean = FALSE,
                                      !.entry = Failed(doc, @.hash)])
        /\ \/ doc = 0 /\ docs' = docs
           \/ /\ doc \in {0, Len(docs) + 1}
              /\ docs' = Append(docs, [path |-> scan[s].path, content |-> scan[s].entry.hash,
                                       live |-> TRUE])
  BY DEF UploadFails
<1>5. /\ DocsGrow /\ doc \in 0..MaxDocuments
      /\ doc # 0 => doc \in DOMAIN docs' /\ docs'[doc].path = scan[s].path
      /\ \A d \in DOMAIN docs : docs'[d] = docs[d]
  <2>1. CASE doc = 0 /\ docs' = docs
    BY <2>1, DocsSame DEF IInv, ImportAssumption
  <2>2. CASE ~(doc = 0 /\ docs' = docs)
    <3>1. PICK content \in Contents : content = scan[s].entry.hash
      BY <1>2
    <3>2. docs' = Append(docs, [path |-> scan[s].path, content |-> content, live |-> TRUE])
      BY <1>4, <2>2, <3>1
    <3>3. /\ DocsGrow
          /\ Len(docs) + 1 \in DOMAIN docs' /\ Len(docs) + 1 \in 0..MaxDocuments
          /\ docs'[Len(docs) + 1].path = scan[s].path
          /\ \A d \in DOMAIN docs : docs'[d] = docs[d]
      BY <1>1, <3>2, UploadedDocument
    <3>4. doc = 0 \/ doc = Len(docs) + 1
      BY <1>4, <2>2
    <3>5. 0 \in 0..MaxDocuments
      BY DEF ImportAssumption
    <3>. QED
      BY <3>3, <3>4, <3>5
  <2>. QED
    BY <2>1, <2>2
<1>6. PICK e : e = Failed(doc, scan[s].entry.hash)
  OBVIOUS
<1>7. e \in Entry /\ e.doc = doc
  BY <1>2, <1>5, <1>6, Rows DEF Failed
<1>8. PICK to : to = [scan[s] EXCEPT !.at = "record", !.clean = FALSE, !.entry = e]
  OBVIOUS
<1>9. scan' = [scan EXCEPT ![s] = to]
  BY <1>4, <1>6, <1>8 DEF Advance
<1>10. /\ to \in Scan /\ to.at = "record" /\ to.entry = e
       /\ to.todo = scan[s].todo /\ to.previous = scan[s].previous /\ to.seen = scan[s].seen
       /\ to.path = scan[s].path /\ to.patterns = scan[s].patterns /\ ~to.clean
       /\ to.unread = scan[s].unread /\ to.failed = scan[s].failed
  BY <1>7, <1>8, OfOne DEF Scan, Steps
<1>11. Names(to.entry, to.path)'
  BY <1>5, <1>7, <1>10 DEF Names
<1>. QED
  BY <1>1, <1>3, <1>5, <1>9, <1>10, <1>11, HandledStep

LEMMA ReplaceStep ==
  ASSUME ImportAssumption, IInv, NEW s \in Scanners, Replace(s) PROVE IInv'
<1>1. /\ scan[s].at = "replace" /\ UNCHANGED <<disk, patterns, latest, events>>
  BY DEF Replace
<1>2. PICK old : old = scan[s].previous[scan[s].path].doc
  OBVIOUS
<1>3. /\ scan[s].path \in Files /\ scan[s].path # 0
      /\ old # 0 /\ scan[s].entry.doc > old
  BY <1>1, <1>2, OfOne DEF Hands, Scan, Files
<1>4. old \in DOMAIN docs /\ docs[old].path = scan[s].path
  BY <1>2, <1>3, OfOne DEF Names
<1>5. docs' = [docs EXCEPT ![old].live = FALSE]
  BY <1>2 DEF Replace
<1>6. DocsGrow /\ \A i \in DOMAIN docs : i # old => docs'[i] = docs[i]
  BY <1>4, <1>5, DocsDeleted DEF IInv
<1>7. PICK to : to = [scan[s] EXCEPT !.at = "record"]
  OBVIOUS
<1>8. scan' = [scan EXCEPT ![s] = to]
  BY <1>7 DEF Replace, Advance
<1>9. /\ to \in Scan /\ to.at = "record" /\ to.entry = scan[s].entry
      /\ to.todo = scan[s].todo /\ to.previous = scan[s].previous /\ to.seen = scan[s].seen
      /\ to.path = scan[s].path /\ to.patterns = scan[s].patterns /\ to.clean = scan[s].clean
      /\ to.unread = scan[s].unread /\ to.failed = scan[s].failed
  BY <1>7, OfOne DEF Scan, Steps
<1>10. Names(to.entry, to.path)'
  BY <1>3, <1>6, <1>9, OfOne, NamesKept
<1>11. to.entry.doc # old
  <2>1. old \in Int
    BY <1>4, OfOne
  <2>. QED
    BY <1>3, <1>9, <2>1
<1>12. to.clean => Holds(to.entry, to.path)'
  <2>1. ASSUME to.clean PROVE Holds(to.entry, to.path)
    BY <1>1, <1>9, <2>1, OfOne DEF CleanWalk, Walks
  <2>2. Holds(to.entry, to.path) => docs'[to.entry.doc] = docs[to.entry.doc]
    BY <1>3, <1>6, <1>9, <1>11, OfOne DEF Holds, IsActive, Names
  <2>. QED
    BY <1>1, <2>1, <2>2 DEF Holds
<1>13. /\ events' \in 0..MaxEvents
       /\ \A d \in DOMAIN docs : docs[d].path # to.path => docs'[d] = docs[d]
  BY <1>1, <1>4, <1>6, <1>9, OfOne
<1>14. /\ to.at # "replace"
       /\ to.clean => scan[s].clean /\ Holds(to.entry, to.path)'
       /\ scan[s].at \in {"upload", "replace"} /\ to.at \in {"replace", "record"}
  BY <1>1, <1>9, <1>12
<1>. QED
  BY <1>1, <1>6, <1>8, <1>9, <1>10, <1>13, <1>14, HandledStep

LEMMA ReplaceFailsStep ==
  ASSUME ImportAssumption, IInv, NEW s \in Scanners, ReplaceFails(s) PROVE IInv'
<1>1. /\ scan[s].at = "replace" /\ UNCHANGED <<disk, patterns, docs, latest>>
      /\ scan[s].path # 0
  BY OfOne DEF ReplaceFails, Hands, Scan, Files
<1>2. events' \in 0..MaxEvents
  BY FaultEvents DEF ReplaceFails, IInv
<1>3. PICK e : e = Failed(scan[s].entry.doc, scan[s].entry.hash)
  OBVIOUS
<1>4. e \in Entry /\ e.doc = scan[s].entry.doc
  BY <1>3, OfOne DEF Scan, Entry, Failed
<1>5. PICK to : to = [scan[s] EXCEPT !.at = "record", !.clean = FALSE, !.entry = e]
  OBVIOUS
<1>6. scan' = [scan EXCEPT ![s] = to]
  BY <1>3, <1>5 DEF ReplaceFails, Advance
<1>7. /\ to \in Scan /\ to.at = "record" /\ to.entry = e
      /\ to.todo = scan[s].todo /\ to.previous = scan[s].previous /\ to.seen = scan[s].seen
      /\ to.path = scan[s].path /\ to.patterns = scan[s].patterns /\ ~to.clean
      /\ to.unread = scan[s].unread /\ to.failed = scan[s].failed
  BY <1>4, <1>5, OfOne DEF Scan, Steps
<1>8. DocsGrow
  BY <1>1, DocsSame DEF IInv
<1>9. Names(to.entry, to.path)'
  BY <1>1, <1>4, <1>7, OfOne DEF Names
<1>. QED
  BY <1>1, <1>2, <1>6, <1>7, <1>8, <1>9, HandledStep

LEMMA RecordStep ==
  ASSUME ImportAssumption, IInv, NEW s \in Scanners, Record(s) PROVE IInv'
<1>1. /\ scan[s].at = "record" /\ Busy(s) /\ UNCHANGED <<disk, patterns, docs, events>>
      /\ scan[s].path \in scan[s].todo /\ scan[s].path \in Files /\ scan[s].path # 0
  BY OfOne DEF Record, Busy, Hands, Scan, Files
<1>2. PICK p : p = scan[s].path
  OBVIOUS
<1>3. PICK e : e = scan[s].entry
  OBVIOUS
<1>4. /\ latest' \in [Files -> Entry] /\ latest'[p] = e
      /\ \A q \in Files : q # p => latest'[q] = latest[q]
  BY <1>1, <1>2, <1>3, OfOne DEF Record, Scan
<1>5. PICK t : t = [scan[s] EXCEPT !.todo = @ \ {p}, !.path = 0, !.entry = NoEntry,
                                   !.failed = @ \/ scan[s].entry.outcome = "failed"]
  OBVIOUS
<1>6. PICK failed \in BOOLEAN : failed = (scan[s].failed \/ scan[s].entry.outcome = "failed")
  OBVIOUS
<1>7. PICK todo : todo = scan[s].todo \ {p}
  OBVIOUS
<1>8. /\ t \in Scan /\ t.todo = todo /\ t.path = 0
      /\ t.previous = scan[s].previous /\ t.seen = scan[s].seen
      /\ t.clean = scan[s].clean /\ t.patterns = scan[s].patterns
      /\ t.unread = scan[s].unread /\ (scan[s].failed => t.failed)
  <2>1. t = [scan[s] EXCEPT !.todo = todo, !.path = 0, !.entry = NoEntry, !.failed = failed]
    BY <1>5, <1>6, <1>7
  <2>2. todo \subseteq Files /\ 0 \in 0..NumFiles
    BY <1>7, OfOne DEF Scan, ImportAssumption
  <2>3. NoEntry \in Entry
    BY Rows
  <2>. QED
    BY <1>6, <2>1, <2>2, <2>3, OfOne DEF Scan
<1>9. PICK to : to = Walking(t)
  OBVIOUS
<1>10. scan' = [scan EXCEPT ![s] = to]
  BY <1>2, <1>5, <1>9 DEF Record, Advance
<1>11. ASSUME t.clean, NEW q \in Files
       PROVE  IF q \in t.todo THEN Trusted(t, q)' ELSE Settled(t, q)'
  <2>1. CASE q = p
    <3>1. IF WouldImport(p) THEN p \in t.seen /\ Holds(e, p) ELSE ~IsActive(e)
      BY <1>1, <1>2, <1>3, <1>8, <1>11, OfOne DEF CleanWalk, Walks
    <3>2. (WouldImport(p))' <=> WouldImport(p)
      BY <1>1 DEF WouldImport
    <3>3. (Holds(e, p))' <=> Holds(e, p)
      BY <1>1 DEF Holds
    <3>4. Settled(t, p)'
      BY <1>3, <1>4, <3>1, <3>2, <3>3 DEF Settled, Holds
    <3>. QED
      BY <1>7, <1>8, <2>1, <3>4
  <2>2. CASE q # p
    <3>1. IF q \in scan[s].todo THEN Trusted(scan[s], q) ELSE Settled(scan[s], q)
      BY <1>1, <1>2, <1>8, <1>11, <2>2, OfOne DEF CleanWalk, Walks
    <3>2. latest'[q] = latest[q] /\ docs' = docs /\ disk' = disk /\ patterns' = patterns
      BY <1>1, <1>4, <2>2
    <3>. QED
      BY <1>7, <1>8, <2>2, <3>1, <3>2 DEF Trusted, Settled, WouldImport, Holds
  <2>. QED
    BY <2>1, <2>2
<1>12. /\ \A q \in Files : t.previous[q] = NoEntry \/ IsActive(t.previous[q])
       /\ t.unread # {} => t.failed
  BY <1>8, OfOne DEF Hands
<1>13. /\ to \in Scan /\ Hands(to) /\ CleanWalk(to)' /\ CleanSweep(to)' /\ to.path = 0
       /\ to.clean => t.clean /\ to.patterns = t.patterns
       /\ to.previous = t.previous \/ \A q \in Files : to.previous[q] = NoEntry
  BY <1>8, <1>9, <1>11, <1>12, WalkOn
<1>14. \A q \in Files : Names(latest[q], q)'
  <2>1. Names(e, p)
    BY <1>1, <1>2, <1>3, OfOne
  <2>. QED
    BY <1>1, <1>4, <2>1, OfOne DEF Names
<1>15. \A q \in Files : Names(to.previous[q], q)'
  BY <1>1, <1>8, <1>13, OfOne DEF Names, NoEntry
<1>16. DocsGrow
  BY <1>1, DocsSame DEF IInv
<1>. QED
  BY <1>1, <1>4, <1>8, <1>10, <1>13, <1>14, <1>15, <1>16, StepOfOne, OfOne

LEMMA DeleteMissingStep ==
  ASSUME ImportAssumption, IInv, NEW s \in Scanners, DeleteMissing(s) PROVE IInv'
<1>1. /\ scan[s].at = "reconcile" /\ Busy(s) /\ UNCHANGED <<disk, patterns, latest>>
  BY DEF DeleteMissing, Busy
<1>2. PICK p \in scan[s].todo :
        LET e == scan[s].previous[p] IN
         \/ /\ docs' = [docs EXCEPT ![e.doc].live = FALSE]
            /\ Advance(s, [scan[s] EXCEPT !.at = "recordMissing", !.path = p,
                 !.entry = [outcome |-> "deleted", doc |-> e.doc, hash |-> e.hash]])
            /\ UNCHANGED events
         \/ /\ Fault("delete")
            /\ Advance(s, [scan[s] EXCEPT !.at = "recordMissing", !.path = p,
                 !.entry = Failed(e.doc, e.hash), !.failed = TRUE, !.clean = FALSE])
            /\ UNCHANGED docs
  BY DEF DeleteMissing
<1>3. /\ p \in Files /\ p \in 0..NumFiles /\ p # 0 /\ p \notin scan[s].seen
      /\ IsActive(scan[s].previous[p]) /\ scan[s].previous[p] \in Entry
  BY <1>1, OfOne DEF Hands, Scan, Files
<1>4. PICK old : old = scan[s].previous[p].doc
  OBVIOUS
<1>5. old \in DOMAIN docs /\ docs[old].path = p /\ old # 0 /\ old \in 0..MaxDocuments
  BY <1>3, <1>4, OfOne DEF Names, IsActive, Entry
<1>6. ASSUME NEW to \in Scan, scan' = [scan EXCEPT ![s] = to], DocsGrow, events' \in 0..MaxEvents,
             to.at = "recordMissing", to.path = p, to.entry.doc = old,
             to.todo = scan[s].todo, to.previous = scan[s].previous, to.seen = scan[s].seen,
             to.patterns = scan[s].patterns,
             to.unread = scan[s].unread, scan[s].failed => to.failed,
             to.clean => /\ scan[s].clean /\ to.entry.outcome = "deleted"
                         /\ docs' = [docs EXCEPT ![old].live = FALSE]
      PROVE  IInv'
  <2>1. Hands(to)
    BY <1>1, <1>6, OfOne DEF Hands
  <2>2. CleanWalk(to)'
    BY <1>6 DEF CleanWalk, Walks
  <2>3. ASSUME to.clean
        PROVE  /\ ~docs'[old].live
               /\ \A i \in DOMAIN docs : i # old => docs'[i] = docs[i]
               /\ \A i \in DOMAIN docs : ~docs[i].live => ~docs'[i].live
    BY <1>5, <1>6, <2>3, DocsDeleted DEF IInv
  <2>4. ASSUME to.clean, NEW q \in Files
        PROVE  IF WouldImport(q) THEN q \in to.seen /\ Holds(latest[q], q)'
               ELSE \/ q \in to.todo
                    \/ ~IsActive(latest'[q]) /\ Swept(to, q)'
    <3>1. IF WouldImport(q) THEN q \in to.seen /\ Holds(latest[q], q)
          ELSE \/ q \in to.todo
               \/ ~IsActive(latest[q]) /\ Swept(scan[s], q)
      BY <1>1, <1>6, <2>4, OfOne DEF CleanSweep
    <3>2. CASE WouldImport(q)
      <4>1. q # p /\ Names(latest[q], q) /\ Holds(latest[q], q)
        BY <1>3, <1>6, <3>1, <3>2, OfOne
      <4>2. latest[q].doc \in DOMAIN docs /\ latest[q].doc # old
        BY <1>5, <4>1 DEF Names, Holds, IsActive
      <4>3. docs'[latest[q].doc] = docs[latest[q].doc]
        BY <2>3, <2>4, <4>2
      <4>. QED
        BY <1>1, <3>1, <3>2, <4>1, <4>3 DEF Holds
    <3>3. CASE ~WouldImport(q) /\ q \notin to.todo
      <4>1. ~IsActive(latest'[q]) /\ Swept(scan[s], q)
        BY <1>1, <3>1, <3>3
      <4>2. q \notin to.seen /\ to.previous[q].doc # 0 =>
              to.previous[q].doc \in DOMAIN docs /\ ~docs[to.previous[q].doc].live
        BY <1>6, <4>1, OfOne DEF Swept, Names
      <4>. QED
        BY <2>3, <2>4, <3>3, <4>1, <4>2 DEF Swept
    <3>. QED
      BY <3>2, <3>3
  <2>5. CleanSweep(to)'
    <3>1. \A q \in Files : (WouldImport(q))' <=> WouldImport(q)
      BY <1>1 DEF WouldImport
    <3>2. to.clean => ~docs'[to.previous[to.path].doc].live /\ to.entry.outcome = "deleted"
      BY <1>4, <1>6, <2>3
    <3>. QED
      BY <1>6, <2>4, <3>1, <3>2 DEF CleanSweep
  <2>6. \A q \in Files : Names(latest[q], q)' /\ Names(to.previous[q], q)'
    BY <1>1, <1>6, OfOne DEF Names, DocsGrow
  <2>7. Names(to.entry, to.path)'
    BY <1>5, <1>6 DEF Names, DocsGrow
  <2>8. UNCHANGED <<disk, patterns>> /\ latest' \in [Files -> Entry]
    BY <1>1, OfOne
  <2>9. to.clean => scan[s].clean /\ to.patterns = scan[s].patterns
    BY <1>6
  <2>. QED
    BY <1>1, <1>6, <2>1, <2>2, <2>5, <2>6, <2>7, <2>8, <2>9, StepOfOne
<1>7. CASE /\ docs' = [docs EXCEPT ![old].live = FALSE]
           /\ Advance(s, [scan[s] EXCEPT !.at = "recordMissing", !.path = p,
                !.entry = [outcome |-> "deleted", doc |-> old, hash |-> scan[s].previous[p].hash]])
           /\ UNCHANGED events
  <2>1. PICK e : e = [outcome |-> "deleted", doc |-> old, hash |-> scan[s].previous[p].hash]
    OBVIOUS
  <2>2. e \in Entry /\ e.doc = old /\ e.outcome = "deleted"
    BY <1>3, <1>5, <2>1 DEF Entry
  <2>3. PICK to : to = [scan[s] EXCEPT !.at = "recordMissing", !.path = p, !.entry = e]
    OBVIOUS
  <2>4. scan' = [scan EXCEPT ![s] = to]
    BY <1>7, <2>1, <2>3 DEF Advance
  <2>5. /\ to \in Scan /\ to.at = "recordMissing" /\ to.path = p /\ to.entry = e
        /\ to.todo = scan[s].todo /\ to.previous = scan[s].previous /\ to.seen = scan[s].seen
        /\ to.patterns = scan[s].patterns /\ to.clean = scan[s].clean
        /\ to.unread = scan[s].unread /\ to.failed = scan[s].failed
    BY <1>3, <2>2, <2>3, OfOne DEF Scan, Steps
  <2>6. DocsGrow
    BY <1>5, <1>7, DocsDeleted DEF IInv
  <2>7. events' \in 0..MaxEvents
    BY <1>7, OfOne
  <2>. QED
    BY <1>6, <1>7, <2>2, <2>4, <2>5, <2>6, <2>7
<1>8. CASE /\ Fault("delete")
           /\ Advance(s, [scan[s] EXCEPT !.at = "recordMissing", !.path = p,
                !.entry = Failed(old, scan[s].previous[p].hash), !.failed = TRUE, !.clean = FALSE])
           /\ UNCHANGED docs
  <2>1. PICK e : e = Failed(old, scan[s].previous[p].hash)
    OBVIOUS
  <2>2. e \in Entry /\ e.doc = old
    BY <1>3, <1>5, <2>1 DEF Entry, Failed
  <2>3. PICK to : to = [scan[s] EXCEPT !.at = "recordMissing", !.path = p, !.entry = e,
                                       !.failed = TRUE, !.clean = FALSE]
    OBVIOUS
  <2>4. scan' = [scan EXCEPT ![s] = to]
    BY <1>8, <2>1, <2>3 DEF Advance
  <2>5. /\ to \in Scan /\ to.at = "recordMissing" /\ to.path = p /\ to.entry = e
        /\ to.todo = scan[s].todo /\ to.previous = scan[s].previous /\ to.seen = scan[s].seen
        /\ to.patterns = scan[s].patterns /\ ~to.clean
        /\ to.unread = scan[s].unread /\ to.failed
    BY <1>3, <2>2, <2>3, OfOne DEF Scan, Steps
  <2>6. DocsGrow
    BY <1>8, DocsSame DEF IInv
  <2>7. events' \in 0..MaxEvents
    BY <1>8, FaultEvents DEF IInv
  <2>. QED
    BY <1>6, <2>2, <2>4, <2>5, <2>6, <2>7
<1>. QED
  BY <1>2, <1>4, <1>7, <1>8

LEMMA RecordMissingStep ==
  ASSUME ImportAssumption, IInv, NEW s \in Scanners, RecordMissing(s) PROVE IInv'
<1>1. /\ scan[s].at = "recordMissing" /\ Busy(s) /\ UNCHANGED <<disk, patterns, docs, events>>
      /\ scan[s].path \in scan[s].todo /\ scan[s].path \in Files /\ scan[s].path # 0
  BY OfOne DEF RecordMissing, Busy, Hands, Scan, Files
<1>2. PICK p : p = scan[s].path
  OBVIOUS
<1>3. PICK e : e = scan[s].entry
  OBVIOUS
<1>4. /\ latest' \in [Files -> Entry] /\ latest'[p] = e
      /\ \A q \in Files : q # p => latest'[q] = latest[q]
  BY <1>1, <1>2, <1>3, OfOne DEF RecordMissing, Scan
<1>5. DocsGrow
  BY <1>1, DocsSame DEF IInv
<1>6. \A q \in Files : Names(latest[q], q)'
  <2>1. Names(e, p)
    BY <1>1, <1>2, <1>3, OfOne
  <2>. QED
    BY <1>1, <1>4, <2>1, OfOne DEF Names
<1>7. PICK left : left = scan[s].todo \ {p}
  OBVIOUS
<1>8. left \subseteq Files
  BY <1>7, OfOne DEF Scan
<1>9. UNCHANGED <<disk, patterns>> /\ events' \in 0..MaxEvents
  BY <1>1, OfOne
\* The files that are not left are as they should be.
<1>10. ASSUME scan[s].clean, NEW q \in Files
       PROVE  IF WouldImport(q)' THEN q \in scan[s].seen /\ Holds(latest[q], q)'
              ELSE q \in left \/ (~IsActive(latest'[q]) /\ Swept(scan[s], q))
  <2>1. IF WouldImport(q) THEN q \in scan[s].seen /\ Holds(latest[q], q)
        ELSE \/ q \in scan[s].todo
             \/ ~IsActive(latest[q]) /\ Swept(scan[s], q)
    BY <1>1, <1>10, OfOne DEF CleanSweep
  <2>2. (WouldImport(q))' <=> WouldImport(q)
    BY <1>1 DEF WouldImport
  <2>3. CASE q = p
    <3>1. e.outcome = "deleted" /\ ~docs[scan[s].previous[p].doc].live
      BY <1>1, <1>2, <1>3, <1>10, OfOne DEF CleanSweep
    <3>2. ~IsActive(latest'[p]) /\ Swept(scan[s], p)
      BY <1>4, <3>1 DEF IsActive, Swept
    <3>3. p \notin scan[s].seen
      BY <1>1, <1>2, OfOne DEF Hands
    <3>. QED
      BY <2>1, <2>2, <2>3, <3>2, <3>3
  <2>4. CASE q # p
    <3>1. latest'[q] = latest[q] /\ docs' = docs /\ disk' = disk
      BY <1>1, <1>4, <2>4
    <3>. QED
      BY <1>7, <2>1, <2>2, <2>4, <3>1 DEF Holds
  <2>. QED
    BY <2>3, <2>4
<1>11. CASE Advance(s, IdleScan)
  <2>1. PICK to : to = IdleScan
    OBVIOUS
  <2>2. scan' = [scan EXCEPT ![s] = to]
    BY <1>11, <2>1 DEF Advance
  <2>3. /\ to \in Scan /\ Hands(to) /\ ~to.clean /\ to.path = 0
        /\ \A q \in Files : Names(to.previous[q], q)'
        /\ CleanWalk(to)' /\ CleanSweep(to)'
    BY <2>1, EndedScan
  <2>. QED
    BY <1>1, <1>4, <1>5, <1>6, <1>9, <2>2, <2>3, StepOfOne
<1>12. CASE left = {} /\ Advance(s, Finished([scan[s] EXCEPT !.todo = left]))
  <2>1. PICK t : t = [scan[s] EXCEPT !.todo = left]
    OBVIOUS
  <2>2. PICK to : to = Finished(t)
    OBVIOUS
  <2>3. scan' = [scan EXCEPT ![s] = to]
    BY <1>12, <2>1, <2>2 DEF Advance
  <2>4. /\ t \in Scan /\ t.todo = {} /\ t.previous = scan[s].previous /\ t.seen = scan[s].seen
        /\ t.path = p /\ t.entry = e /\ t.clean = scan[s].clean /\ t.patterns = scan[s].patterns
        /\ t.unread = scan[s].unread /\ t.failed = scan[s].failed
    BY <1>2, <1>3, <1>8, <1>12, <2>1, OfOne DEF Scan
  <2>5. to \in Scan
    BY <2>2, <2>4, FinishedIsScan
  <2>6. CASE ~t.clean
    <3>1. /\ to.at = "done" /\ ~to.clean /\ to.path = 0 /\ to.unread = {}
          /\ to.previous = [q \in Files |-> NoEntry]
      BY <2>2, <2>6 DEF Finished, IdleScan
    <3>2. Hands(to) /\ CleanWalk(to)' /\ CleanSweep(to)'
      BY <3>1 DEF Hands, CleanWalk, CleanSweep
    <3>3. \A q \in Files : Names(to.previous[q], q)'
      BY <3>1 DEF Names, NoEntry
    <3>. QED
      BY <1>1, <1>4, <1>5, <1>6, <1>9, <2>3, <2>5, <3>1, <3>2, <3>3, StepOfOne
  <2>7. CASE t.clean
    <3>1. /\ to.at = "done" /\ to.todo = {} /\ to.previous = t.previous /\ to.seen = t.seen
          /\ to.path = p /\ to.entry = e /\ to.clean = t.clean /\ to.patterns = t.patterns
          /\ to.unread = t.unread /\ to.failed = t.failed
      BY <2>2, <2>4, <2>7 DEF Finished, Scan
    <3>2. Hands(to)
      BY <2>4, <3>1, OfOne DEF Hands
    <3>3. CleanWalk(to)'
      BY <3>1 DEF CleanWalk, Walks
    <3>4. CleanSweep(to)'
      <4>1. ASSUME NEW q \in Files, WouldImport(q)'
            PROVE  q \in to.seen /\ Holds(latest[q], q)'
        BY <1>10, <2>4, <2>7, <3>1, <4>1
      <4>2. ASSUME NEW q \in Files, ~WouldImport(q)'
            PROVE  ~IsActive(latest'[q]) /\ Swept(to, q)'
        BY <1>1, <1>10, <1>12, <2>4, <2>7, <3>1, <4>2 DEF Swept
      <4>. QED
        BY <3>1, <4>1, <4>2 DEF CleanSweep
    <3>5. /\ \A q \in Files : Names(to.previous[q], q)'
          /\ Names(to.entry, to.path)'
      BY <1>1, <1>2, <1>3, <2>4, <3>1, OfOne DEF Names
    <3>6. to.clean => scan[s].clean /\ to.patterns = scan[s].patterns
      BY <2>4, <3>1
    <3>. QED
      BY <1>1, <1>4, <1>5, <1>6, <1>9, <2>3, <2>5, <3>2, <3>3, <3>4, <3>5, <3>6, StepOfOne
  <2>. QED
    BY <2>6, <2>7
<1>13. CASE /\ ~scan[s].failed
            /\ Advance(s, [scan[s] EXCEPT !.at = "reconcile", !.todo = left, !.path = 0,
                                          !.entry = NoEntry])
  <2>1. PICK to : to = [scan[s] EXCEPT !.at = "reconcile", !.todo = left, !.path = 0,
                                       !.entry = NoEntry]
    OBVIOUS
  <2>2. scan' = [scan EXCEPT ![s] = to]
    BY <1>13, <2>1 DEF Advance
  <2>3. NoEntry \in Entry /\ 0 \in 0..NumFiles
    BY Rows DEF ImportAssumption
  <2>4. /\ to \in Scan /\ to.at = "reconcile" /\ to.todo = left /\ to.path = 0
        /\ to.previous = scan[s].previous /\ to.seen = scan[s].seen
        /\ to.clean = scan[s].clean /\ to.patterns = scan[s].patterns
        /\ to.unread = scan[s].unread /\ to.failed = scan[s].failed
    BY <1>8, <2>1, <2>3, OfOne DEF Scan, Steps
  <2>5. Hands(to)
    BY <1>1, <1>7, <1>13, <2>4, OfOne DEF Hands
  <2>6. CleanWalk(to)'
    BY <2>4 DEF CleanWalk, Walks
  <2>7. CleanSweep(to)'
    <3>1. ASSUME to.clean, NEW q \in Files, WouldImport(q)'
          PROVE  q \in to.seen /\ Holds(latest[q], q)'
      BY <1>10, <2>4, <3>1
    <3>2. ASSUME to.clean, NEW q \in Files, ~WouldImport(q)', q \notin to.todo
          PROVE  ~IsActive(latest'[q]) /\ Swept(to, q)'
      BY <1>1, <1>10, <2>4, <3>2 DEF Swept
    <3>. QED
      BY <2>4, <3>1, <3>2 DEF CleanSweep
  <2>8. \A q \in Files : Names(to.previous[q], q)'
    BY <1>1, <2>4, OfOne DEF Names
  <2>9. to.clean => scan[s].clean /\ to.patterns = scan[s].patterns
    BY <2>4
  <2>. QED
    BY <1>1, <1>4, <1>5, <1>6, <1>9, <2>2, <2>4, <2>5, <2>6, <2>7, <2>8, <2>9, StepOfOne
<1>. QED
  BY <1>2, <1>7, <1>11, <1>12, <1>13 DEF RecordMissing

LEMMA EndScanStep ==
  ASSUME ImportAssumption, IInv, NEW s \in Scanners, StopScan(s) \/ Crash(s) PROVE IInv'
<1>1. /\ Busy(s) /\ UNCHANGED <<disk, patterns, docs, latest>>
  BY DEF StopScan, Crash, Busy
<1>2. PICK to : to = IdleScan
  OBVIOUS
<1>3. scan' = [scan EXCEPT ![s] = to]
  BY <1>2 DEF StopScan, Crash, Advance
<1>4. /\ to \in Scan /\ Hands(to) /\ ~to.clean /\ to.path = 0
      /\ \A q \in Files : Names(to.previous[q], q)'
      /\ CleanWalk(to)' /\ CleanSweep(to)'
  BY <1>2, EndedScan
<1>5. DocsGrow
  BY <1>1, DocsSame DEF IInv
<1>6. events' \in 0..MaxEvents
  BY FaultEvents DEF StopScan, Crash, IInv
<1>7. \A q \in Files : Names(latest[q], q)'
  BY <1>1, OfOne DEF Names
<1>8. UNCHANGED <<disk, patterns>> /\ latest' \in [Files -> Entry]
  BY <1>1, OfOne
<1>. QED
  BY <1>1, <1>3, <1>4, <1>5, <1>6, <1>7, <1>8, StepOfOne

-----------------------------------------------------------------------------
(***************************************************************************)
(* Steps that disturb the scans.                                           *)
(***************************************************************************)

\* No scan is clean after it was disturbed, and it has the same in hand.
LEMMA DisturbedScan ==
  ASSUME ImportAssumption, IInv, NEW s \in Scanners, NEW t, t = Disturbed(scan)[s]
  PROVE  /\ t \in Scan /\ ~t.clean /\ Hands(t)
         /\ \A p \in Files : Names(t.previous[p], p)
         /\ t.path # 0 => Names(t.entry, t.path)
         /\ t.at \notin {"idle", "done"} <=> Busy(s)
<1>1. CASE Busy(s)
  <2>1. t = [scan[s] EXCEPT !.clean = FALSE]
    BY <1>1 DEF Disturbed
  <2>2. /\ t \in Scan /\ t.at = scan[s].at /\ t.previous = scan[s].previous
        /\ t.todo = scan[s].todo /\ t.seen = scan[s].seen /\ t.path = scan[s].path
        /\ t.entry = scan[s].entry /\ ~t.clean
        /\ t.unread = scan[s].unread /\ t.failed = scan[s].failed
    BY <2>1, OfOne DEF Scan
  <2>. QED
    BY <1>1, <2>2, OfOne DEF Hands, Names, Busy
<1>2. CASE ~Busy(s)
  <2>1. t = IdleScan
    BY <1>2 DEF Disturbed
  <2>. QED
    BY <1>2, <2>1, EndedScan DEF IdleScan, Names, NoEntry
<1>. QED
  BY <1>1, <1>2

LEMMA StepOfUser ==
  ASSUME ImportAssumption, IInv, scan' = Disturbed(scan), DocsGrow,
         disk' \in [Files -> FileStates], patterns' \in [Files -> Patterns],
         latest' = latest, events' \in 0..MaxEvents
  PROVE  IInv'
<1>1. ASSUME NEW s \in Scanners
      PROVE  /\ scan'[s] \in Scan /\ ~scan'[s].clean /\ Hands(scan'[s])
             /\ \A p \in Files : Names(scan'[s].previous[p], p)
             /\ scan'[s].path # 0 => Names(scan'[s].entry, scan'[s].path)
  <2>1. PICK t : t = Disturbed(scan)[s]
    OBVIOUS
  <2>. QED
    BY <2>1, DisturbedScan
<1>2. scan' \in [Scanners -> Scan]
  BY <1>1 DEF Disturbed
<1>3. TypeOK'
  BY <1>2 DEF IInv, TypeOK, DocsGrow
<1>4. EntriesNameTheirFiles'
  BY <1>1, OfOne DEF EntriesNameTheirFiles, Names, DocsGrow, IInv
<1>5. HandsFull'
  BY <1>1 DEF HandsFull, Hands
<1>6. CleanScans'
  BY <1>1 DEF CleanScans, Alone, CleanWalk, CleanSweep
<1>. QED
  BY <1>3, <1>4, <1>5, <1>6 DEF IInv

LEMMA UserStep ==
  ASSUME ImportAssumption, IInv, User PROVE IInv'
<1>1. ASSUME NEW what, Edit(what)
      PROVE  scan' = Disturbed(scan) /\ events' \in 0..MaxEvents
  BY <1>1 DEF Edit, IInv, TypeOK, ImportAssumption
<1>2. disk \in [Files -> FileStates] /\ patterns \in [Files -> Patterns]
  BY DEF IInv, TypeOK
<1>3. CASE \E p \in Files : EditFile(p)
  <2>1. disk' \in [Files -> FileStates]
    BY <1>2, <1>3 DEF EditFile
  <2>2. UNCHANGED <<patterns, docs, latest>> /\ Edit("files")
    BY <1>3 DEF EditFile
  <2>. QED
    BY <1>1, <1>2, <2>1, <2>2, StepOfUser, DocsSame DEF IInv
<1>4. CASE \E p \in Files : EditPatterns(p)
  <2>1. patterns' \in [Files -> Patterns]
    BY <1>2, <1>4 DEF EditPatterns
  <2>2. UNCHANGED <<disk, docs, latest>> /\ Edit("patterns")
    BY <1>4 DEF EditPatterns
  <2>. QED
    BY <1>1, <1>2, <2>1, <2>2, StepOfUser, DocsSame DEF IInv
<1>5. CASE \E d \in DOMAIN docs : EditDocument(d)
  <2>1. UNCHANGED <<disk, patterns, latest>> /\ Edit("documents")
    BY <1>5 DEF EditDocument
  <2>2. DocsGrow
    BY <1>5, DocsDeleted DEF EditDocument, IInv
  <2>. QED
    BY <1>1, <1>2, <2>1, <2>2, StepOfUser
<1>. QED
  BY <1>3, <1>4, <1>5 DEF User

LEMMA StartScanStep ==
  ASSUME ImportAssumption, IInv, NEW s \in Scanners, StartScan(s) PROVE IInv'
<1>1. /\ ~Busy(s) /\ UNCHANGED <<disk, patterns, docs, latest, events>>
  BY DEF StartScan
<1>2. PICK clean \in BOOLEAN : clean = (Recoverable /\ \A t \in Scanners : ~Busy(t))
  OBVIOUS
<1>3. PICK to : to = [IdleScan EXCEPT !.at = "list", !.previous = ActiveEntries,
                                      !.patterns = patterns, !.clean = clean]
  OBVIOUS
<1>4. scan' = [Disturbed(scan) EXCEPT ![s] = to]
  BY <1>2, <1>3 DEF StartScan
<1>5. ActiveEntries \in [Files -> Entry] /\ patterns \in [Files -> Patterns]
  BY Rows, OfOne DEF ActiveEntries, IInv, TypeOK
<1>6. /\ to \in Scan /\ to.at = "list" /\ to.previous = ActiveEntries /\ to.patterns = patterns
      /\ to.seen = {} /\ to.unread = {} /\ to.path = 0 /\ to.clean = clean
  <2> HIDE DEF ActiveEntries
  <2>. QED
    BY <1>3, <1>5, Rows DEF IdleScan, Scan, Steps
<1>7. Disturbed(scan) = [t \in Scanners |-> Disturbed(scan)[t]]
  BY DEF Disturbed
<1>8. scan'[s] = to /\ \A t \in Scanners \ {s} : scan'[t] = Disturbed(scan)[t]
  BY <1>4, <1>7
<1>9. ASSUME NEW t \in Scanners \ {s}
      PROVE  /\ scan'[t] \in Scan /\ ~scan'[t].clean /\ Hands(scan'[t])
             /\ \A p \in Files : Names(scan'[t].previous[p], p)
             /\ scan'[t].path # 0 => Names(scan'[t].entry, scan'[t].path)
             /\ scan'[t].at \notin {"idle", "done"} <=> Busy(t)
  <2>1. PICK d : d = Disturbed(scan)[t]
    OBVIOUS
  <2>. QED
    BY <1>8, <2>1, DisturbedScan
<1>10. TypeOK'
  <2>1. scan' \in [Scanners -> Scan]
    BY <1>4, <1>6, <1>7, <1>8, <1>9
  <2>. QED
    BY <1>1, <2>1 DEF IInv, TypeOK
<1>11. \A p \in Files : /\ to.previous[p] = IF IsActive(latest[p]) THEN latest[p] ELSE NoEntry
                        /\ Names(latest[p], p)
                        /\ Names(to.previous[p], p)
  BY <1>6, OfOne DEF ActiveEntries, Names, NoEntry
<1>12. EntriesNameTheirFiles'
  <2>1. \A t \in Scanners :
          /\ \A p \in Files : Names(scan'[t].previous[p], p)
          /\ scan'[t].path # 0 => Names(scan'[t].entry, scan'[t].path)
    BY <1>6, <1>8, <1>9, <1>11
  <2>. QED
    BY <1>1, <1>11, <2>1 DEF EntriesNameTheirFiles, Names
<1>13. HandsFull'
  <2>1. Hands(to)
    BY <1>6, <1>11 DEF Hands
  <2>. QED
    BY <1>8, <1>9, <2>1 DEF HandsFull, Hands
<1>14. CleanScans'
  <2>1. Alone(s)'
    <3>1. clean => \A t \in Scanners \ {s} : scan'[t].at \in {"idle", "done"}
      BY <1>2, <1>9
    <3>. QED
      BY <1>1, <1>6, <1>8, <3>1 DEF Alone, Busy
  <2>2. ASSUME clean, NEW p \in Files PROVE Trusted(to, p)
    <3>1. Recoverable
      BY <1>2, <2>2
    <3>2. CASE IsActive(latest[p])
      BY <1>11, <3>1, <3>2 DEF Trusted, Recoverable
    <3>3. CASE ~IsActive(latest[p])
      BY <1>11, <3>3 DEF Trusted, NoEntry
    <3>. QED
      BY <3>2, <3>3
  <2>3. CleanWalk(to)' /\ CleanSweep(to)'
    BY <1>1, <1>6, <2>2 DEF CleanWalk, CleanSweep, Walks, Trusted
  <2>4. CleanWalk(scan[s])' /\ CleanSweep(scan[s])'
    BY <1>8, <2>3 DEF CleanWalk, CleanSweep, Trusted, Settled, Swept, Holds
  <2>. QED
    BY <1>9, <2>1, <2>4 DEF CleanScans, Alone, CleanWalk, CleanSweep
<1>. QED
  BY <1>10, <1>12, <1>13, <1>14 DEF IInv

-----------------------------------------------------------------------------
(***************************************************************************)
(* The theorems.                                                           *)
(***************************************************************************)

LEMMA IInvInit == ImportAssumption /\ Init => IInv
<1> SUFFICES ASSUME ImportAssumption, Init PROVE IInv
  OBVIOUS
<1>1. \A s \in Scanners : scan[s] = IdleScan
  BY DEF Init
<1>2. \A p \in Files : latest[p] = NoEntry
  BY DEF Init
<1>3. EntriesNameTheirFiles
  BY <1>1, <1>2 DEF EntriesNameTheirFiles, Names, IdleScan, NoEntry
<1>4. HandsFull
  BY <1>1, EndedScan DEF HandsFull
<1>5. CleanScans
  BY <1>1 DEF CleanScans, Alone, CleanWalk, CleanSweep, IdleScan
<1>. QED
  BY <1>3, <1>4, <1>5, TypeInit DEF IInv

LEMMA IInvStep == ImportAssumption /\ IInv /\ [Next]_vars => IInv'
<1> SUFFICES ASSUME ImportAssumption, IInv, [Next]_vars PROVE IInv'
  OBVIOUS
<1>1. ASSUME NEW s \in Scanners, Step(s) PROVE IInv'
  BY <1>1, StartScanStep, ListFilesStep, ExamineStep, UploadStep, OpenFailsStep, ReplaceStep,
     RecordStep, DeleteMissingStep, RecordMissingStep DEF Step
<1>2. CASE User
  BY <1>2, UserStep
<1>3. CASE Environment
  BY <1>3, WalkFailsStep, UploadFailsStep, ReplaceFailsStep, EndScanStep DEF Environment
<1>4. CASE UNCHANGED vars
  <2>1. TypeOK' /\ EntriesNameTheirFiles' /\ HandsFull'
    BY <1>4 DEF IInv, vars, TypeOK, EntriesNameTheirFiles, Names, HandsFull, Hands
  <2>2. ASSUME NEW s \in Scanners PROVE Alone(s)' /\ CleanWalk(scan[s])' /\ CleanSweep(scan[s])'
    <3>1. Alone(s) /\ CleanWalk(scan[s]) /\ CleanSweep(scan[s])
      BY OfOne
    <3>2. Alone(s)'
      BY <1>4, <3>1 DEF vars, Alone, Busy
    <3>3. CleanWalk(scan[s])'
      BY <1>4, <3>1 DEF vars, CleanWalk, Trusted, Settled, Holds, WouldImport
    <3>4. CleanSweep(scan[s])'
      BY <1>4, <3>1 DEF vars, CleanSweep, Swept, Holds, WouldImport
    <3>. QED
      BY <3>2, <3>3, <3>4
  <2>. QED
    BY <2>1, <2>2 DEF IInv, CleanScans
<1>. QED
  BY <1>1, <1>2, <1>3, <1>4 DEF Next

LEMMA IInvInvariance == Spec => []IInv
<1>1. Init => IInv
  BY IInvInit, ImportAssumption
<1>2. IInv /\ [Next]_vars => IInv'
  BY IInvStep, ImportAssumption
<1>. QED
  BY <1>1, <1>2, PTL DEF Spec

\* The variables are of their types.
THEOREM ImportTypes == Spec => []TypeOK
<1>1. IInv => TypeOK
  BY DEF IInv
<1>. QED
  BY <1>1, IInvInvariance, PTL

\* A scan that runs alone from entries that can be trusted and meets no error
\* mirrors the source, however many files there are and whatever scans, edits
\* and faults came before (scanSource of worker/source_scan.go).
THEOREM CleanScansMirror == Spec => []CleanScanMirrors
<1>1. ASSUME IInv PROVE CleanScanMirrors
  <2> SUFFICES ASSUME NEW s \in Scanners, scan[s].at = "done", scan[s].clean, NEW p \in Files
               PROVE  IF WouldImport(p) THEN Current(p)
                      ELSE /\ ~IsActive(latest[p])
                           /\ scan[s].previous[p].doc # 0 /\ p \notin scan[s].seen =>
                                ~docs[scan[s].previous[p].doc].live
    BY DEF CleanScanMirrors
  <2>1. IF WouldImport(p) THEN p \in scan[s].seen /\ Holds(latest[p], p)
        ELSE ~IsActive(latest[p]) /\ Swept(scan[s], p)
    BY <1>1, OfOne DEF CleanSweep
  <2>. QED
    BY <2>1 DEF Swept, Holds, Current
<1>. QED
  BY <1>1, IInvInvariance, PTL

\* Whatever overlaps or fails, a document that a scan deletes was replaced by a
\* newer one of its file, or belongs to a file that the scan did not meet
\* although it read the file's directory (scanSource and
\* reconcileDeletedSourceFiles of worker/source_scan.go).
THEOREM DeletionsHaveReasons == Spec => DeletedForAReason
<1> DEFINE Reason ==
      \A d \in DOMAIN docs : docs[d].live /\ ~docs'[d].live =>
        \/ User
        \/ \E s \in Scanners : LET n == scan[s].entry.doc IN
             /\ scan[s].at = "replace"
             /\ n > d /\ docs[n].path = docs[d].path
        \/ \E s \in Scanners :
             /\ scan[s].at = "reconcile"
             /\ docs[d].path \notin scan[s].seen \cup scan[s].unread
<1>1. ASSUME IInv, [Next]_vars PROVE Reason \/ UNCHANGED vars
  <2>1. CASE User
    BY <2>1
  <2>2. CASE docs' = docs
    BY <2>2
  <2>3. ASSUME NEW s \in Scanners, Upload(s) \/ UploadFails(s) PROVE Reason
    <3>1. \E doc : docs' = docs \/ docs' = Append(docs, doc)
      BY <2>3 DEF Upload, UploadFails
    <3>2. ASSUME NEW doc, docs' = Append(docs, doc), NEW d \in DOMAIN docs PROVE docs'[d] = docs[d]
      BY <1>1, <3>2 DEF IInv, TypeOK
    <3>. QED
      BY <3>1, <3>2
  <2>4. ASSUME NEW s \in Scanners, Replace(s) PROVE Reason
    <3>1. /\ scan[s].at = "replace" /\ scan[s].path \in Files /\ scan[s].path # 0
          /\ scan[s].previous[scan[s].path].doc # 0
          /\ scan[s].entry.doc > scan[s].previous[scan[s].path].doc
      BY <1>1, <2>4, OfOne DEF Replace, Hands, Scan, Files
    <3>2. PICK old : old = scan[s].previous[scan[s].path].doc
      OBVIOUS
    <3>3. /\ old \in DOMAIN docs /\ docs[old].path = scan[s].path
          /\ docs[scan[s].entry.doc].path = scan[s].path
      <4>1. Names(scan[s].previous[scan[s].path], scan[s].path) /\ Names(scan[s].entry, scan[s].path)
        BY <1>1, <3>1, OfOne
      <4>2. old \in 1..Len(docs) /\ Len(docs) \in Nat /\ scan[s].entry.doc > old
        BY <1>1, <3>1, <3>2, <4>1, OfOne DEF Names
      <4>3. scan[s].entry.doc # 0
        BY <4>2
      <4>. QED
        BY <3>1, <3>2, <4>1, <4>3 DEF Names
    <3>4. \A i \in DOMAIN docs : i # old => docs'[i] = docs[i]
      BY <1>1, <2>4, <3>2, <3>3, DocsDeleted DEF Replace, IInv
    <3>. QED
      BY <3>1, <3>2, <3>3, <3>4
  <2>5. ASSUME NEW s \in Scanners, DeleteMissing(s) PROVE Reason
    <3>1. scan[s].at = "reconcile" /\ scan[s].unread = {}
      BY <1>1, <2>5, OfOne DEF DeleteMissing, Hands
    <3>2. CASE docs' = docs
      BY <3>2
    <3>3. CASE docs' # docs
      <4>1. PICK p \in scan[s].todo :
              docs' = [docs EXCEPT ![scan[s].previous[p].doc].live = FALSE]
        BY <2>5, <3>3 DEF DeleteMissing
      <4>2. PICK old : old = scan[s].previous[p].doc
        OBVIOUS
      <4>3. p \in Files /\ p \notin scan[s].seen /\ old \in DOMAIN docs /\ docs[old].path = p
        BY <1>1, <3>1, <4>2, OfOne DEF Hands, Scan, Names, IsActive
      <4>4. \A i \in DOMAIN docs : i # old => docs'[i] = docs[i]
        BY <1>1, <4>1, <4>2, <4>3, DocsDeleted DEF IInv
      <4>. QED
        BY <3>1, <4>3, <4>4
    <3>. QED
      BY <3>2, <3>3
  <2>6. ASSUME NEW s \in Scanners, Step(s) PROVE Reason
    BY <2>2, <2>3, <2>4, <2>5, <2>6 DEF Step, StartScan, ListFiles, Examine, OpenFails, Record,
                                        RecordMissing
  <2>7. CASE Environment
    BY <2>2, <2>3, <2>7 DEF Environment, WalkFails, ReplaceFails, StopScan, Crash
  <2>. QED
    BY <1>1, <2>1, <2>6, <2>7 DEF Next
<1>. QED
  BY <1>1, IInvInvariance, PTL DEF Spec, DeletedForAReason
=============================================================================
