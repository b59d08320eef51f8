---------------------------- MODULE SourceImport ----------------------------
(***************************************************************************)
(* What the scans of one source do to its documents: each walk compares    *)
(* the files with the entries earlier scans recorded, uploads new and      *)
(* changed files, deletes the documents they replace and, if nothing       *)
(* failed, those of files that are gone (worker/source_scan.go).           *)
(*                                                                         *)
(* Two scans of a source overlap when a canceled one has not noticed yet,  *)
(* or when a request and the scheduler queue one each; users edit files    *)
(* and patterns and delete documents all the while.  One action per call   *)
(* on the repository or the document service and per look at the disk.     *)
(***************************************************************************)
EXTENDS Integers, Sequences, FiniteSets

CONSTANTS
  NumFiles,      \* the files below the root are 1..NumFiles, in walk order
  Contents,      \* contents of files, told apart by their hash
  OtherKinds,    \* what a path may be when it is not an importable file
  Scanners,      \* the scan workers
  Edits,         \* what users do: "files", "patterns", "documents"
  Faults,        \* what may go wrong, see the actions that use them
  MaxEvents,     \* bound on edits and faults
  MaxDocuments   \* bound on the documents that are uploaded

Files == 1..NumFiles
None == "none"

\* A path is absent, a file of some content, or of another kind:
\*   unreadable   its information or its content cannot be read
\*   hidden       a symbolic link or a hidden name
\*   unsupported  too large, or not of a supported type
FileStates ==
  [kind : {"file"}, content : Contents] \cup [kind : OtherKinds, content : {None}]

\* What the patterns of the source say of a path: exclude it (or do not
\* include it), or exclude a directory above it.
Patterns == {"included", "excluded", "excludedDirectory"}

ASSUME ImportAssumption ==
  /\ NumFiles \in Nat \ {0}
  /\ None \notin Contents
  /\ OtherKinds \subseteq {"absent", "unreadable", "hidden", "unsupported"}
  /\ {MaxEvents, MaxDocuments} \subseteq Nat

VARIABLES
  disk,      \* path -> what is there
  patterns,  \* path -> what the source row's patterns say
  docs,      \* the documents uploaded for the source, in order
  latest,    \* path -> its newest scan entry
  scan,      \* scanner -> its next step and what it knows
  events     \* the edits and faults so far

vars == <<disk, patterns, docs, latest, scan, events>>

----------------------------------------------------------------------------
(* Rows.  Document 0 is the empty identifier. *)

Document == [path : Files, content : Contents, live : BOOLEAN]
Entry ==
  [outcome : {"imported", "unchanged", "skipped", "failed", "deleted"},
   doc : 0..MaxDocuments, hash : Contents \cup {None}]
NoEntry == [outcome |-> "skipped", doc |-> 0, hash |-> None]

\* An entry that says which document holds the file.
IsActive(e) ==
  e.doc # 0 /\ e.hash # None /\ e.outcome \in {"imported", "unchanged"}

\* What a scan remembers of the entries: the newest of each path, if active.
ActiveEntries == [p \in Files |-> IF IsActive(latest[p]) THEN latest[p] ELSE NoEntry]

Steps == {"idle", "list", "examine", "upload", "replace", "record",
          "reconcile", "recordMissing", "done"}

Scan ==
  [at : Steps, previous : [Files -> Entry], patterns : [Files -> Patterns],
   todo : SUBSET Files, seen : SUBSET Files, unread : SUBSET Files,
   failed : BOOLEAN, path : 0..NumFiles, entry : Entry, clean : BOOLEAN]

IdleScan ==
  [at |-> "idle", previous |-> [p \in Files |-> NoEntry],
   patterns |-> [p \in Files |-> "included"],
   todo |-> {}, seen |-> {}, unread |-> {},
   failed |-> FALSE, path |-> 0, entry |-> NoEntry, clean |-> FALSE]

Busy(s) == scan[s].at \notin {"idle", "done"}

\* Bound: there are documents left for so many scans of all files.  A scan that
\* has begun need not look: HasRoom is its part of the same bound.
Room(n) == Len(docs) + NumFiles * n <= MaxDocuments
HasRoom == Len(docs) < MaxDocuments

\* Every active entry names a live document that holds what was hashed: then
\* a scan can tell from the entries what has to be done.
Recoverable ==
  \A p \in Files : IsActive(latest[p]) =>
    docs[latest[p].doc].live /\ docs[latest[p].doc].content = latest[p].hash

\* `clean` remembers that nothing but this scan happened since it began; of a
\* scan that has ended, nothing is kept longer than that.
Disturbed(t) ==
  [s \in Scanners |-> IF Busy(s) THEN [t[s] EXCEPT !.clean = FALSE] ELSE IdleScan]
Advance(s, to) == scan' = [scan EXCEPT ![s] = to]

Init ==
  /\ disk \in [Files -> FileStates]
  /\ patterns = [p \in Files |-> "included"]
  /\ docs = <<>>
  /\ latest = [p \in Files |-> NoEntry]
  /\ scan = [s \in Scanners |-> IdleScan]
  /\ events = 0

----------------------------------------------------------------------------
(* Users. *)

Edit(what) ==
  /\ what \in Edits
  /\ events < MaxEvents
  /\ events' = events + 1
  /\ scan' = Disturbed(scan)

\* Somebody changes, adds or removes a file.  A path that a walk has still
\* before it does not become a link, or cease to be one.
EditFile(p) ==
  /\ Edit("files")
  /\ \E f \in FileStates \ {disk[p]} :
       /\ "hidden" \in {f.kind, disk[p].kind} => \A s \in Scanners : p \notin scan[s].todo
       /\ disk' = [disk EXCEPT ![p] = f]
  /\ UNCHANGED <<patterns, docs, latest>>

\* The source is updated with other patterns.
EditPatterns(p) ==
  /\ Edit("patterns")
  /\ \E x \in Patterns \ {patterns[p]} : patterns' = [patterns EXCEPT ![p] = x]
  /\ UNCHANGED <<disk, docs, latest>>

\* A user deletes a document that a scan imported.
EditDocument(d) ==
  /\ Edit("documents")
  /\ docs[d].live
  /\ docs' = [docs EXCEPT ![d].live = FALSE]
  /\ UNCHANGED <<disk, patterns, latest>>

----------------------------------------------------------------------------
(* The scan. *)

Fault(f) == f \in Faults /\ events < MaxEvents /\ events' = events + 1

\* A scan loads the source and lists its entries.
StartScan(s) ==
  /\ ~Busy(s)
  /\ Room(1 + Cardinality({t \in Scanners : Busy(t)}))
  /\ scan' = [Disturbed(scan) EXCEPT ![s] =
       [IdleScan EXCEPT !.at = "list", !.previous = ActiveEntries, !.patterns = patterns,
                        !.clean = Recoverable /\ \A t \in Scanners : ~Busy(t)]]
  /\ UNCHANGED <<disk, patterns, docs, latest, events>>

\* The files that earlier scans imported and this one did not meet.
Missing(t) == {p \in Files \ t.seen : IsActive(t.previous[p])}

\* A scan that reports success; `clean` tells what its entries were based on.
Finished(t) == IF t.clean THEN [t EXCEPT !.at = "done"] ELSE [IdleScan EXCEPT !.at = "done"]

\* Mutant: the missing files are looked at although something failed.
WalkingOn(t) ==
  CASE t.todo # {} -> [t EXCEPT !.at = "examine"]
    [] t.todo = {} /\ Missing(t) = {} -> Finished(t)
    [] OTHER -> [t EXCEPT !.at = "reconcile", !.todo = Missing(t)]

\* Where a scan with the files t.todo before it goes on: with the next file;
\* after the last, with the missing files, unless a file failed.
Walking(t) ==
  CASE t.todo # {} -> [t EXCEPT !.at = "examine"]
    [] t.todo = {} /\ t.failed -> IdleScan
    [] t.todo = {} /\ ~t.failed /\ Missing(t) = {} -> Finished(t)
    [] OTHER -> [t EXCEPT !.at = "reconcile", !.todo = Missing(t)]

\* What the walk meets.  Paths below an excluded directory are not visited.
Listed(s) ==
  {p \in Files : disk[p].kind # "absent" /\ scan[s].patterns[p] # "excludedDirectory"}

\* It reads the directories.
ListFiles(s) ==
  /\ scan[s].at = "list"
  /\ Advance(s, Walking([scan[s] EXCEPT !.todo = Listed(s)]))
  /\ UNCHANGED <<disk, patterns, docs, latest, events>>

\* A directory cannot be read, or not to its end: it counts as a failure, and
\* the walk goes on without the files that it did not meet.
WalkFails(s) ==
  /\ scan[s].at = "list"
  /\ Fault("walk")
  /\ \E unread \in SUBSET Listed(s) :
       Advance(s, Walking([scan[s] EXCEPT !.todo = Listed(s) \ unread, !.unread = unread,
                                          !.failed = TRUE, !.clean = FALSE]))
  /\ UNCHANGED <<disk, patterns, docs, latest>>

NextFile(s, p) == p \in scan[s].todo /\ \A q \in scan[s].todo : p <= q

\* Mutant: an outcome that entries do not have.
SkippedExcluded == [outcome |-> "excluded", doc |-> 0, hash |-> None]

Skipped == [outcome |-> "skipped", doc |-> 0, hash |-> None]
Failed(doc, hash) == [outcome |-> "failed", doc |-> doc, hash |-> hash]
Imported(doc, hash) == [outcome |-> "imported", doc |-> doc, hash |-> hash]
Unchanged(e) == [outcome |-> "unchanged", doc |-> e.doc, hash |-> e.hash]

\* Mutant: every file of the listing counts as seen.
SeesAll(s, p) == TRUE

\* Whether the walk counts the path as seen: not if the patterns exclude it,
\* which is looked at after links and hidden names.
Sees(s, p) == disk[p].kind = "hidden" \/ scan[s].patterns[p] = "included"

\* The entry a file gets without an upload, decided by name, patterns, size,
\* type and hash in this order; NoUpload is FALSE for new or changed content.
Verdict(s, p) ==
  CASE ~Sees(s, p) -> Skipped
    [] Sees(s, p) /\ disk[p].kind \in {"hidden", "unsupported"} -> Skipped
    [] Sees(s, p) /\ disk[p].kind \in {"absent", "unreadable"} -> Failed(0, None)
    [] OTHER -> Unchanged(scan[s].previous[p])

\* Mutant: a file with an active entry counts as unchanged.
NoUploadAgain(s, p) ==
  ~Sees(s, p) \/ disk[p].kind # "file" \/ IsActive(scan[s].previous[p])

NoUpload(s, p) ==
  \/ ~Sees(s, p)
  \/ disk[p].kind # "file"
  \/ IsActive(scan[s].previous[p]) /\ scan[s].previous[p].hash = disk[p].content

Examine(s) ==
  /\ scan[s].at = "examine"
  /\ \E p \in Files :
       /\ NextFile(s, p)
       /\ LET t == [scan[s] EXCEPT !.path = p,
                                   !.seen = IF Sees(s, p) THEN @ \cup {p} ELSE @]
          IN  IF NoUpload(s, p)
              THEN Advance(s, [t EXCEPT !.at = "record", !.entry = Verdict(s, p)])
              ELSE Advance(s, [t EXCEPT !.at = "upload",
                                        !.entry = Imported(0, disk[p].content)])
  /\ UNCHANGED <<disk, patterns, docs, latest, events>>

\* The file is opened and read once more, now for the upload; the document
\* holds what is there by now.
Upload(s) ==
  /\ scan[s].at = "upload"
  /\ HasRoom
  /\ disk[scan[s].path].kind \in {"file", "hidden", "unsupported"}
  /\ LET t == scan[s] IN
       \E content \in Contents :
         /\ disk[t.path].kind = "file" => content = disk[t.path].content
         /\ docs' = Append(docs, [path |-> t.path, content |-> content, live |-> TRUE])
         /\ Advance(s, [t EXCEPT !.entry.doc = Len(docs) + 1,
              !.at = IF t.previous[t.path].doc # 0 THEN "replace" ELSE "record"])
  /\ UNCHANGED <<disk, patterns, latest, events>>

\* The file cannot be opened any more.
OpenFails(s) ==
  /\ scan[s].at = "upload"
  /\ disk[scan[s].path].kind \in {"absent", "unreadable"}
  /\ Advance(s, [scan[s] EXCEPT !.at = "record", !.entry = Failed(0, @.hash)])
  /\ UNCHANGED <<disk, patterns, docs, latest, events>>

\* The upload fails, at worst after it stored the document; or closing the
\* file fails after a successful upload.
UploadFails(s) ==
  /\ scan[s].at = "upload"
  /\ HasRoom
  /\ LET t == scan[s]
         new == [path |-> t.path, content |-> t.entry.hash, live |-> TRUE]
         FailsWith(doc) == Advance(s, [t EXCEPT !.at = "record", !.clean = FALSE,
                                                !.entry = Failed(doc, @.hash)])
     IN  \/ Fault("upload") /\ FailsWith(0) /\ UNCHANGED docs
         \/ Fault("leftover") /\ FailsWith(0) /\ docs' = Append(docs, new)
         \/ Fault("close") /\ FailsWith(Len(docs) + 1) /\ docs' = Append(docs, new)
  /\ UNCHANGED <<disk, patterns, latest>>

\* The document that the upload replaces is deleted.
Replace(s) ==
  /\ scan[s].at = "replace"
  /\ docs' = [docs EXCEPT ![scan[s].previous[scan[s].path].doc].live = FALSE]
  /\ Advance(s, [scan[s] EXCEPT !.at = "record"])
  /\ UNCHANGED <<disk, patterns, latest, events>>

ReplaceFails(s) ==
  /\ scan[s].at = "replace"
  /\ Fault("delete")
  /\ Advance(s, [scan[s] EXCEPT !.at = "record", !.clean = FALSE,
                                !.entry = Failed(@.doc, @.hash)])
  /\ UNCHANGED <<disk, patterns, docs, latest>>

Record(s) ==
  /\ scan[s].at = "record"
  /\ LET t == scan[s] IN
       /\ latest' = [latest EXCEPT ![t.path] = t.entry]
       /\ Advance(s, Walking([t EXCEPT !.todo = @ \ {t.path}, !.path = 0, !.entry = NoEntry,
                                       !.failed = @ \/ t.entry.outcome = "failed"]))
  /\ UNCHANGED <<disk, patterns, docs, events>>

----------------------------------------------------------------------------
(* After the walk: the missing files, in any order. *)

DeleteMissing(s) ==
  /\ scan[s].at = "reconcile"
  /\ \E p \in scan[s].todo :
       LET e == scan[s].previous[p] IN
         \/ /\ docs' = [docs EXCEPT ![e.doc].live = FALSE]
            /\ Advance(s, [scan[s] EXCEPT !.at = "recordMissing", !.path = p,
                 !.entry = [outcome |-> "deleted", doc |-> e.doc, hash |-> e.hash]])
            /\ UNCHANGED events
         \/ /\ Fault("delete")
            /\ Advance(s, [scan[s] EXCEPT !.at = "recordMissing", !.path = p,
                 !.entry = Failed(e.doc, e.hash), !.failed = TRUE, !.clean = FALSE])
            /\ UNCHANGED docs
  /\ UNCHANGED <<disk, patterns, latest>>

RecordMissing(s) ==
  /\ scan[s].at = "recordMissing"
  /\ LET t == scan[s]
         left == t.todo \ {t.path}
     IN  /\ latest' = [latest EXCEPT ![t.path] = t.entry]
         /\ \/ t.failed /\ Advance(s, IdleScan)
            \/ ~t.failed /\ left = {} /\ Advance(s, Finished([t EXCEPT !.todo = left]))
            \/ /\ ~t.failed /\ left # {}
               /\ Advance(s, [t EXCEPT !.at = "reconcile", !.todo = left, !.path = 0,
                                       !.entry = NoEntry])
  /\ UNCHANGED <<disk, patterns, docs, events>>

\* The root cannot be looked up, or the scan was canceled and notices it before a
\* file or after the walk.
StopScan(s) ==
  /\ scan[s].at \in {"list", "examine", "reconcile"}
  /\ Fault("cancel")
  /\ Advance(s, IdleScan)
  /\ UNCHANGED <<disk, patterns, docs, latest>>

\* The worker dies, or the entry cannot be saved, which ends the scan.
Crash(s) ==
  /\ Busy(s)
  /\ Fault("crash")
  /\ Advance(s, IdleScan)
  /\ UNCHANGED <<disk, patterns, docs, latest>>

Step(s) ==
  \/ StartScan(s) \/ ListFiles(s) \/ Examine(s) \/ Upload(s) \/ OpenFails(s)
  \/ Replace(s) \/ Record(s) \/ DeleteMissing(s)
  \/ RecordMissing(s)

User ==
  \/ \E p \in Files : EditFile(p) \/ EditPatterns(p)
  \/ \E d \in DOMAIN docs : EditDocument(d)

Environment ==
  \E s \in Scanners :
    WalkFails(s) \/ UploadFails(s) \/ ReplaceFails(s) \/ StopScan(s) \/ Crash(s)

Next == (\E s \in Scanners : Step(s)) \/ User \/ Environment

Spec == Init /\ [][Next]_vars
FairSpec == Spec /\ \A s \in Scanners : WF_vars(Step(s))

----------------------------------------------------------------------------
(* Properties. *)

\* What an import plan (worker/source_plan.go) counts as a file that a scan
\* would import: it walks the same way but neither hashes nor opens files.
WouldImport(p) == patterns[p] = "included" /\ disk[p].kind = "file"

\* The variables are of their types.
TypeOK ==
  /\ disk \in [Files -> FileStates]
  /\ patterns \in [Files -> Patterns]
  /\ docs \in Seq(Document) /\ Len(docs) <= MaxDocuments
  /\ latest \in [Files -> Entry]
  /\ scan \in [Scanners -> Scan]
  /\ events \in 0..MaxEvents

\* Entry p names a live document of the file's present content.
Current(p) ==
  /\ IsActive(latest[p])
  /\ docs[latest[p].doc].path = p
  /\ docs[latest[p].doc].live
  /\ docs[latest[p].doc].content = disk[p].content

\* A scan that starts from entries that can be trusted, runs alone and meets
\* no error leaves the source mirrored: the files an import plan names are
\* exactly those with an active entry, each entry names a live document with
\* the file's content, and the documents of files that were gone or filtered
\* out are deleted (scanSource, docs/workers.md:31-38).
CleanScanMirrors ==
  \A s \in Scanners : scan[s].at = "done" /\ scan[s].clean =>
    \A p \in Files :
      IF WouldImport(p) THEN Current(p)
      ELSE /\ ~IsActive(latest[p])
           /\ scan[s].previous[p].doc # 0 /\ p \notin scan[s].seen =>
                ~docs[scan[s].previous[p].doc].live

\* Whatever overlaps or fails, a scan deletes a document only once it has
\* uploaded a newer one of the same file (docs/workers.md:36 "after the
\* replacement upload succeeds"), or if it did not see the file and its walk
\* read the directory of the file: the files below a directory that cannot be
\* read are not taken for missing (FailedCount of scanSource).
DeletedForAReason ==
  [][\A d \in DOMAIN docs : docs[d].live /\ ~docs'[d].live =>
       \/ User
       \/ \E s \in Scanners : LET n == scan[s].entry.doc IN
            /\ scan[s].at = "replace"
            /\ n > d /\ docs[n].path = docs[d].path
       \/ \E s \in Scanners :
            /\ scan[s].at = "reconcile"
            /\ docs[d].path \notin scan[s].seen \cup scan[s].unread]_vars

\* A source whose entries can be trusted from some time on and that goes on
\* being scanned ends up with a current document for every file its scans
\* import, whatever failed, changed or overlapped before.
EventuallyCurrent ==
  <>[](Recoverable /\ Room(1)) =>
    <>[](\A p \in Files : WouldImport(p) => Current(p))
=============================================================================
