# A TLA+ model of nexus-local

nexus-local is a local-first document assistant: an API service stores
workspaces, documents, sources (watched folders) and conversations; a worker
process claims queued jobs and ingests documents into a vector index.  This
directory holds a model of its core logic, the TLC runs that check it, and
proofs of the properties that matter most for every size of the system.

Paths below are relative to `src/services/api/internal/` unless they start with
`src/`.

- [1 The system](#1-the-system)
- [2 What is modelled, and how it corresponds to the code](#2-what-is-modelled-and-how-it-corresponds-to-the-code)
- [3 The runs](#3-the-runs)
- [4 The proofs](#4-the-proofs)
- [5 Where the code and its documents disagree](#5-where-the-code-and-its-documents-disagree)
- [6 What is not modelled](#6-what-is-not-modelled)
- [7 Plan](#7-plan)

## 1 The system

### Components

| component | state | operations | correct when |
|---|---|---|---|
| domain (`domain/*.go`) | status fields of jobs, documents, sources | transition tables, constructors | every row moves along its table only; terminal states are final |
| document requests (`app/documents.go`) | document rows, object store, vector index | upload, register, retry, delete, list, detail, download | a document that is accepted is ingested; a deleted one is gone everywhere |
| source requests (`app/data_sources.go`) | source rows, jobs | create, update, archive, scan, cancel, preflight, plan, reindex, retry failed | one active scan per source; an archived source is left alone |
| job queue (`store/contracts.go`, both stores) | job rows | save, claim next, list | each job is handed out once, oldest first |
| ingestion worker (`worker/ingestion*.go`) | claimed job, copies of rows | claim, load, extract, chunk, embed, index, settle | document and job end in matching states; ready means searchable |
| chunker (`ingest/chunker.go`) | a text | Chunk | all of the text is in the chunks, identifiers differ, it returns |
| source workers (`worker/source_*.go`) | source row, scan entries, documents | due-scan scheduler, preflight, plan, scan | every file of a source has one current document |
| worker process (`src/services/api/cmd/worker/main.go`) | polling loop | schedule, preflight, plan, scan, ingestion batch | no kind of work starves another |
| path checks and import plans (`worker/source_preflight.go`, `worker/source_plan.go`) | their jobs | check a root, count what a scan would import | what refuses a scan is about the root the source has now |
| workspaces (`app/tenants.go`, `domain/membership.go`) | tenants, users, memberships | create, delete, add and remove members | a workspace keeps an owner; only empty ones are deleted |
| conversations (`app/conversations.go`) | conversations and messages | ask, stream, delete | an answer is stored with its question; a deleted conversation stays deleted |
| views and policy profiles (`app/source_views.go`, `app/source_policy_profiles.go`) | at most 50 rows each per workspace | create, update, delete | the limit holds |
| audit (`app/audit.go`) | events | record, list | a failing audit fails nothing else |
| HTTP, auth (`httpapi/router.go`, `auth/auth.go`) | none | one handler per service call | roles are enforced |
| runtime shutdown (`httpapi/runtime_shutdown.go`) | running flag, services | stop | services stop once, in order |
| providers (`providers/*`) | external | object store, vector index, models | - |

### Interaction

Requests and workers share nothing but the repository (Postgres, or a mutex
around maps), the object store and the vector index.  **No transaction spans two
calls**: every service reads rows, decides, and saves whole rows back.  The one
exception is `ClaimNextQueuedJob`, which selects and marks a job in one
transaction with `FOR UPDATE SKIP LOCKED`.  Requests run in parallel with one
another, with the goroutines of an ingestion batch
(`worker/ingestion_batch.go`), and with any number of worker processes.

### What is hard here

- *Stale copies.*  `SaveDocument`, `SaveDataSource` and `SaveJob` are upserts of
  the whole row.  A worker or request that read the row before somebody else
  changed it undoes the change.
- *Check, then act.*  "Is there an active job?", "is there another owner?", "is
  the workspace empty?" are answered by one call and acted on by another.
- *Partial failure.*  An upload writes a file, a document and a job; a deletion
  writes the index, the object store and the row; any prefix may be all that
  happens.
- *Crashes.*  A claimed job is `running` until its worker saves it; nothing
  re-queues it.  A SIGTERM cancels the context that the remaining saves use, so
  an orderly stop looks like a crash.
- *Numeric edges.*  Overlap against chunk size, boundary against overlap,
  identifiers of four digits.
- *Two reads of one file.*  A scan hashes a file in one read and uploads it from
  another; in between, the file, the patterns, the entries of another scan and
  the documents themselves may change.
- *Scheduling.*  The worker's loop starts over after each source job, and an
  ingestion batch waits for its slowest goroutine.

`PROJECT.json` lists each of these hazards at its line.

## 2 What is modelled, and how it corresponds to the code

| module | models |
|---|---|
| `Domain` | the state machines of jobs, documents and sources that all others use |
| `JobQueue` | *abstract*: what the job queue promises |
| `DocumentLife` | *abstract*: what ingestion promises of a document that nobody deletes |
| `DocumentIngestion` | document and source requests that create or delete documents and jobs, and the ingestion workers; implements `JobQueue` and `DocumentLife` |
| `MCDocumentIngestion` | symmetry sets of its instances |
| `DocumentIngestionProofs`, `DocumentIngestionTurnsProofs` | theorems about it: under any interleaving, and while requests take turns |
| `Chunker`, `MCChunker`, `ChunkerProofs` | the chunking loop, its instances, its theorems |
| `SourceScan`, `MCSourceScan`, `SourceScanProofs`, `SourceScanTurnsProofs` | one source, its requests, the scheduler and the scans: the rows of the source and of its jobs; its instances, its theorems |
| `SourceImport`, `MCSourceImport`, `SourceImportProofs` | what the scans of one source do to its entries and documents while its files and patterns change; its theorems |
| `WorkerLoop`, `MCWorkerLoop`, `WorkerLoopProofs` | the loop of the worker processes over all kinds of jobs, path checks and import plans, and the requests these refuse; its theorems |
| `Workspace`, `MCWorkspace`, `WorkspaceProofs` | workspaces, members, what they contain, saved views and policy profiles, conversations, audit, authorization; its theorems |

### DocumentIngestion

Granularity: **one action per call** on the repository, the object store or the
vector index.  What a request or goroutine does between two calls touches only
its own variables, so it belongs to the action of the call before or after it.
All actions of all clients and workers interleave.

| variable | code |
|---|---|
| `docs` | `documents.status`, `"absent"` before the first save |
| `objects` | documents whose file is in the object store |
| `vectors` | documents with chunks in the vector index |
| `jobs` | the `document_ingestion` rows: state, resource, attempts; the number of a job is its `created_at`, which claims are ordered by |
| `nextJob` | the clock behind `created_at` |
| `worker[w]` | the program counter of one goroutine that runs `ProcessNext`, and its job |
| `client[c]` | the program counter of one request (or of a source scan that uploads), its document and the job it has built |

The *copy* of a row that a request or worker carries is not stored: the model
saves what the copy's status must be at that line (`SaveReady` writes `"ready"`
whatever the row says by then).  This is how a whole-row save of a stale copy
behaves, and where the lost updates of section 5 come from.

| action | code |
|---|---|
| `PutObject`, `SaveNewDocument`, `SaveJob` | `UploadDocument`, `registerDocument` |
| `RegisterDocument` | `RegisterDocument`: names an object key that may or may not exist |
| `RetryDocument`, `RetryListJobs` | `RetryDocumentIngestion`: document read, then jobs read |
| `SourceListJobs`, `SourceGetDocument` | `RequestReindex`, `RequestRetryFailedDocuments`: jobs read once, then each document |
| `DeleteDocument`, `DropVectors`, `DropObject`, `MarkDeleted` | `DeleteDocument` |
| `Abort` | any call of a request fails, or its HTTP client goes away |
| `PickJob`, `Claim` | `ClaimNextQueuedJob`: the `SELECT ... FOR UPDATE SKIP LOCKED` and the commit of the marked row |
| `LoadDocument`, `SaveProcessing` | `processClaimedJob` up to the first save |
| `ReadDocument` | the reading half of `ingestDocument`: get, extract, chunk, embed |
| `ClearVectors`, `UpsertVectors` | its writing half |
| `SaveReady`, `SaveFailed` | the last document save |
| `SettleJob` | `ProcessNext` after `processClaimedJob` |
| `ProviderError`, `StoreError`, `Crash` | an error of the index (its effect may have happened), of the repository; the end of the process |

A source re-index visits many documents; the model follows the visit to one,
with its job list read at any earlier time, which is what the visit sees.
`ListJobs` reads at most 100 jobs; the model's list is complete (section 6).

### JobQueue, the abstract specification

Jobs are submitted once; a worker *picks* the oldest queued job that nobody else
is claiming, *claims* it or *releases* it, and *finishes* it in a terminal state
or *drops* it.  `DocumentIngestion` implements it under the mapping `Queue`
(`state` and `claims` are fields of the rows; `picked` and `holds` split the
workers by whether their claim is committed).  The specification knows nothing
of documents or stale copies, so that `ImplementsQueue` is the statement that
none of the whole-row job saves in the code ever disturbs the queue.

### DocumentLife, the other one

A document is uploaded, attempted, published or given up; its chunks change only
while an attempt is on, it is published only with its chunks in the index, and
then nothing about it changes.  `DocumentIngestion` implements it under the
mapping `Life`, rows to `status` and the index to `searchable`, if nobody deletes,
requests about a document take turns and no extractor passes a bare `io.EOF` on.
Copies, jobs and workers are not in it: `ImplementsLife` says that no save of a
copy that was checked against `DocumentStatus.CanTransition` some calls ago ever
takes the row off that table, which the stores do not check.

### Chunker

`Chunk` is a loop; `CutChunk` is one pass and `ChunkWhole` the early return.
Runes are positions; a text is its size and the set of its blanks.
`BoundaryBefore` is the backward search for a blank, `First`/`Last` the trimming,
`ChunkID` the four decimal digits that `chunkID` writes (`IDSpace`, 10000 in the
code, smaller in the runs so that it wraps).  `overlap` is the overlap that
`NewChunker` makes of one of the arguments `OverlapRunesArgs`: one that is as
long as a chunk or longer is cut to a fifth of a chunk.

### SourceScan

One source and its `source_scan` jobs, again with one action per repository
call.  Sources share nothing but the order in which their jobs are claimed.

| variable | code |
|---|---|
| `source` | the `data_sources` row: `status`, whether `scan_interval_minutes > 0`, and whether `next_scan_at` is null, in the future or reached |
| `jobs` | `source_scan` job -> its state; the number is its `created_at` |
| `nextJob` | the clock behind `created_at` |
| `worker[w]` | one worker process: its next call, its job, and the *copy* of the source that the next save writes |
| `client[c]` | one request: its next call, job and copy of the source |

Here the copy is stored, for `SaveDataSource` writes a copy whose status and
schedule depend on when it was read; who saves last wins.  A copy that nobody
will save is dropped (`NoSource`).

| action | code |
|---|---|
| `CreateSource` | `Create` |
| `UpdateSource`, `SaveSource` | `Update`; `UpdateRows` are the schedules it may compute |
| `ArchiveSource`, `ArchiveListJobs`, `SaveSource` | `Archive`, with and without its documents; only the former lists the jobs |
| `RequestScan`, `ScanListJobs`, `SaveScanJob` | `RequestScan`; whether a path check or an import plan refuses it is a choice here and decided in `WorkerLoop` |
| `CancelScan`, `CancelListJobs`, `SaveCancel`, `SaveSource` | `CancelScan` |
| `ScheduleScan`, `ScheduleListJobs`, `QueueScan`, `SaveSchedule` | `QueueDueScans` for this source |
| `ClaimScan` | `ClaimNextQueuedJob` in one step (its locks are in `DocumentIngestion`) |
| `LoadSource`, `MarkScanning` | `processClaimedJob` up to its first save |
| `Walk` | `scanSource`: the checks of `ensureSourceScanNotCanceled` and the three ways a walk ends |
| `ReadComplete`, `SaveComplete` | the rest of `processClaimedJob` |
| `ReadFailed`, `SaveFailed`, `ReadCanceled`, `SaveCanceled` | `markSourceFailed`, `markSourceCanceled` |
| `SettleScan` | `ProcessNext` after `processClaimedJob` |
| `StoreError`, `Crash`, `Abort` | a repository call fails; the worker process ends; a request ends early |
| `TimePasses` | `next_scan_at` is reached |

A job list is every set of the jobs if `FullLists`, because `ListJobs` returns
the 100 jobs of the workspace that changed last and a scan queues a job per file
it imports; otherwise it is complete.

### SourceImport

The documents of one source.  `SourceScan` says when a scan runs and what
becomes of its job and row; `SourceImport` says what one run does to the
documents, again with one action per call, and per look at the disk.

| variable | code |
|---|---|
| `disk` | what each path below the root is: a file of some content, absent, unreadable, a link or hidden name, too large or of another type |
| `patterns` | what the include and exclude patterns of the row say of each path |
| `docs` | the documents uploaded for the source, in order, with the path they came from |
| `latest` | the newest `source_scan_entries` row of each path |
| `scan[s]` | one run of `scanSource`: its next step, the active entries it listed at its start, the files before it, seen and `unread`, the file and entry in hand |
| `events` | edits and faults so far (a bound) |

| action | code |
|---|---|
| `StartScan`, `ListFiles` | `scanSource` up to the walk and its reading of the directories, `activeSourceFileEntries`; the patterns are those of the row it loaded |
| `WalkFails` | the `walkErr` branch: a directory cannot be read, or not to its end, which counts as a failure; the files below it are `unread` |
| `Examine` | the callback of `WalkDir` in `scanSource` up to the upload: patterns, links, size, type, hash against the entry (`Sees`, `NoUpload`, `Verdict`) |
| `Upload`, `OpenFails`, `UploadFails` | the second open of the file, `UploadDocument`, and its error path |
| `Replace`, `ReplaceFails` | the deletion of the document that the new one replaces |
| `Record` | `recordScanEntry` and the step to the next file |
| `DeleteMissing`, `RecordMissing` | `reconcileDeletedSourceFiles`, after a walk without failures only (`FailedCount`); in any order, for it ranges over a map |
| `StopScan`, `Crash` | a cancel noticed between files, a root that cannot be looked up; the end of the process or a failing save of an entry |
| `EditFile`, `EditPatterns`, `EditDocument` | users |

`clean` and `Recoverable` are history: a scan is clean if nothing but it happened
since it began and the entries it began with named live documents of the content
they hashed.  `WouldImport` is the count of `worker/source_plan.go`, which walks
as the scan does without reading files.

### WorkerLoop

The order of work, and what the results of path checks and plans forbid.  A
request and the scheduler take one step per call, for what a check decides
depends on what is saved between their calls; the scan of a file tree and an
ingestion are claimed and run to their end in few steps, as their details are in
the modules above.

Whether a check of a source counts is decided by `latestRelevantDataSourceJob`,
which compares `updated_at` of the job with that of the source row.  Both are
readings of the clock *before* the save that stores them, and the row is saved
whole, from a copy that was read earlier.  So the model has a clock, the time
that each row carries, and the copy and first reading of whoever is about to
save; a save stores any reading since the caller's last call.

| variable | code |
|---|---|
| `setup` | the jobs that are requested, what changes or fails, the first root path and those that cannot be read, the scan interval, a job that is queued at the start (bounds and inputs) |
| `clock` | the time, one for all processes |
| `jobs` | the job rows of all four types with their state and `updated_at` |
| `source` | root path, status and `updated_at` of the row |
| `worker[w]` | the place in the `for` loop of `main.go` and in `ProcessNext`, and the job |
| `routine[g]` | the goroutines of `ProcessDocumentIngestionBatch` |
| `client[c]` | the next call of a request and the type of the job it may save |
| `held[a]` | the copy of the source row that a worker or request has read, when it read the clock or the row first, and which checks had ended then (the last is history) |
| `seen[j]` | the root path that a check has loaded, and whether a save of the row overlapped it (history) |
| `changes` | how often something has changed or failed (a bound) |

| action | code |
|---|---|
| `RequestJob`, `ListJobs`, `SaveRequest`, `EndRequest` | `RequestPreflight`, `RequestPlan`, `RequestScan`: the source is loaded, the jobs are listed, the job is saved, or the request is refused (`MayQueue`, `Relevant`, `Latest`) |
| `RequestIngestion` | a retry, re-index or upload, which does not look at the source's checks |
| `LoadEdit`, `SaveEdit` | `Update`, `Archive`, `CancelScan`: the row is loaded, and saved with its new time; the job that a cancel saves is in `SourceScan` |
| `Schedule`, `GetDue`, `CheckScans`, `QueueDue`, `AdvanceSchedule` | `QueueDueScans` call by call: the clock is read once, before the first, and `ScheduleNextScan` stores that reading |
| `Claim`, `CallFails` | `ProcessNext` of each source worker; `continue` on an error, the end of a job whose source cannot be loaded or saved |
| `LoadSource`, `Check`, `Cancel`, `Fail` | `processClaimedJob` of the three source workers and the save of the job |
| `MarkScanning`, `ImportFile`, `EndWalk`, `SaveEnd`, `Settle` | the saves of the row and of jobs that a scan makes |
| `StartBatch`, `ClaimIngestion`, `Ingest`, `EndBatch`, `WakeUp` | `ProcessDocumentIngestionBatch`, its wait for all goroutines, and the sleep of an iteration that processed nothing |
| `Tick` | time passes |

Ingestions that are canceled with their document count as succeeded, and the
order of claims is that in which jobs were saved: nothing that is checked here
depends on either.  The time that a claim stores is any earlier one, of which the
code's is one.

### Workspace

One workspace, from its creation to its deletion, with one action per call.  A
request is a record: its route, the user until the authorization, what it is
`on` (a user, an item, a row, a conversation), its next call (`at`).

| variable | code |
|---|---|
| `setup` | the routes an instance uses, the repository (Postgres rejects a message without its conversation and a view without its tenant; the memory store does not), views or profiles |
| `tenant`, `members` | the tenant row; the role of each user |
| `items` | whether it has a document or source, which is all that its deletion asks |
| `saved` | the rows of saved views, or of policy profiles (the code of both is the same) |
| `chats`, `messages` | conversation and message rows |
| `audit` | the routes that have left an event |
| `history` | whether an owner was lost by one of the named ways, whether a deletion of the workspace overlapped with a request, which conversations were deleted and which under a running ask |

| action | code |
|---|---|
| `HandleCreateTenant` ... `HandleDeleteConversation` | a request reaches its handler in `httpapi/router.go` |
| `Authorize` | `requireTenantPermission`, `Authorizer.Require` and `Role.Allows`; an ask needs two permissions and reads the memberships twice |
| `SaveTenant`, `SaveOwner` | `CreateTenant` |
| `GetTenant`, `SaveMember` | `AddTenantMember` |
| `GetTenant`, `ListMembers`, `RemoveMember` | `DeleteTenantMember` with its count of the owners |
| `GetTenant`, `CheckEmpty`, `DeleteTenant` | `DeleteTenant`; all rows go in one step, by foreign keys or under the mutex |
| `AddItem`, `DropItem` | an upload or a new source, a deletion or archive: only what the emptiness check sees |
| `CountSaved`, `GetSaved`, `SaveRow`, `DeleteRow` | create, update, delete in `source_views.go` and `source_policy_profiles.go` |
| `OpenConversation`, `GetConversation`, `SaveQuestion`, `SaveAnswer`, `SaveConversation` | `Ask` and `AskStream` in `conversations.go` |
| `FindConversation`, `DeleteConversation` | `DeleteConversation` |
| `Record` | `recordAudit` after the service call |
| `Fail` | any call fails or the request's context ends |

## 3 The runs

All runs start from the empty system (`Workspace` also from one whose members
are there already).  `Documents`, `Workers`, `Clients`, `Users` and the like are
model values; symmetry is used where a run checks safety only.

| run | instance | shows |
|---|---|---|
| `ingestion_faulty` | 1 document, 3 jobs, 2 workers, 2 clients, all operations, all outcomes, all faults | `TypeOK`, `HandedOutOnce`, `ImplementsQueue`, `JobsFollowTheirMachine`, `QuietDeletionIsFinal` |
| `ingestion_turns` | 2 documents, 4 jobs, 2 workers, 2 clients that take turns after their job check, no deletion, no bare `io.EOF`, all faults | `OneActiveJobPerDocument`, `SucceededJobsPublished`, `ImplementsLife` |
| `ingestion_live` | 1 document, 2 jobs, 2 workers, 2 clients, all operations, index errors, fairness | `UnsettledDocumentsAreCarried`: nobody drops a document that is not settled; `EveryUploadSettles`, `EveryQueuedJobFinishes` |
| `chunker_any_text` | every text up to 13 runes, chunks of 5, overlaps 2, 3 and 5 (clamped to 1), 3 identifiers | `TypeOK`, `NoTextLost`, `WordsEndWhole`, `DistinctChunks`, `ShortWordsProgress` |
| `scan_faulty` | 2 workers, 1 client, 2 jobs, all operations, schedules and faults, incomplete lists | `TypeOK`, `ScannedOnce`, `NeverRequeued`, `OnlyCancelsLeaveTheMachine`, `ScheduleMatchesSource`, `QuietArchiveIsFinal` |
| `scan_live` | 2 workers, 1 client, 2 jobs, with and without a schedule, no update, no fault, complete lists, fairness | `ScanningIsScanned`, `OneActiveManualScan`, `EveryScanEnds`, `ScanningEnds`, `DueScansHappen` |
| `import_faulty` | 2 files in one scan at a time, or 1 file in 2 overlapping scans; 2 contents; edits of files, patterns and documents; all faults, directories that cannot be read among them; at most 2 edits and faults, 5 documents | `TypeOK`, `CleanScanMirrors`, `DeletedForAReason`, `EventuallyCurrent` |
| `worker_loop` | 2 workers with 1 ingestion each, 1 request at a time, 2 roots, 2 jobs, 1 change or error, fairness; all types of jobs while no time passes, or path checks and scans of a scheduled source under a clock of two readings | `TypeOK`, `ChecksAreOfTheRow`, `EveryJobEnds` |
| `workspace` | 2 users, 2 requests, 3 saved rows of at most 1, 2 conversations and asks, both repositories, every failing call; members, contents, saved rows or conversations | `TypeOK`, `OwnersProtected`, `QuietDeletionLeavesNothing`, `SavedWithinLimit`, `QuietClearIsFinal`, `TranscriptsAreWhole` |
| `deleted_searchable`, `reindex_ready`, `chunker_long_word` | the smallest instance that shows it | violations, section 5 |

**Why the bounds are enough.**  Every race of this code is between two actors
(two requests, two workers, a request and a worker) about one document and at
most two of its jobs; a third job lets one more retry follow.  Two documents are
there so that the oldest job is not always that of the only document.  A text of
13 runes needs several chunks of 5 under each overlap, so that every position of
a boundary relative to window and overlap occurs and identifiers run out.  In
`SourceScan`, two workers and a request can hold three copies of the row and two
of a job at once; a copy saved by a fourth actor would overwrite it no
differently.  `MaxJobs` is one more than may be active, so that a later scan
meets the end of an earlier one.
In `SourceImport`, one file with two scans shows every conflict about a path, as
scans share nothing but the rows of a path; two files show how the failure of
one affects the deletions of the other.  Two edits or faults are one before and
one after what they disturb, and five documents give each scan of two files a
second and third upload.  The state constraint of `MCSourceImport` is this
either-or.  In `WorkerLoop`, two jobs are one that holds a worker and one that
waits for it, of any two types.  Two readings of the clock tell before from
after, which is all that is compared; a check that ends at the second is newer
than a row of the first, and a save by the other worker or the request may carry
either; the theorem has any clock.  In `Workspace` the routes are split into
groups that touch the same rows; every race in them is between two requests,
and the third saved row is the one that two requests under a limit of one may
add besides the row that is there.

**Conditions.**  `OneActiveJobPerDocument` holds while requests about a document
take turns: two concurrent retries both pass the job check (section 5).  Turns
are `RequestsTakeTurns`, that no two requests about one document are past their
check at once, which says nothing of workers, faults or requests about other
documents.  It is the state constraint of `ingestion_turns` and the temporal
hypothesis of the theorems.  `OneActiveManualScan` needs scan requests that take
turns (`scan_live` has one client), a source without a schedule that nobody gives
one later (the scheduler's check may overlap with a request's), and complete job
lists (section 5).  `OnlyCancelsLeaveTheMachine`
has its exception because a canceled scan goes on until it looks, and is then
saved over its cancel if it is past its last look.  `ScanningIsScanned` and
`ScanningEnds` need that nobody updates the source (section 5) and that no
save of a scan's end fails.  `ImplementsLife` is checked without the
outcome `"eof"` and without deletions: with a bare `io.EOF` from an extractor the
code saves a document as ready without any chunk (`worker/ingestion.go:152`), and
a deletion clears the index before the row.  `ShortWordsProgress` is about texts
whose words are shorter than a chunk less its overlap; `chunker_long_word` shows
why.  `DistinctChunks` is about texts of at most `IDSpace` chunks, 10000 in the
code.  `OwnersProtected` names the three ways in which the code loses the last owner,
and shows that there is no fourth.  `QuietDeletionLeavesNothing`,
`QuietClearIsFinal` and `TranscriptsAreWhole` exclude the requests that were past
their authorization, or the asks that had opened the conversation, when the
deletion took place: those save their rows whatever has gone.  `CleanScanMirrors`
is about a clean scan (section 2).  `ChecksAreOfTheRow` excepts the checks that
a save of the row overlapped, from the first call of the update, cancel, archive,
scheduler or scan that saves to the save itself: for those the code does not
keep what it intends (section 5).  Of a check whose time equals the row's it says
nothing, although the code counts it as newer.  `EventuallyCurrent` needs that the entries
can be trusted from some time on: a file changed between hash and upload leaves
an entry with a hash that its document does not have, and counts as unchanged
when it changes back; a document that a user deleted is not uploaded again while
its file stays the same.

**Fairness.**  Weak fairness for each request that has started and for each
worker, and no fairness on faults or on new requests.  A request is a goroutine
that runs to its end; a worker's loop polls for ever.  That every kind of work is
reached in it is what `worker_loop` checks: `EveryJobEnds` assumes fairness of
each worker process, its loop and goroutines together, only.  Its jobs and errors are
bounded, and it has to be so: the loop starts over after each preflight, plan or
scan job and after each failed claim, so an endless supply of those starves
ingestion, which nothing in the code prevents.  With that proviso the fairness of
the workers in `DocumentIngestion` and `SourceScan` is what the loop gives them.
The goroutines of one batch wait for each other before the next batch; that
delays a claim and, as each `ProcessNext` ends, never prevents one.  It does end
only if chunking does: see `chunker_long_word`.  In `SourceScan` time also passes
(a scan that is to be due some day becomes due) and a walk ends, as file systems
are finite; `DueScansHappen` gives up at the bound of jobs.  In `SourceImport`
each scanner goes on: the source is scheduled, and a new scan follows the last
while there is room for its documents.

## 4 The proofs

TLAPS checks all of these for any number of documents, jobs, workers, clients,
any operations, outcomes and faults (`ConstantsAssumption`, `ScanAssumption`),
for any text and arguments (`ChunkerAssumption`), for any files, contents and
scanners (`ImportAssumption`), for any workers, goroutines, requests and root
paths (`LoopAssumption`), or for any users, rows, routes and limits
(`WorkspaceAssumption`).  What a theorem needs beyond these is in its statement:
a set of operations, outcomes or faults, or, as a temporal hypothesis about the
whole behaviour, that requests take turns.

| theorem | statement |
|---|---|
| `TypeCorrect` | `Spec => []TypeOK` |
| `ExclusiveClaims` | `Spec => []HandedOutOnce` |
| `MachineFollowed` | `Spec => JobsFollowTheirMachine` |
| `DeletionFinal` | `Spec => QuietDeletionIsFinal` |
| `QueueImplemented` | `Spec => ImplementsQueue`, the refinement |
| `TurnsKeepOneJob` | `Spec /\ []RequestsTakeTurns => []OneActiveJobPerDocument` |
| `SuccessPublishes` | `Spec /\ []RequestsTakeTurns => []SucceededJobsPublished`, without deletions |
| `ReadySearchable` | `Spec /\ []RequestsTakeTurns => []ReadyDocumentsAreSearchable`, without deletions and bare `io.EOF` |
| `LifeImplemented` | `Spec /\ []RequestsTakeTurns => ImplementsLife`, the other refinement, under the same conditions |
| `UnsettledCarried` | `Spec => []UnsettledDocumentsAreCarried`, if only the index may fail |
| `ChunkerTypes` | `Spec => []TypeOK` |
| `TextKept` | `Spec => []NoTextLost` |
| `WordsKeptWhole` | `Spec => []WordsEndWhole` |
| `ChunksKeptApart` | `Spec => []DistinctChunks` |
| `ShortWordsAdvance` | `Spec => ShortWordsProgress` |
| `SourceScanProofs!TypeCorrect` | `Spec => []TypeOK` |
| `EveryScanIsRunOnce` | `Spec => []ScannedOnce` |
| `SchedulesMatch` | `Spec => []ScheduleMatchesSource` |
| `ScansAreNeverRequeued` | `Spec => NeverRequeued` |
| `QuietArchivesAreFinal` | `Spec => QuietArchiveIsFinal` |
| `MachineExceptCancels` | `Spec => OnlyCancelsLeaveTheMachine` |
| `TurnsKeepOneScan` | `Spec /\ []ScanStartsTakeTurns => []OneActiveScan`, with complete job lists |
| `TurnsKeepOneManualScan` | `Spec /\ []ScanRequestsTakeTurns => []OneActiveManualScan`, with complete job lists and without updates |
| `ScanningBelongsToAScan` | `Spec => []ScanningIsScanned`, without updates, failing calls of the repository and crashes |
| `WorkspaceTypes` | `Spec => []TypeOK` |
| `OwnersAreProtected` | `Spec => []OwnersProtected` |
| `QuietDeletionsLeaveNothing` | `Spec => []QuietDeletionLeavesNothing` |
| `SavedStayWithinLimit` | `Spec => []SavedWithinLimit` |
| `QuietClearsAreFinal` | `Spec => []QuietClearIsFinal` |
| `TranscriptsStayWhole` | `Spec => []TranscriptsAreWhole` |
| `ImportTypes` | `Spec => []TypeOK` |
| `CleanScansMirror` | `Spec => []CleanScanMirrors` |
| `DeletionsHaveReasons` | `Spec => DeletedForAReason` |
| `LoopTypes` | `Spec => []TypeOK` |
| `ChecksStayOfTheRow` | `Spec => []ChecksAreOfTheRow` |
| `JobsHaveOneRunner` | no job is run by two workers or goroutines of any kind |

**The invariant of DocumentIngestion**, `IInv`, and why it has its parts:

- `HeldJobs`: a busy worker has a job to itself, queued while it claims it and
  running afterwards.  This is what makes the later save of a *copy* of the job
  harmless, and needs
- `NewJobsAreOwn`: the job a request is about to save belongs to it alone and is
  not saved yet; without it, a second save could put a running job back into the
  queue.
- `JobRows`: attempts tell the state; a saved job has a document and an old
  number, so that a new one is really new.
- `JobsHaveRows`, `RequestsHaveDocuments`, `NewDocumentsAreOwn`: jobs and
  requests refer to saved documents, and only the request that registers a
  document may find it absent.  `QuietDeletionIsFinal` needs them: a request that
  would save a deleted document as `"uploaded"` does not exist.

Each conjunct is preserved per actor (`Request...` and `Worker...` lemmas),
because what a request and a worker may touch differ.  `QueueStep` maps each
action to one of `JobQueue` or to a stutter.

**While requests take turns** (`DocumentIngestionTurnsProofs`), the invariants
below hold on top of `IInv`:

- `SingleJobs` is `OneActiveJobPerDocument` with `NoJobAhead`: a request that is
  past its job check and will queue a job is not preceded by an active one.  Only
  another request could put one ahead of it, and turns exclude that; a worker's
  saves of a copied job never make an ended job active, by `HeldJobs`.
- `RowsFollowAttempts`: at each step of an ingestion the row of the document says
  what the worker last saved.  It needs one active job per document (or another
  worker might write the row) and `NobodyDeletes`.  With it, a success finds its
  document ready, and since a ready document has no transition to processing,
  none of its later jobs takes that back: `SucceededJobsPublished`.
- `IndexedAttempts`: the chunks are in the index when the row is about to say so.
  The index is cleared only while the row says processing, so never under a
  ready document.

`RequestLives` and `WorkerLives` map each action to one of `DocumentLife` or to a
stutter; `RowsFollowAttempts` gives the guard of every abstract action and
`IndexedAttempts` that of `Publish`.  `ReadySearchable` states its main
consequence by itself.

`UnsettledCarried` needs no turns: a document that is uploaded has an active job
or the request that registers it, and one that is processing a worker before its
last document save, with `LoadedDocuments` (past the first save, no worker's
document is uploaded) as the one strengthening.  A request that is cut off, a
failing save or a crash does leave a document behind (section 5), which is why the
theorem's faults are those of the index.

**The invariant of Chunker** adds to the type that everything before the current
start is covered and that a finished run has covered everything; `CutBounds`
gives the bounds of one pass, `EmitCovers` what a trimmed chunk still covers and
`EmittedWord` where it may end.  For `DistinctChunks` it is `NumberedChunks`: until
the identifiers are used up, the next one is the number of the chunks, and all
earlier ones are smaller.

**The invariant of SourceScan** (`ScanAssumption` is all that is assumed of the
constants):

- `CopiesMatch`: what holds of the row after any save must hold of every copy
  somebody may save, so the match of schedule and status is stated of all copies.
- `ScannedJobs`: the job of a scanning worker was claimed and is no other
  worker's.  A cancel may overwrite the claim, but never with `queued`, and a
  claim takes queued jobs only.
- `ClientJobs`, `SchedulerJobs`: a job about to be saved as queued, by a request
  or by a scheduler, is new and nobody else's; otherwise that save could put a
  claimed job back into the queue.
- `ArchiveCopies`: an archive that still looks at the jobs holds an archived copy.

`RequestStep` and `WorkerStep` first reduce the actions to nine effects (keep,
allot, save, queue, claim, settle, ...); `RequestInvariant` and
`WorkerInvariant` then argue about effects only.

**When scans take turns** (`SourceScanTurnsProofs`):

- `SingleScan`: there is at most one active scan, and none while a request or a
  scheduler is about to queue one.  Under `ScanStartsTakeTurns` it is inductive for
  every source; the scheduler queues what it found due a call ago, so its turns
  matter as much as a request's.
- `ScheduleInv`: a source without a schedule gets none from any copy
  (`CopiesOfSource`), the scheduler leaves it alone (`SchedulerRests`), and nothing is
  under way before it exists (`NothingBeforeSource`).  With it the turns of the
  requests are enough: `ManualScans`.
- `NoScanningCopies`: no copy that a request, a scheduler or an ending scan may
  save says scanning.  An update's copy may (section 5), hence no updates; no
  turns and no complete lists are needed.

**The invariant of Workspace** (`WorkspaceAssumption` is all that is assumed of
the constants):

- `TypeInv`: besides its type, a request is at a call of its route and about what
  the route is about (`Proper`).
- `Creation`: there is at most one request that creates the workspace, and until
  it has saved the first member nobody is a member or past authorization; so the
  `saveOwner` of `OwnersProtected` cannot disturb anybody.
- `Removals`: a removal that is not stale leaves another owner behind.  It is
  what the count of `DeleteTenantMember` buys as long as no membership changes.
- `StartedAreNew`, `NobodyInCleared`, `AskersFindTheirs`: a conversation about to
  be started is nowhere yet, nobody is about to write to one that was cleared in
  quiet, and an ask finds the conversation and the question it has saved.
- `PendingWithinLimit`: the limit bounds the saved rows *together with those that
  requests are about to save*.  `SavedWithinLimit` alone is not inductive: each of
  two late saves would look like the only one.

The routes are first reduced to effects on the requests (`Enters`, `Proceeds`,
`ArrivesAt`) and to the few steps that write each table (`Writers`,
`ConversationWriters`, `ClearsOnly`); the invariants are argued about those.

**The invariant of SourceImport** (`ImportAssumption` is all that is assumed of
the constants):

- `EntriesNameTheirFiles`: the document that an entry names, in the table, in a
  scan's list or in its hand, was uploaded from the path of the entry.
  `DeletedForAReason` rests on it: what is deleted by number is of the right file.
- `Hands`: what a scan has in hand at each step; before a replacement, a document
  younger than the one it replaces; if there are files it could not look for, it
  has failed, and a scan that looks at missing files has not.
- `Alone`: a clean scan runs alone and with the patterns of the row.
- `CleanWalk`: the files before it are as its entries say, those behind it are
  mirrored, the one in hand is in between; this is `CleanScanMirrors` for the part
  of the walk that is done.
- `CleanSweep`: afterwards, what is left to do are documents of files that the
  walk did not see.

A step of one scan leaves the others' parts alone (`StepOfOne`); `HandledStep`
and `WalkOn` are the two ways in which a scan gets to its next file; a user or
another scan can only end cleanness (`DisturbedScan`).

**The invariant of WorkerLoop** (`LoopAssumption` is all that is assumed of the
constants):

- `Runners`: what a worker or a goroutine runs is a running job of its kind, and
  no other's.  The end of a check is saved by the worker that ran it, so nobody
  makes an ended check active, or newer, again.
- `TimesPassed`: no time is in the future, and whoever holds a copy of the row
  began after the ends of the checks that `held` knows as ended.  A save stores a
  reading from its beginning on, or, the scheduler's, from the beginning itself,
  so these checks do not become newer than the row, although the row's time may
  go back.
- `OthersAreOutdated`: a check that has read another root path than the row has
  now is overlapped by a save, or it has ended and is not newer than the row.
  `ChecksAreOfTheRow` follows; it speaks of ended checks only, and this also of
  those in progress.

`OutdatedKept` and `SourceSaved` argue about a save of the row, `TimesKept`,
`JobSaved` and `JobAdded` about times and jobs; `WorkerActs`, `RoutineActs` and
`NobodyActs` say what each way of moving a worker or a goroutine preserves.

**Only model-checked**: liveness (`EveryUploadSettles`, `EveryQueuedJobFinishes`,
`EveryScanEnds`, `ScanningEnds`, `DueScansHappen`, `EveryJobEnds`,
`EventuallyCurrent`), which is out of the prover's reach.  Every invariant and
every action property that a passing run checks is a theorem.

## 5 Where the code and its documents disagree

Each of these has a run that ends in TLC's counterexample.

1. `deleted_searchable`: a worker upserts chunks after the deletion cleared the
   index; the deleted document stays in it.
2. `reindex_ready`: a ready document cannot become processing, so re-indexing
   queues a job that fails, and the document stays ready without re-indexing.
3. `chunker_long_word`: if a boundary is no further from the start than the
   overlap, the next chunk starts where this one did and `Chunk` does not return.

The same patterns (a whole-row save of a stale copy, a check that is acted on in
a later call, a crash between two calls) have further consequences.  The models
contain them, they are the reason for the conditions of section 3, and they have
no run of their own:

- a worker that stops leaves its job running for ever, for only queued jobs are
  claimed (`src/docs/workers.md:3` "Workers claim durable jobs"); its source stays
  scanning;
- an update saves `scanning` after the scan has ended (`app/data_sources.go:240`);
  the scheduler skips the source from then on and a cancel finds no scan;
- an active scan that is not among the last 100 jobs of the workspace does not
  refuse another one (`src/docs/backend-contracts.md:82`);
- a worker saves the row it read before a deletion, and the document is
  processing, ready or failed again (hence `QuietDeletionIsFinal`);
- a worker saves the row it read before an archive, and the source is scanning
  and then active again (hence `QuietArchiveIsFinal`);
- a scan past its last check saves its job as succeeded or failed over a cancel
  (hence the exception of `OnlyCancelsLeaveTheMachine`; against
  `src/docs/backend-contracts.md:137` "Terminal states should stay terminal");
- two retries of a document, or a scan request and the scheduler, pass the job
  check together, and two jobs run;
- a file becomes too large or of another type, its entry is then `skipped`, and
  once it is a file again a scan uploads a second document and never deletes the
  first (`worker/source_scan.go:463`);
- two owners remove each other, or one is given another role after a removal has
  counted it (`app/tenants.go:250`; `src/docs/backend-contracts.md:43` speaks of
  "protecting the last owner");
- an addition of a member that has found the workspace saves a membership after
  its deletion (`app/tenants.go:316`);
- an answer is saved into a conversation deleted meanwhile, which then is there
  again without its question (`app/conversations.go:304`);
- two scans of a source overlap, one deletes a document and the other, which
  listed the entries before, records it as unchanged: the file has no document
  until it changes (`worker/source_scan.go:362`);
- a check of the old root path that ends while an update is between its reading of
  the clock and its save counts as one of the new root (`app/data_sources.go:237`,
  `:240`, `:887`), hence the exception of `ChecksAreOfTheRow`;
- the scheduler reads the clock once and saves that reading, in a copy of the row,
  several calls later (`worker/source_scheduler.go:31`, `:67`, `:68`): an update
  in between is undone, root path and all, and checks that it made outdated count
  again.

## 6 What is not modelled

- *Times and names.*  A job's number is its creation time; two jobs created in
  the same instant would be ordered by the store's second key.
- *`ListJobs` limits.*  The retry and re-index checks see the newest 100 jobs of
  a workspace; `DocumentIngestion` and `WorkerLoop` see all (`SourceScan` models
  the limit).
- *The memory store's* claims are one step under a mutex; `PickJob` followed by
  `Claim` without anything between covers it.
- *Duplicate effects of one call*: the index and object store are sets, and
  repeating an upsert or removal has no further effect there.
- *Directories the walk skips by name* (version control, dependencies, build
  output): the list is fixed in the code, so paths below them are never part of
  `Files`.
- *Directories and files of one name*: a path is one or the other for good, and
  the walk reads all directories at once, before its first file; what changes
  between two of them is an edit before or after.
- *Clocks that differ*: all processes of `WorkerLoop` read one clock.  With
  clocks that run apart, comparing the times of two rows means little.
- *Saves of jobs that fail, and workers that stop, in `WorkerLoop`*: what they
  leave behind is in `SourceScan` and `DocumentIngestion`; there as here nobody
  takes up a running job.
- *How a pattern matches a path*: `SourceImport` takes what the patterns say of
  a path as given, and changes it as an update may.
- *Archiving a source with its documents* in `SourceImport`: it deletes them one
  by one like the users' deletions that are there.
- *The users table* (a row is saved before each membership and none is ever
  deleted), and the *dev mode* of authentication, which allows everything.
- *An audit event of an ask whose client has gone*: its context is canceled, so
  it is not written; the model lets it be written or not.
- *Ingestions and scans that go on after their workspace was deleted*: they save
  rows like those of `AddItem`, without a request.
- *`runtime shutdown`*: Docker calls in a fixed order, without state in this code
  or a second actor.
- *Read-only routes* (lists, details, job requests, capabilities), *search*:
  nothing changes.
- *File formats, embeddings, ranking, prompts, encodings, configuration,
  evaluation, web application, scripts*: translation or numeric code without
  shared state.

## 7 Plan

Done, in this order: `Domain`, `JobQueue`, `DocumentIngestion`, `Chunker` and
`SourceScan`, `SourceImport`, `WorkerLoop` and `Workspace`, each with its proofs.

Left:

1. The patterns of a source as operators against a reference definition.
2. A composition of `SourceScan` and `SourceImport` for archiving with deletion
   of the documents.
3. The queue of `SourceScan` and `WorkerLoop` as implementations of `JobQueue`, one
   per type of job.
