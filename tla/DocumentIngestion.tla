------------------------- MODULE DocumentIngestion -------------------------
(***************************************************************************)
(* The life of a document, from its upload to its deletion: the requests   *)
(* of app/documents.go and app/data_sources.go, the job queue they fill,   *)
(* and the ingestion workers of worker/ingestion.go that drain it.         *)
(*                                                                         *)
(* Nothing in the code spans two store calls with a transaction, so every  *)
(* call on the repository, the object store or the vector index is a step  *)
(* of its own and all requests and workers interleave between them.        *)
(* SaveDocument and SaveJob write the caller's whole copy of the row, read *)
(* any number of steps earlier; the copy's status is implied by "pc".      *)
(* The tenant, names, texts and times are abstracted; a job is named by    *)
(* its creation time, which is what claims are ordered by.                 *)
(***************************************************************************)
EXTENDS Naturals, FiniteSets, Domain

CONSTANTS
    Documents,   \* document identifiers
    NoDocument,  \* the document of no one
    MaxJobs,     \* bound: how many jobs a behaviour may create
    Workers,     \* goroutines (of any number of processes) that claim jobs
    Clients,     \* requests, and source scans, that run at the same time
    Operations,  \* what clients may ask for, a subset of AllOperations
    Outcomes,    \* how extraction, chunking and embedding may end
    Faults       \* what may go wrong, a subset of AllFaults

AllOperations ==
    {"upload", "register", "retry", "retryFailed", "reindex", "delete"}

AllFaults == {"abort", "provider", "store", "crash"}

ASSUME ConstantsAssumption ==
    /\ NoDocument \notin Documents
    /\ MaxJobs \in Nat
    /\ Operations \subseteq AllOperations
    /\ Outcomes \subseteq {"text", "eof", "error"}
    /\ Faults \subseteq AllFaults

VARIABLES
    docs,     \* document row -> status, "absent" before it is saved
    objects,  \* documents whose file is in the object store
    vectors,  \* documents whose chunks are in the vector index
    jobs,     \* document_ingestion job row -> state, document, attempts
    nextJob,  \* the creation time of the next job
    worker,   \* worker -> the call it makes next and its claimed job
    client    \* request -> the call it makes next, its document and new job

stores == <<docs, objects, vectors>>
vars == <<docs, objects, vectors, jobs, nextJob, worker, client>>

Jobs == 1 .. MaxJobs
NoJob == 0

WorkerPCs == {"idle", "claim", "load", "begin", "read", "clear", "index", "ready",
              "failed", "succeed", "fail", "cancel"}
ClientPCs == {"idle", "register", "enqueue", "retry", "retryFailed",
              "reindex", "dropVectors", "dropObject", "markDeleted"}

IdleWorker == [pc |-> "idle", job |-> NoJob]
IdleClient == [pc |-> "idle", doc |-> NoDocument, job |-> NoJob]
AbsentJob  == [state |-> "absent", doc |-> NoDocument, attempts |-> 0]

TypeOK ==
    /\ docs \in [Documents -> DocumentStatuses \cup {"absent"}]
    /\ objects \subseteq Documents
    /\ vectors \subseteq Documents
    /\ jobs \in [Jobs -> [state : JobStates \cup {"absent"},
                          doc : Documents \cup {NoDocument},
                          attempts : Nat]]
    /\ nextJob \in 1 .. MaxJobs + 1
    /\ worker \in [Workers -> [pc : WorkerPCs, job : Jobs \cup {NoJob}]]
    /\ client \in [Clients -> [pc : ClientPCs,
                               doc : Documents \cup {NoDocument},
                               job : Jobs \cup {NoJob}]]

Init ==
    /\ docs = [d \in Documents |-> "absent"]
    /\ objects = {}
    /\ vectors = {}
    /\ jobs = [j \in Jobs |-> AbsentJob]
    /\ nextJob = 1
    /\ worker = [w \in Workers |-> IdleWorker]
    /\ client = [c \in Clients |-> IdleClient]

-----------------------------------------------------------------------------
(***************************************************************************)
(* Requests                                                                *)
(***************************************************************************)

\* Mutant of HasActiveJob: a job counts as active only until it is claimed.
HasActiveJobQueuedOnly(d) ==
    \E j \in Jobs : jobs[j].doc = d /\ jobs[j].state = "queued"

\* The job check of every retry and reindex, over one ListJobs call.
HasActiveJob(d) ==
    \E j \in Jobs : jobs[j].doc = d /\ jobs[j].state \in ActiveJobStates

\* An identifier NewDocumentID may return: random, hence never seen before.
Fresh(d) ==
    /\ docs[d] = "absent"
    /\ d \notin objects
    /\ \A c \in Clients : client[c].doc # d

Starts(c, op) == op \in Operations /\ client[c].pc = "idle"

\* The request has read what it needs about document d; its next call is pc.
Open(c, pc, d) ==
    client' = [client EXCEPT ![c] = [pc |-> pc, doc |-> d, job |-> NoJob]]

Goto(c, pc) == client' = [client EXCEPT ![c].pc = pc]

\* The request returns, with a result or an error.
Return(c) == client' = [client EXCEPT ![c] = IdleClient]

\* domain.NewJob: the request now holds a job row it has not saved.
NewJob(c, d) ==
    /\ nextJob <= MaxJobs
    /\ nextJob' = nextJob + 1
    /\ client' = [client EXCEPT ![c] =
                    [pc |-> "enqueue", doc |-> d, job |-> nextJob]]

\* UploadDocument: the file goes to the object store before any row exists.
PutObject(c, d) ==
    /\ Starts(c, "upload")
    /\ Fresh(d)
    /\ objects' = objects \cup {d}
    /\ Open(c, "register", d)
    /\ UNCHANGED <<docs, vectors, jobs, nextJob, worker>>

\* registerDocument, its first write: the document row.
SaveNewDocument(c) ==
    /\ client[c].pc = "register"
    /\ docs' = [docs EXCEPT ![client[c].doc] = "uploaded"]
    /\ NewJob(c, client[c].doc)
    /\ UNCHANGED <<objects, vectors, jobs, worker>>

\* RegisterDocument: the same for a key the caller names, of a file that is in
\* the object store or not.
RegisterDocument(c, d) ==
    /\ Starts(c, "register")
    /\ Fresh(d)
    /\ docs' = [docs EXCEPT ![d] = "uploaded"]
    /\ objects' \in {objects, objects \cup {d}}
    /\ NewJob(c, d)
    /\ UNCHANGED <<vectors, jobs, worker>>

\* SaveJob of the new job: the last write of an upload, a retry or a reindex.
SaveJob(c) ==
    /\ client[c].pc = "enqueue"
    /\ jobs' = [jobs EXCEPT ![client[c].job] =
                  [state |-> "queued", doc |-> client[c].doc, attempts |-> 0]]
    /\ Return(c)
    /\ UNCHANGED <<stores, nextJob, worker>>

\* RetryDocumentIngestion reads the document first ...
RetryDocument(c, d) ==
    /\ Starts(c, "retry")
    /\ docs[d] = "failed"
    /\ Open(c, "retry", d)
    /\ UNCHANGED <<stores, jobs, nextJob, worker>>

\* ... and the jobs in a second call.
RetryListJobs(c) ==
    /\ client[c].pc = "retry"
    /\ \/ HasActiveJob(client[c].doc) /\ Return(c) /\ UNCHANGED nextJob
       \/ ~HasActiveJob(client[c].doc) /\ NewJob(c, client[c].doc)
    /\ UNCHANGED <<stores, jobs, worker>>

\* RequestReindex and RequestRetryFailedDocuments list the jobs once, before
\* they visit the documents of the source; this is the visit to one of them.
SourceListJobs(c, d, op) ==
    /\ Starts(c, op)
    /\ docs[d] # "absent"
    /\ ~HasActiveJob(d)
    /\ Open(c, op, d)
    /\ UNCHANGED <<stores, jobs, nextJob, worker>>

WantsSourceJob(op, status) ==
    \/ op = "reindex" /\ status # "deleted"
    \/ op = "retryFailed" /\ status = "failed"

SourceGetDocument(c) ==
    /\ client[c].pc \in {"reindex", "retryFailed"}
    /\ \/ /\ WantsSourceJob(client[c].pc, docs[client[c].doc])
          /\ NewJob(c, client[c].doc)
       \/ /\ ~WantsSourceJob(client[c].pc, docs[client[c].doc])
          /\ Return(c)
          /\ UNCHANGED nextJob
    /\ UNCHANGED <<stores, jobs, worker>>

\* DeleteDocument reads the row, then clears the index, then the object store,
\* and saves its copy of the row as deleted.
DeleteDocument(c, d) ==
    /\ Starts(c, "delete")
    /\ docs[d] \notin {"absent", "deleted"}
    /\ Open(c, "dropVectors", d)
    /\ UNCHANGED <<stores, jobs, nextJob, worker>>

DropVectors(c) ==
    /\ client[c].pc = "dropVectors"
    /\ vectors' = vectors \ {client[c].doc}
    /\ Goto(c, "dropObject")
    /\ UNCHANGED <<docs, objects, jobs, nextJob, worker>>

DropObject(c) ==
    /\ client[c].pc = "dropObject"
    /\ objects' = objects \ {client[c].doc}
    /\ Goto(c, "markDeleted")
    /\ UNCHANGED <<docs, vectors, jobs, nextJob, worker>>

MarkDeleted(c) ==
    /\ client[c].pc = "markDeleted"
    /\ docs' = [docs EXCEPT ![client[c].doc] = "deleted"]
    /\ Return(c)
    /\ UNCHANGED <<objects, vectors, jobs, nextJob, worker>>

\* A request ends early at its next call: the call fails, the client has gone
\* (every call takes the request's context), or the process dies.
Abort(c) ==
    /\ "abort" \in Faults
    /\ client[c].pc # "idle"
    /\ Return(c)
    /\ UNCHANGED <<stores, jobs, nextJob, worker>>

StartRequest(c) ==
    \E d \in Documents :
        \/ PutObject(c, d)
        \/ RegisterDocument(c, d)
        \/ RetryDocument(c, d)
        \/ SourceListJobs(c, d, "reindex")
        \/ SourceListJobs(c, d, "retryFailed")
        \/ DeleteDocument(c, d)

ContinueRequest(c) ==
    \/ SaveNewDocument(c)
    \/ SaveJob(c)
    \/ RetryListJobs(c)
    \/ SourceGetDocument(c)
    \/ DropVectors(c)
    \/ DropObject(c)
    \/ MarkDeleted(c)

-----------------------------------------------------------------------------
(***************************************************************************)
(* Ingestion workers                                                       *)
(***************************************************************************)

\* The document of the job a worker holds.
Doc(w) == jobs[worker[w].job].doc

Step(w, pc, next) ==
    /\ worker[w].pc = pc
    /\ worker' = [worker EXCEPT ![w].pc = next]

\* Rows that a claim of another worker has locked and not yet committed.
Locked(j) == \E w \in Workers : worker[w].pc = "claim" /\ worker[w].job = j

\* Mutant of OldestQueued: ORDER BY created_at DESC.
NewestQueued(j) ==
    /\ jobs[j].state = "queued"
    /\ ~Locked(j)
    /\ \A k \in Jobs : jobs[k].state = "queued" /\ ~Locked(k) => j >= k

\* Mutant of OldestQueued: rows locked by others are not skipped.
OldestWithoutLocks(j) ==
    /\ jobs[j].state = "queued"
    /\ \A k \in Jobs : jobs[k].state = "queued" => j <= k

\* SELECT ... ORDER BY created_at LIMIT 1 FOR UPDATE SKIP LOCKED
OldestQueued(j) ==
    /\ jobs[j].state = "queued"
    /\ ~Locked(j)
    /\ \A k \in Jobs : jobs[k].state = "queued" /\ ~Locked(k) => j <= k

\* ClaimNextQueuedJob, its picking half: the row is locked.
PickJob(w) ==
    /\ worker[w].pc = "idle"
    /\ \E j \in Jobs :
        /\ OldestQueued(j)
        /\ worker' = [worker EXCEPT ![w] = [pc |-> "claim", job |-> j]]
    /\ UNCHANGED <<stores, jobs, nextJob, client>>

\* ClaimNextQueuedJob, its other half: the marked row is committed.
Claim(w) ==
    /\ Step(w, "claim", "load")
    /\ jobs' = [jobs EXCEPT ![worker[w].job].state = "running",
                            ![worker[w].job].attempts = @ + 1]
    /\ UNCHANGED <<stores, nextJob, client>>

\* Mutant of LoadDocument: the status of the loaded document is not checked.
LoadDocumentUnchecked(w) ==
    /\ Step(w, "load", "begin")
    /\ UNCHANGED <<stores, jobs, nextJob, client>>

\* processClaimedJob: GetDocument, and the transition of the copy.
LoadDocument(w) ==
    /\ \/ Step(w, "load", "cancel") /\ docs[Doc(w)] = "deleted"
       \/ /\ Step(w, "load", "begin")
          /\ DocumentCanTransition(docs[Doc(w)], "processing")
       \/ /\ Step(w, "load", "fail")
          /\ docs[Doc(w)] # "deleted"
          /\ ~DocumentCanTransition(docs[Doc(w)], "processing")
    /\ UNCHANGED <<stores, jobs, nextJob, client>>

SaveProcessing(w) ==
    /\ Step(w, "begin", "read")
    /\ docs' = [docs EXCEPT ![Doc(w)] = "processing"]
    /\ UNCHANGED <<objects, vectors, jobs, nextJob, client>>

\* Mutant of ReadDocument: an ingestion error leaves the document row alone.
ReadDocumentKeepsStatus(w) ==
    /\ \E o \in Outcomes :
        \/ Step(w, "read", "fail") /\ (Doc(w) \notin objects \/ o = "error")
        \/ Step(w, "read", "ready") /\ Doc(w) \in objects /\ o = "eof"
        \/ Step(w, "read", "clear") /\ Doc(w) \in objects /\ o = "text"
    /\ UNCHANGED <<stores, jobs, nextJob, client>>

\* Mutant of ReadDocument: every extraction error is taken for an empty file.
ReadDocumentSwallowsErrors(w) ==
    /\ \/ Step(w, "read", "ready")
       \/ Step(w, "read", "clear") /\ Doc(w) \in objects
    /\ UNCHANGED <<stores, jobs, nextJob, client>>

\* The reading half of ingestDocument: GetObject, Extract, Chunk and Embed.
\* An extractor that returns a bare io.EOF ends the ingestion as a success.
ReadDocument(w) ==
    /\ \E o \in Outcomes :
        \/ Step(w, "read", "failed") /\ (Doc(w) \notin objects \/ o = "error")
        \/ Step(w, "read", "ready") /\ Doc(w) \in objects /\ o = "eof"
        \/ Step(w, "read", "clear") /\ Doc(w) \in objects /\ o = "text"
    /\ UNCHANGED <<stores, jobs, nextJob, client>>

\* The writing half: the old chunks go, then the new ones come.
ClearVectors(w) ==
    /\ Step(w, "clear", "index")
    /\ vectors' = vectors \ {Doc(w)}
    /\ UNCHANGED <<docs, objects, jobs, nextJob, client>>

UpsertVectors(w) ==
    /\ Step(w, "index", "ready")
    /\ vectors' = vectors \cup {Doc(w)}
    /\ UNCHANGED <<docs, objects, jobs, nextJob, client>>

SaveReady(w) ==
    /\ Step(w, "ready", "succeed")
    /\ docs' = [docs EXCEPT ![Doc(w)] = "ready"]
    /\ UNCHANGED <<objects, vectors, jobs, nextJob, client>>

SaveFailed(w) ==
    /\ Step(w, "failed", "fail")
    /\ docs' = [docs EXCEPT ![Doc(w)] = "failed"]
    /\ UNCHANGED <<objects, vectors, jobs, nextJob, client>>

\* Mutant of JobResult: a failed job goes back to the queue.
JobResultRequeues(pc) ==
    CASE pc = "succeed" -> "succeeded"
      [] pc = "fail"    -> "queued"
      [] pc = "cancel"  -> "canceled"

\* Mutant of JobResult: the job is given the status of its document.
JobResultOfDocument(pc) ==
    CASE pc = "succeed" -> "succeeded"
      [] pc = "fail"    -> "failed"
      [] pc = "cancel"  -> "deleted"

\* ProcessNext saves its copy of the job, moved to the state the run ended in.
JobResult(pc) ==
    CASE pc = "succeed" -> "succeeded"
      [] pc = "fail"    -> "failed"
      [] pc = "cancel"  -> "canceled"

\* Mutant of SettleJob: a canceled job is not saved.
SettleJobForgetsCancel(w) ==
    /\ worker[w].pc \in {"succeed", "fail", "cancel"}
    /\ IF worker[w].pc = "cancel"
       THEN UNCHANGED jobs
       ELSE jobs' = [jobs EXCEPT
                ![worker[w].job].state = JobResult(worker[w].pc)]
    /\ worker' = [worker EXCEPT ![w] = IdleWorker]
    /\ UNCHANGED <<stores, nextJob, client>>

SettleJob(w) ==
    /\ worker[w].pc \in {"succeed", "fail", "cancel"}
    /\ jobs' = [jobs EXCEPT ![worker[w].job].state = JobResult(worker[w].pc)]
    /\ worker' = [worker EXCEPT ![w] = IdleWorker]
    /\ UNCHANGED <<stores, nextJob, client>>

\* The vector index answers with an error, before or after doing the work.
ProviderError(w) ==
    /\ "provider" \in Faults
    /\ \/ /\ Step(w, "clear", "failed")
          /\ vectors' \in {vectors, vectors \ {Doc(w)}}
       \/ /\ Step(w, "index", "failed")
          /\ vectors' \in {vectors, vectors \cup {Doc(w)}}
    /\ UNCHANGED <<docs, objects, jobs, nextJob, client>>

\* Mutant of StoreError: the error of the final SaveDocument is dropped.
StoreErrorIgnored(w) ==
    /\ "store" \in Faults
    /\ Step(w, "ready", "succeed")
    /\ UNCHANGED <<stores, jobs, nextJob, client>>

\* A repository call fails.  A document that cannot be read or saved fails the
\* job; a claim that cannot be committed is rolled back, and a job that cannot
\* be saved is forgotten by its worker.
StoreError(w) ==
    /\ "store" \in Faults
    /\ \/ \E pc \in {"load", "begin", "ready", "failed"} : Step(w, pc, "fail")
       \/ /\ worker[w].pc \in {"claim", "succeed", "fail", "cancel"}
          /\ worker' = [worker EXCEPT ![w] = IdleWorker]
    /\ UNCHANGED <<stores, jobs, nextJob, client>>

\* The worker process dies, or is asked to stop: SIGTERM cancels the context
\* of every later call, so nothing of the claimed job is written any more.
Crash(w) ==
    /\ "crash" \in Faults
    /\ worker[w].pc # "idle"
    /\ worker' = [worker EXCEPT ![w] = IdleWorker]
    /\ UNCHANGED <<stores, jobs, nextJob, client>>

Work(w) ==
    \/ PickJob(w)
    \/ Claim(w)
    \/ LoadDocument(w)
    \/ SaveProcessing(w)
    \/ ReadDocument(w)
    \/ ClearVectors(w)
    \/ UpsertVectors(w)
    \/ SaveReady(w)
    \/ SaveFailed(w)
    \/ SettleJob(w)

-----------------------------------------------------------------------------
Next ==
    \/ \E c \in Clients : StartRequest(c) \/ ContinueRequest(c) \/ Abort(c)
    \/ \E w \in Workers : Work(w) \/ ProviderError(w) \/ StoreError(w) \/ Crash(w)

Spec == Init /\ [][Next]_vars

\* A started request runs to its end and a worker keeps polling and working;
\* nobody has to make a request, and no fault has to happen.
Fairness ==
    /\ \A c \in Clients : WF_vars(ContinueRequest(c))
    /\ \A w \in Workers : WF_vars(Work(w))

FairSpec == Spec /\ Fairness

-----------------------------------------------------------------------------
(***************************************************************************)
(* Properties                                                              *)
(***************************************************************************)

\* The queue the workers and requests share keeps the promises of JobQueue:
\* one submission, one claim, one finish by the claimant, the oldest job that
\* nobody else is claiming first.
Queue == INSTANCE JobQueue WITH
    state  <- [j \in Jobs |-> jobs[j].state],
    claims <- [j \in Jobs |-> jobs[j].attempts],
    picked <- [w \in Workers |->
                 IF worker[w].pc = "claim" THEN worker[w].job ELSE NoJob],
    holds  <- [w \in Workers |->
                 IF worker[w].pc = "claim" THEN NoJob ELSE worker[w].job]

ImplementsQueue == Queue!Spec

\* Whole-row saves of stale copies, failures and crashes included, a document
\* that nobody deletes lives as DocumentLife says, if requests about it take
\* turns: its row and its chunks follow one attempt at a time, and neither is
\* touched once it is ready.
Life == INSTANCE DocumentLife WITH status <- docs, searchable <- vectors

ImplementsLife == Life!Spec

\* No queued job is processed twice, however many workers claim at once.
HandedOutOnce == Queue!HandedOutOnce

\* A job row changes its state along the documented machine only, and keeps its
\* document: no whole-row save of a stale copy takes a job back.
JobsFollowTheirMachine ==
    [][\A j \in Jobs :
         jobs'[j] # jobs[j] /\ jobs[j].state # "absent"
         => /\ JobCanTransition(jobs[j].state, jobs'[j].state)
            /\ jobs'[j].doc = jobs[j].doc]_vars

\* Workers that will still write the row or the chunks of document d.
IngestingPCs == {"begin", "read", "clear", "index", "ready", "failed"}
Ingesting(d) == \E w \in Workers : worker[w].pc \in IngestingPCs /\ Doc(w) = d

\* A deletion that meets no ingestion in flight is final: the document stays
\* deleted, no later job of it is ever ingested, and chunks do not come back,
\* whatever is retried or re-indexed and whichever stale request still runs.
QuietDeletionIsFinal ==
    [][\A d \in Documents :
         docs[d] = "deleted" /\ ~Ingesting(d)
         => /\ docs'[d] = "deleted"
            /\ ~Ingesting(d)'
            /\ d \in vectors' => d \in vectors]_vars

\* While no store call fails and no process stops, a document that is not in a
\* final state is on somebody's hands: an uploaded one has a job or a request
\* about to queue one, a processing one has a worker that will end it.
UnsettledDocumentsAreCarried ==
    \A d \in Documents :
        /\ docs[d] = "uploaded" =>
             \/ HasActiveJob(d)
             \/ \E c \in Clients : client[c].pc = "enqueue" /\ client[c].doc = d
        /\ docs[d] = "processing" => Ingesting(d)

\* Requests about one document that have looked for an active job of it and
\* found none take turns: each has returned, its job saved, when another looks.
PastJobCheck == {"reindex", "retryFailed", "enqueue"}
RequestsTakeTurns ==
    \A b, c \in Clients :
        /\ client[b].pc \in PastJobCheck
        /\ client[c].pc \in PastJobCheck
        /\ client[b].doc = client[c].doc
        => b = c

\* The retry and reindex guards keep a document to a single active ingestion
\* job, as long as the requests about it take turns.
OneActiveJobPerDocument ==
    \A i, j \in Jobs :
        /\ jobs[i].state \in ActiveJobStates
        /\ jobs[j].state \in ActiveJobStates
        /\ jobs[i].doc = jobs[j].doc
        => i = j

\* A document answers searches if it is ready: its chunks are in the index, and
\* nothing half-done by an earlier attempt or a later re-index took them away.
ReadyDocumentsAreSearchable ==
    \A d \in Documents : docs[d] = "ready" => d \in vectors

\* A job that succeeded left its document ready, for good when nobody deletes.
SucceededJobsPublished ==
    \A j \in Jobs : jobs[j].state = "succeeded" => docs[jobs[j].doc] = "ready"

\* Every uploaded or processing document ends up ready, failed or deleted.
EveryUploadSettles ==
    \A d \in Documents :
        docs[d] \in {"uploaded", "processing"}
        ~> docs[d] \in {"ready", "failed", "deleted"}

\* Every queued job reaches a terminal state.
EveryQueuedJobFinishes ==
    \A j \in Jobs :
        jobs[j].state = "queued" ~> jobs[j].state \in TerminalJobStates

(***************************************************************************)
(* What the documentation says and the code does not do                    *)
(***************************************************************************)

\* docs/backend-contracts.md: deleting a document "removes vectors".  Once no
\* request and no worker is busy with it, a deleted document has no chunks.
DeletedDocumentsLeaveTheIndex ==
    \A d \in Documents :
        /\ docs[d] = "deleted"
        /\ ~Ingesting(d)
        /\ \A c \in Clients : client[c].doc # d
        => d \notin vectors

\* docs/workers.md: "If ingestion fails, the worker transitions the document to
\* `failed`, transitions the job to `failed`": the moment the job fails, its
\* document has failed (or was deleted meanwhile).
FailedJobsFailTheirDocument ==
    [][\A j \in Jobs :
         jobs[j].state = "running" /\ jobs'[j].state = "failed"
         => docs'[jobs[j].doc] \in {"failed", "deleted"}]_vars
=============================================================================
