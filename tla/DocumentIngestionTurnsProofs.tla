-------------------- MODULE DocumentIngestionTurnsProofs --------------------
(***************************************************************************)
(* Proofs about DocumentIngestion of what holds under a condition only:    *)
(* while the requests about a document take turns, while nobody deletes,   *)
(* or while nothing but the vector index fails.                            *)
(***************************************************************************)
EXTENDS DocumentIngestionProofs

-----------------------------------------------------------------------------
(***************************************************************************)
(* The invariants, all on top of IInv.                                     *)
(***************************************************************************)

\* A request that will queue a job for a document without looking again is not
\* preceded by an active one.
NoJobAhead ==
    \A c \in Clients :
        client[c].pc \in PastJobCheck => ~HasActiveJob(client[c].doc)

SingleJobs == OneActiveJobPerDocument /\ NoJobAhead

\* What the row of its document says while a worker ingests it: nobody else
\* writes the row, for the worker has the only active job.
AttemptedPCs == {"read", "clear", "index", "ready", "failed"}
RowsFollowAttempts ==
    \A w \in Workers :
        /\ worker[w].pc = "begin" => docs[Doc(w)] \in {"uploaded", "failed"}
        /\ worker[w].pc \in AttemptedPCs => docs[Doc(w)] = "processing"
        /\ worker[w].pc = "succeed" => docs[Doc(w)] = "ready"

\* Without deletions, no request is in the middle of one.
DeletionPCs == {"dropVectors", "dropObject", "markDeleted"}
NobodyDeletes == \A c \in Clients : client[c].pc \notin DeletionPCs

\* The chunks of a document are in the index when its row is about to say so.
IndexedAttempts ==
    \A w \in Workers : worker[w].pc = "ready" => Doc(w) \in vectors

\* A worker that is past the first save has left no document uploaded.
LoadedPCs == {"read", "clear", "index", "ready", "failed", "succeed", "fail", "cancel"}
LoadedDocuments ==
    \A w \in Workers : worker[w].pc \in LoadedPCs => docs[Doc(w)] # "uploaded"

-----------------------------------------------------------------------------
(***************************************************************************)
(* One active job per document                                             *)
(***************************************************************************)

\* A worker makes no job active and keeps its document.
LEMMA WorkerActivatesNothing ==
  ASSUME IInv, NEW w \in Workers,
         Work(w) \/ ProviderError(w) \/ StoreError(w) \/ Crash(w)
  PROVE  /\ client' = client
         /\ \A j \in Jobs : /\ jobs'[j].doc = jobs[j].doc
                            /\ jobs'[j].state \in ActiveJobStates
                                 => jobs[j].state \in ActiveJobStates
<1> USE DEF IInv, TypeOK
<1>1. CASE Claim(w)
  <2>1. worker[w].job \in Jobs /\ jobs[worker[w].job].state = "queued"
    BY <1>1, BusyWorker DEF Claim, Step
  <2> QED
    BY <1>1, <2>1 DEF Claim, ActiveJobStates
<1>2. CASE SettleJob(w)
  <2>1. worker[w].job \in Jobs /\ jobs[worker[w].job].state = "running"
    BY <1>2, BusyWorker DEF SettleJob
  <2> QED
    BY <1>2, <2>1 DEF SettleJob, ActiveJobStates
<1>3. CASE ~(Claim(w) \/ SettleJob(w))
  BY <1>3 DEF Work, PickJob, LoadDocument, SaveProcessing, ReadDocument, ClearVectors,
     UpsertVectors, SaveReady, SaveFailed, ProviderError, StoreError, Crash
<1> QED
  BY <1>1, <1>2, <1>3

\* A request that gets past its job check has found no active job; only SaveJob
\* writes a job.
LEMMA RequestPassesCheck ==
  ASSUME IInv, NoJobAhead, NEW c \in Clients,
         StartRequest(c) \/ ContinueRequest(c) \/ Abort(c), ~SaveJob(c)
  PROVE  /\ jobs' = jobs
         /\ \A b \in Clients \ {c} : client'[b] = client[b]
         /\ client'[c].pc \in PastJobCheck => ~HasActiveJob(client'[c].doc)
<1> USE DEF IInv, TypeOK
<1>1. ASSUME NEW d \in Documents, docs[d] = "absent"
      PROVE  ~HasActiveJob(d)
  BY <1>1 DEF HasActiveJob, JobsHaveRows, ActiveJobStates
<1>2. ASSUME NEW d, ~HasActiveJob(d), NewJob(c, d)
      PROVE  /\ \A b \in Clients \ {c} : client'[b] = client[b]
             /\ client'[c].pc \in PastJobCheck => ~HasActiveJob(client'[c].doc)
  BY <1>2 DEF NewJob
<1>3. ASSUME Return(c)
      PROVE  /\ \A b \in Clients \ {c} : client'[b] = client[b]
             /\ client'[c].pc \notin PastJobCheck
  BY <1>3 DEF Return, IdleClient, PastJobCheck
<1>4. ASSUME NEW d, NEW pc, Open(c, pc, d), pc \in PastJobCheck => ~HasActiveJob(d)
      PROVE  /\ \A b \in Clients \ {c} : client'[b] = client[b]
             /\ client'[c].pc \in PastJobCheck => ~HasActiveJob(client'[c].doc)
  BY <1>4 DEF Open
<1>5. CASE StartRequest(c)
  <2>1. PICK d \in Documents :
          \/ PutObject(c, d)
          \/ RegisterDocument(c, d)
          \/ RetryDocument(c, d)
          \/ SourceListJobs(c, d, "reindex")
          \/ SourceListJobs(c, d, "retryFailed")
          \/ DeleteDocument(c, d)
    BY <1>5 DEF StartRequest
  <2>2. CASE PutObject(c, d) \/ RetryDocument(c, d) \/ DeleteDocument(c, d)
    BY <1>4, <2>2 DEF PutObject, RetryDocument, DeleteDocument, PastJobCheck, stores
  <2>3. CASE RegisterDocument(c, d)
    BY <1>1, <1>2, <2>3 DEF RegisterDocument, Fresh
  <2>4. CASE SourceListJobs(c, d, "reindex") \/ SourceListJobs(c, d, "retryFailed")
    BY <1>4, <2>4 DEF SourceListJobs, stores
  <2> QED
    BY <2>1, <2>2, <2>3, <2>4
<1>6. CASE ContinueRequest(c)
  <2>1. CASE SaveNewDocument(c)
    <3>1. client[c].doc \in Documents /\ docs[client[c].doc] = "absent"
      BY <2>1 DEF SaveNewDocument, RequestsHaveDocuments, NewDocumentsAreOwn
    <3> QED
      BY <1>1, <1>2, <2>1, <3>1 DEF SaveNewDocument
  <2>2. CASE RetryListJobs(c)
    BY <1>2, <1>3, <2>2 DEF RetryListJobs
  <2>3. CASE SourceGetDocument(c)
    <3>1. ~HasActiveJob(client[c].doc)
      BY <2>3 DEF SourceGetDocument, NoJobAhead, PastJobCheck
    <3> QED
      BY <1>2, <1>3, <2>3, <3>1 DEF SourceGetDocument
  <2>4. CASE DropVectors(c) \/ DropObject(c)
    BY <2>4 DEF DropVectors, DropObject, Goto, PastJobCheck
  <2>5. CASE MarkDeleted(c)
    BY <1>3, <2>5 DEF MarkDeleted
  <2> QED
    BY <1>6, <2>1, <2>2, <2>3, <2>4, <2>5 DEF ContinueRequest
<1>7. CASE Abort(c)
  BY <1>3, <1>7 DEF Abort
<1> QED
  BY <1>5, <1>6, <1>7

\* While requests take turns, a job that is saved is the only active one.
LEMMA SingleJobsStep ==
  ASSUME IInv, RequestsTakeTurns, SingleJobs, [Next]_vars
  PROVE  SingleJobs'
<1> USE DEF IInv, TypeOK
<1>1. ASSUME NEW w \in Workers,
             Work(w) \/ ProviderError(w) \/ StoreError(w) \/ Crash(w)
      PROVE  SingleJobs'
  <2>1. /\ client' = client
        /\ \A j \in Jobs : /\ jobs'[j].doc = jobs[j].doc
                           /\ jobs'[j].state \in ActiveJobStates
                                => jobs[j].state \in ActiveJobStates
    BY <1>1, WorkerActivatesNothing
  <2>2. OneActiveJobPerDocument'
    BY <2>1 DEF SingleJobs, OneActiveJobPerDocument
  <2>3. NoJobAhead'
    BY <2>1 DEF SingleJobs, NoJobAhead, HasActiveJob
  <2> QED
    BY <2>2, <2>3 DEF SingleJobs
<1>2. ASSUME NEW c \in Clients, SaveJob(c)
      PROVE  SingleJobs'
  <2>1. PICK j \in Jobs : j = client[c].job /\ jobs[j].state = "absent"
    BY <1>2 DEF SaveJob, NewJobsAreOwn
  <2>2. PICK d \in Documents : d = client[c].doc
    BY <1>2 DEF SaveJob, RequestsHaveDocuments
  <2>3. /\ client[c].pc = "enqueue"
        /\ jobs' = [jobs EXCEPT ![j] = [state |-> "queued", doc |-> d, attempts |-> 0]]
        /\ client' = [client EXCEPT ![c] = IdleClient]
    BY <1>2, <2>1, <2>2 DEF SaveJob, Return
  <2>4. /\ jobs'[j].doc = d
        /\ \A i \in Jobs \ {j} : jobs'[i] = jobs[i]
    BY <2>3
  <2>5. ~HasActiveJob(d)
    BY <2>2, <2>3 DEF SingleJobs, NoJobAhead, PastJobCheck
  <2>6. OneActiveJobPerDocument'
    BY <2>4, <2>5 DEF SingleJobs, OneActiveJobPerDocument, HasActiveJob
  <2>7. ASSUME NEW b \in Clients, client'[b].pc \in PastJobCheck
        PROVE  ~HasActiveJob(client[b].doc)'
    <3>1. b # c /\ client'[b] = client[b]
      BY <2>3, <2>7 DEF IdleClient, PastJobCheck
    <3>2. client[b].doc # d
      BY <2>2, <2>3, <2>7, <3>1 DEF RequestsTakeTurns, PastJobCheck
    <3>3. ~HasActiveJob(client[b].doc)
      BY <2>7, <3>1 DEF SingleJobs, NoJobAhead
    <3> QED
      BY <2>4, <3>1, <3>2, <3>3 DEF HasActiveJob
  <2> QED
    BY <2>6, <2>7 DEF SingleJobs, NoJobAhead
<1>3. ASSUME NEW c \in Clients,
             StartRequest(c) \/ ContinueRequest(c) \/ Abort(c), ~SaveJob(c)
      PROVE  SingleJobs'
  <2>1. /\ jobs' = jobs
        /\ \A b \in Clients \ {c} : client'[b] = client[b]
        /\ client'[c].pc \in PastJobCheck => ~HasActiveJob(client'[c].doc)
    BY <1>3, RequestPassesCheck DEF SingleJobs
  <2>2. OneActiveJobPerDocument'
    BY <2>1 DEF SingleJobs, OneActiveJobPerDocument
  <2>3. NoJobAhead'
    BY <2>1 DEF SingleJobs, NoJobAhead, HasActiveJob
  <2> QED
    BY <2>2, <2>3 DEF SingleJobs
<1>4. CASE UNCHANGED vars
  BY <1>4 DEF vars, SingleJobs, OneActiveJobPerDocument, NoJobAhead, HasActiveJob
<1> QED
  BY <1>1, <1>2, <1>3, <1>4 DEF Next

\* No document has a job at first.
LEMMA SingleJobsInit ==
  ASSUME Init
  PROVE  SingleJobs
  BY DEF Init, SingleJobs, OneActiveJobPerDocument, NoJobAhead, AbsentJob,
         IdleClient, ActiveJobStates, PastJobCheck

LEMMA SingleJobsInvariance ==
  Spec /\ []RequestsTakeTurns => []SingleJobs
<1>1. Init => SingleJobs
  BY SingleJobsInit
<1>2. IInv /\ RequestsTakeTurns /\ SingleJobs /\ [Next]_vars => SingleJobs'
  BY SingleJobsStep
<1> QED
  BY <1>1, <1>2, Invariance, PTL DEF Spec

\* The job check of retries, reindexes and uploads keeps a document to one
\* active job, whatever else runs, fails or crashes, as long as no two requests
\* about it are past their check at the same time (isActiveDocumentIngestionJob,
\* as app/documents.go and app/data_sources.go ask it).
THEOREM TurnsKeepOneJob ==
  Spec /\ []RequestsTakeTurns => []OneActiveJobPerDocument
<1>1. SingleJobs => OneActiveJobPerDocument
  BY DEF SingleJobs
<1> QED
  BY <1>1, SingleJobsInvariance, PTL

-----------------------------------------------------------------------------
(***************************************************************************)
(* What is published stays published                                       *)
(***************************************************************************)

\* Nobody else works on the document of a busy worker.
LEMMA OneAttempt ==
  ASSUME IInv, OneActiveJobPerDocument, NEW v \in Workers, NEW w \in Workers,
         worker[v].pc # "idle", worker[w].pc # "idle", Doc(v) = Doc(w)
  PROVE  v = w
<1>1. /\ worker[v].job \in Jobs /\ jobs[worker[v].job].state \in ActiveJobStates
      /\ worker[w].job \in Jobs /\ jobs[worker[w].job].state \in ActiveJobStates
  BY BusyWorker DEF IInv, ActiveJobStates
<1>2. worker[v].job = worker[w].job
  BY <1>1 DEF OneActiveJobPerDocument, Doc
<1> QED
  BY <1>1, <1>2 DEF IInv, HeldJobs, Jobs, NoJob

\* A request deletes only if it may.
LEMMA NobodyDeletesStep ==
  ASSUME "delete" \notin Operations, TypeOK, NobodyDeletes, [Next]_vars
  PROVE  NobodyDeletes'
<1> USE DEF TypeOK
<1>1. ASSUME NEW c \in Clients, StartRequest(c) \/ ContinueRequest(c) \/ Abort(c)
      PROVE  NobodyDeletes'
  <2> DEFINE Harmless == /\ \A b \in Clients \ {c} : client'[b] = client[b]
                         /\ client'[c].pc \notin DeletionPCs
  <2>1. ASSUME NEW d, NewJob(c, d)
        PROVE  Harmless
    BY <2>1 DEF NewJob, DeletionPCs
  <2>2. ASSUME Return(c)
        PROVE  Harmless
    BY <2>2 DEF Return, IdleClient, DeletionPCs
  <2>3. ASSUME NEW d, NEW pc, Open(c, pc, d), pc \notin DeletionPCs
        PROVE  Harmless
    BY <2>3 DEF Open
  <2> SUFFICES Harmless
    BY DEF NobodyDeletes
  <2> HIDE DEF Harmless
  <2>4. CASE StartRequest(c)
    BY <2>1, <2>3, <2>4 DEF StartRequest, PutObject, RegisterDocument, RetryDocument,
       SourceListJobs, DeleteDocument, Starts, DeletionPCs
  <2>5. CASE ContinueRequest(c)
    BY <2>1, <2>2, <2>5 DEF ContinueRequest, SaveNewDocument, SaveJob, RetryListJobs,
       SourceGetDocument, DropVectors, DropObject, MarkDeleted, NobodyDeletes, DeletionPCs
  <2>6. CASE Abort(c)
    BY <2>2, <2>6 DEF Abort
  <2> QED
    BY <1>1, <2>4, <2>5, <2>6
<1>2. ASSUME NEW w \in Workers,
             Work(w) \/ ProviderError(w) \/ StoreError(w) \/ Crash(w)
      PROVE  client' = client
  BY <1>2 DEF Work, PickJob, Claim, LoadDocument, SaveProcessing, ReadDocument, ClearVectors,
     UpsertVectors, SaveReady, SaveFailed, SettleJob, ProviderError, StoreError, Crash
<1> QED
  BY <1>1, <1>2 DEF Next, vars, NobodyDeletes

\* Jobs in hand keep their documents when a request saves a job.
LEMMA RequestKeepsHeldJobs ==
  ASSUME IInv, NEW c \in Clients,
         StartRequest(c) \/ ContinueRequest(c) \/ Abort(c),
         NEW j \in Jobs, jobs[j].state # "absent"
  PROVE  jobs'[j] = jobs[j]
<1>1. client[c].pc = "enqueue" => client[c].job \in Jobs /\ client[c].job # j
  BY DEF IInv, NewJobsAreOwn
<1> QED
  BY <1>1, RequestEffect DEF IInv, TypeOK

\* A request that does not delete writes no row but a new one, and no chunks.
LEMMA RequestKeepsRows ==
  ASSUME IInv, NobodyDeletes, NEW c \in Clients,
         StartRequest(c) \/ ContinueRequest(c) \/ Abort(c)
  PROVE  /\ worker' = worker /\ vectors' = vectors
         /\ \A d \in Documents : docs[d] # "absent" => docs'[d] = docs[d]
         /\ \A d \in Documents : docs[d] = "absent" => docs'[d] \in {"absent", "uploaded"}
<1> USE DEF IInv, TypeOK
<1>1. worker' = worker
  BY RequestEffect
<1>2. CASE StartRequest(c)
  BY <1>1, <1>2 DEF StartRequest, PutObject, RegisterDocument, RetryDocument, SourceListJobs,
     DeleteDocument, Fresh, stores
<1>3. CASE SaveNewDocument(c)
  <2>1. client[c].doc \in Documents /\ docs[client[c].doc] = "absent"
    BY <1>3 DEF SaveNewDocument, RequestsHaveDocuments, NewDocumentsAreOwn
  <2> QED
    BY <1>1, <1>3, <2>1 DEF SaveNewDocument
<1>4. CASE SaveJob(c) \/ RetryListJobs(c) \/ SourceGetDocument(c) \/ Abort(c)
  BY <1>1, <1>4 DEF SaveJob, RetryListJobs, SourceGetDocument, Abort, stores
<1>5. ~(DropVectors(c) \/ DropObject(c) \/ MarkDeleted(c))
  BY DEF DropVectors, DropObject, MarkDeleted, NobodyDeletes, DeletionPCs
<1> QED
  BY <1>2, <1>3, <1>4, <1>5 DEF ContinueRequest

\* A worker's step is about its own document; where it goes on it keeps its job.
LEMMA WorkerKeepsOthers ==
  ASSUME IInv, NEW w \in Workers,
         Work(w) \/ ProviderError(w) \/ StoreError(w) \/ Crash(w)
  PROVE  /\ \A v \in Workers \ {w} : worker'[v] = worker[v]
         /\ \A d \in Documents :
              \/ docs'[d] = docs[d] /\ (d \in vectors' <=> d \in vectors)
              \/ worker[w].pc # "idle" /\ d = Doc(w)
         /\ worker'[w].pc \in LoadedPCs \cup {"load", "begin"} =>
              worker[w].pc # "idle" /\ worker'[w].job = worker[w].job
<1> USE DEF IInv, TypeOK
<1>1. ASSUME NEW pc, NEW next, Step(w, pc, next)
      PROVE  /\ \A v \in Workers \ {w} : worker'[v] = worker[v]
             /\ worker'[w].job = worker[w].job /\ worker[w].pc = pc
  BY <1>1 DEF Step
<1>2. ASSUME worker' = [worker EXCEPT ![w] = IdleWorker]
      PROVE  /\ \A v \in Workers \ {w} : worker'[v] = worker[v]
             /\ worker'[w].pc = "idle"
  BY <1>2 DEF IdleWorker
<1>3. CASE PickJob(w)
  <2>1. PICK j : worker' = [worker EXCEPT ![w] = [pc |-> "claim", job |-> j]]
    BY <1>3 DEF PickJob
  <2>2. worker'[w].pc = "claim" /\ \A v \in Workers \ {w} : worker'[v] = worker[v]
    BY <2>1
  <2> QED
    BY <1>3, <2>2 DEF PickJob, stores, LoadedPCs
<1>4. CASE Claim(w) \/ LoadDocument(w) \/ ReadDocument(w)
  BY <1>1, <1>4 DEF Claim, LoadDocument, ReadDocument, stores
<1>5. CASE SaveProcessing(w) \/ SaveReady(w) \/ SaveFailed(w)
  BY <1>1, <1>5 DEF SaveProcessing, SaveReady, SaveFailed
<1>6. CASE ClearVectors(w) \/ UpsertVectors(w) \/ ProviderError(w)
  BY <1>1, <1>6 DEF ClearVectors, UpsertVectors, ProviderError
<1>7. CASE SettleJob(w) \/ Crash(w)
  BY <1>2, <1>7 DEF SettleJob, Crash, stores, LoadedPCs
<1>8. CASE StoreError(w)
  BY <1>1, <1>2, <1>8 DEF StoreError, stores, LoadedPCs
<1> QED
  BY <1>3, <1>4, <1>5, <1>6, <1>7, <1>8 DEF Work

\* Each call of an attempt leaves the row as the next call expects it.
LEMMA AttemptGoesOn ==
  ASSUME IInv, RowsFollowAttempts, NEW w \in Workers,
         Work(w) \/ ProviderError(w) \/ StoreError(w) \/ Crash(w)
  PROVE  /\ worker'[w].pc = "begin" => docs'[Doc(w)] \in {"uploaded", "failed"}
         /\ worker'[w].pc \in AttemptedPCs => docs'[Doc(w)] = "processing"
         /\ worker'[w].pc = "succeed" => docs'[Doc(w)] = "ready"
<1> USE DEF IInv, TypeOK
<1>1. ASSUME NEW pc, NEW next, Step(w, pc, next)
      PROVE  worker[w].pc = pc /\ worker'[w].pc = next
  BY <1>1 DEF Step
<1>2. worker[w].pc # "idle" => Doc(w) \in Documents
  BY BusyWorker
<1>3. CASE PickJob(w) \/ SettleJob(w) \/ Crash(w)
  <2>1. worker'[w].pc \in {"claim", "idle"}
    BY <1>3 DEF PickJob, SettleJob, Crash, IdleWorker
  <2> QED
    BY <2>1 DEF AttemptedPCs
<1>4. CASE Claim(w)
  BY <1>1, <1>4 DEF Claim, AttemptedPCs
<1>5. CASE StoreError(w)
  <2>1. worker'[w].pc \in {"fail", "idle"}
    BY <1>1, <1>5 DEF StoreError, IdleWorker
  <2> QED
    BY <2>1 DEF AttemptedPCs
<1>6. CASE LoadDocument(w)
  BY <1>1, <1>6 DEF LoadDocument, DocumentCanTransition, AttemptedPCs, stores
<1>7. CASE SaveProcessing(w)
  BY <1>1, <1>2, <1>7 DEF SaveProcessing, AttemptedPCs
<1>8. CASE ReadDocument(w) \/ ClearVectors(w) \/ UpsertVectors(w) \/ ProviderError(w)
  <2>1. worker[w].pc \in AttemptedPCs /\ worker'[w].pc \in AttemptedPCs /\ docs' = docs
    BY <1>1, <1>8 DEF ReadDocument, ClearVectors, UpsertVectors, ProviderError,
       AttemptedPCs, stores
  <2> QED
    BY <2>1 DEF RowsFollowAttempts, AttemptedPCs
<1>9. CASE SaveReady(w)
  BY <1>1, <1>2, <1>9 DEF SaveReady, AttemptedPCs
<1>10. CASE SaveFailed(w)
  BY <1>1, <1>10 DEF SaveFailed, AttemptedPCs
<1> QED
  BY <1>3, <1>4, <1>5, <1>6, <1>7, <1>8, <1>9, <1>10 DEF Work

\* A document keeps its job's row unless its own worker writes it.
LEMMA HeldDocumentsStay ==
  ASSUME IInv, Next, NEW v \in Workers, worker[v].pc # "idle",
         worker'[v].job = worker[v].job
  PROVE  Doc(v)' = Doc(v)
<1>1. worker[v].job \in Jobs /\ jobs[worker[v].job].state # "absent"
  BY BusyWorker DEF IInv
<1>2. jobs'[worker[v].job].doc = jobs[worker[v].job].doc
  <2>1. ASSUME NEW c \in Clients, StartRequest(c) \/ ContinueRequest(c) \/ Abort(c)
        PROVE  jobs'[worker[v].job].doc = jobs[worker[v].job].doc
    BY <1>1, <2>1, RequestKeepsHeldJobs
  <2>2. ASSUME NEW w \in Workers,
               Work(w) \/ ProviderError(w) \/ StoreError(w) \/ Crash(w)
        PROVE  jobs'[worker[v].job].doc = jobs[worker[v].job].doc
    BY <1>1, <2>2, WorkerActivatesNothing
  <2> QED
    BY <2>1, <2>2 DEF Next
<1> QED
  BY <1>2 DEF Doc

\* With one active job per document, the rows follow the attempts.
LEMMA RowsFollowStep ==
  ASSUME IInv, OneActiveJobPerDocument, NobodyDeletes, RowsFollowAttempts, [Next]_vars
  PROVE  RowsFollowAttempts'
<1> USE DEF IInv
<1>1. ASSUME NEW v \in Workers, Next, worker'[v] = worker[v], worker[v].pc # "idle",
             docs'[Doc(v)] = docs[Doc(v)]
      PROVE  /\ worker'[v].pc = "begin" => docs'[Doc(v)'] \in {"uploaded", "failed"}
             /\ worker'[v].pc \in AttemptedPCs => docs'[Doc(v)'] = "processing"
             /\ worker'[v].pc = "succeed" => docs'[Doc(v)'] = "ready"
  <2>1. Doc(v)' = Doc(v)
    BY <1>1, HeldDocumentsStay
  <2> QED
    BY <1>1, <2>1 DEF RowsFollowAttempts
<1>2. ASSUME NEW c \in Clients, StartRequest(c) \/ ContinueRequest(c) \/ Abort(c), Next,
             NEW v \in Workers, worker[v].pc # "idle"
      PROVE  worker'[v] = worker[v] /\ docs'[Doc(v)] = docs[Doc(v)]
  <2>1. Doc(v) \in Documents /\ docs[Doc(v)] # "absent"
    BY <1>2, BusyWorker DEF JobsHaveRows, Doc
  <2> QED
    BY <1>2, <2>1, RequestKeepsRows
<1>3. ASSUME NEW w \in Workers, NEW v \in Workers \ {w},
             Work(w) \/ ProviderError(w) \/ StoreError(w) \/ Crash(w),
             worker[v].pc # "idle"
      PROVE  worker'[v] = worker[v] /\ docs'[Doc(v)] = docs[Doc(v)]
  <2>1. Doc(v) \in Documents
    BY <1>3, BusyWorker
  <2>2. worker[w].pc # "idle" => Doc(v) # Doc(w)
    BY <1>3, OneAttempt
  <2> QED
    BY <1>3, <2>1, <2>2, WorkerKeepsOthers
<1>4. ASSUME NEW w \in Workers,
             Work(w) \/ ProviderError(w) \/ StoreError(w) \/ Crash(w), Next,
             worker'[w].pc \in AttemptedPCs \cup {"begin", "succeed"}
      PROVE  /\ worker'[w].pc = "begin" => docs'[Doc(w)'] \in {"uploaded", "failed"}
             /\ worker'[w].pc \in AttemptedPCs => docs'[Doc(w)'] = "processing"
             /\ worker'[w].pc = "succeed" => docs'[Doc(w)'] = "ready"
  <2>1. worker[w].pc # "idle" /\ worker'[w].job = worker[w].job
    BY <1>4, WorkerKeepsOthers DEF LoadedPCs, AttemptedPCs
  <2>2. Doc(w)' = Doc(w)
    BY <1>4, <2>1, HeldDocumentsStay
  <2> QED
    BY <1>4, <2>2, AttemptGoesOn
<1>5. ASSUME Next
      PROVE  RowsFollowAttempts'
  <2>1. ASSUME NEW v \in Workers, worker'[v].pc \in AttemptedPCs \cup {"begin", "succeed"}
        PROVE  /\ worker'[v].pc = "begin" => docs'[Doc(v)'] \in {"uploaded", "failed"}
               /\ worker'[v].pc \in AttemptedPCs => docs'[Doc(v)'] = "processing"
               /\ worker'[v].pc = "succeed" => docs'[Doc(v)'] = "ready"
    <3>1. ASSUME worker'[v] = worker[v]
          PROVE  worker[v].pc # "idle"
      BY <2>1, <3>1 DEF AttemptedPCs
    <3>2. ASSUME NEW c \in Clients, StartRequest(c) \/ ContinueRequest(c) \/ Abort(c)
          PROVE  worker' = worker
      BY <3>2, RequestEffect
    <3>3. CASE \E c \in Clients : StartRequest(c) \/ ContinueRequest(c) \/ Abort(c)
      BY <1>1, <1>2, <1>5, <3>1, <3>2, <3>3
    <3>4. ASSUME NEW w \in Workers,
                 Work(w) \/ ProviderError(w) \/ StoreError(w) \/ Crash(w), v # w
          PROVE  worker'[v] = worker[v]
      BY <3>4, WorkerKeepsOthers
    <3>5. CASE \E w \in Workers : Work(w) \/ ProviderError(w) \/ StoreError(w) \/ Crash(w)
      BY <1>1, <1>3, <1>4, <1>5, <2>1, <3>1, <3>4, <3>5
    <3> QED
      BY <1>5, <3>3, <3>5 DEF Next
  <2> QED
    BY <2>1 DEF RowsFollowAttempts, AttemptedPCs
<1>6. CASE UNCHANGED vars
  BY <1>6 DEF vars, RowsFollowAttempts, Doc
<1> QED
  BY <1>5, <1>6

\* The row of a ready document, and its chunks, are not touched any more.
LEMMA ReadyStays ==
  ASSUME IInv, NobodyDeletes, RowsFollowAttempts, Next,
         NEW d \in Documents, docs[d] = "ready"
  PROVE  docs'[d] = "ready" /\ (d \in vectors => d \in vectors')
<1> USE DEF IInv, TypeOK
<1>1. ASSUME NEW c \in Clients, StartRequest(c) \/ ContinueRequest(c) \/ Abort(c)
      PROVE  docs'[d] = "ready" /\ (d \in vectors => d \in vectors')
  BY <1>1, RequestKeepsRows
<1>2. ASSUME NEW w \in Workers, Work(w) \/ ProviderError(w) \/ StoreError(w) \/ Crash(w)
      PROVE  docs'[d] = "ready" /\ (d \in vectors => d \in vectors')
  <2>1. CASE docs'[d] = docs[d] /\ (d \in vectors' <=> d \in vectors)
    BY <2>1
  <2>2. CASE worker[w].pc # "idle" /\ d = Doc(w)
    <3>1. worker[w].pc \notin AttemptedPCs \cup {"begin"}
      BY <2>2 DEF RowsFollowAttempts
    <3>2. docs' = docs /\ vectors' = vectors
      BY <1>2, <3>1 DEF Work, PickJob, Claim, LoadDocument, SaveProcessing, ReadDocument,
         ClearVectors, UpsertVectors, SaveReady, SaveFailed, SettleJob, ProviderError,
         StoreError, Crash, Step, AttemptedPCs, stores
    <3> QED
      BY <3>2
  <2> QED
    BY <1>2, <2>1, <2>2, WorkerKeepsOthers
<1> QED
  BY <1>1, <1>2 DEF Next

\* A job succeeds when its document has just been saved as ready.
LEMMA SucceededJobsStep ==
  ASSUME IInv, NobodyDeletes, RowsFollowAttempts, SucceededJobsPublished, [Next]_vars
  PROVE  SucceededJobsPublished'
<1> USE DEF IInv, TypeOK
<1>1. ASSUME Next, NEW j \in Jobs, jobs[j].state = "succeeded", jobs'[j].doc = jobs[j].doc
      PROVE  docs'[jobs'[j].doc] = "ready"
  <2>1. jobs[j].doc \in Documents /\ docs[jobs[j].doc] = "ready"
    BY <1>1 DEF JobRows, SucceededJobsPublished
  <2> QED
    BY <1>1, <2>1, ReadyStays
<1>2. ASSUME NEW c \in Clients, StartRequest(c) \/ ContinueRequest(c) \/ Abort(c),
             NEW j \in Jobs, jobs'[j].state = "succeeded"
      PROVE  jobs'[j] = jobs[j]
  <2>1. CASE jobs[j].state = "absent"
    <3>1. PICK i, d : \/ jobs' = jobs
                      \/ jobs' = [jobs EXCEPT ![i] = [state |-> "queued", doc |-> d,
                                                     attempts |-> 0]]
      BY <1>2, RequestEffect
    <3> QED
      BY <1>2, <3>1
  <2>2. CASE jobs[j].state # "absent"
    BY <1>2, <2>2, RequestKeepsHeldJobs
  <2> QED
    BY <2>1, <2>2
<1>3. ASSUME NEW w \in Workers, Work(w) \/ ProviderError(w) \/ StoreError(w) \/ Crash(w),
             NEW j \in Jobs, jobs'[j].state = "succeeded", jobs[j].state # "succeeded"
      PROVE  docs'[jobs'[j].doc] = "ready"
  <2>1. CASE SettleJob(w)
    <3>1. worker[w].job \in Jobs
      BY <2>1, BusyWorker DEF SettleJob
    <3>2. j = worker[w].job /\ worker[w].pc = "succeed" /\ docs' = docs
      BY <1>3, <2>1, <3>1 DEF SettleJob, JobResult, stores
    <3>3. jobs'[j].doc = Doc(w)
      BY <1>3, <3>2, WorkerActivatesNothing DEF Doc
    <3> QED
      BY <3>2, <3>3 DEF RowsFollowAttempts
  <2>2. CASE Claim(w)
    <3>1. worker[w].job \in Jobs
      BY <2>2, BusyWorker DEF Claim, Step
    <3> QED
      BY <1>3, <2>2, <3>1 DEF Claim
  <2>3. CASE ~(SettleJob(w) \/ Claim(w))
    BY <1>3, <2>3 DEF Work, PickJob, LoadDocument, SaveProcessing, ReadDocument, ClearVectors,
       UpsertVectors, SaveReady, SaveFailed, ProviderError, StoreError, Crash
  <2> QED
    BY <2>1, <2>2, <2>3
<1>4. ASSUME Next, NEW j \in Jobs, jobs'[j].state = "succeeded"
      PROVE  docs'[jobs'[j].doc] = "ready"
  <2>1. CASE \E c \in Clients : StartRequest(c) \/ ContinueRequest(c) \/ Abort(c)
    BY <1>1, <1>2, <1>4, <2>1
  <2>2. CASE \E w \in Workers : Work(w) \/ ProviderError(w) \/ StoreError(w) \/ Crash(w)
    BY <1>1, <1>3, <1>4, <2>2, WorkerActivatesNothing
  <2> QED
    BY <1>4, <2>1, <2>2 DEF Next
<1>5. CASE UNCHANGED vars
  BY <1>5 DEF vars, SucceededJobsPublished
<1> QED
  BY <1>4, <1>5 DEF SucceededJobsPublished

\* What the proofs of this section rest on, step by step.
PublishedInv == NobodyDeletes /\ RowsFollowAttempts

LEMMA PublishedInvariance ==
  ASSUME "delete" \notin Operations
  PROVE  Spec /\ []RequestsTakeTurns => []PublishedInv
<1>1. Init => PublishedInv
  BY DEF Init, PublishedInv, NobodyDeletes, RowsFollowAttempts, IdleClient, IdleWorker,
         DeletionPCs, AttemptedPCs
<1>2. IInv /\ OneActiveJobPerDocument /\ PublishedInv /\ [Next]_vars => PublishedInv'
  BY NobodyDeletesStep, RowsFollowStep DEF PublishedInv, IInv
<1> QED
  BY <1>1, <1>2, Invariance, TurnsKeepOneJob, PTL DEF Spec

\* Where nobody deletes, a job row that says "succeeded" can be trusted: its
\* document is ready and no retry, reindex, stale copy, failed call or crash
\* takes that back (ProcessNext in worker/ingestion.go saves the document before
\* the job, and a ready document has no transition to "processing").
THEOREM SuccessPublishes ==
  ASSUME "delete" \notin Operations
  PROVE  Spec /\ []RequestsTakeTurns => []SucceededJobsPublished
<1>1. Init => SucceededJobsPublished
  BY DEF Init, SucceededJobsPublished, AbsentJob
<1>2. IInv /\ PublishedInv /\ SucceededJobsPublished /\ [Next]_vars => SucceededJobsPublished'
  BY SucceededJobsStep DEF PublishedInv
<1> QED
  BY <1>1, <1>2, Invariance, PublishedInvariance, PTL DEF Spec

\* The chunks are in the index when the document is about to be saved as ready:
\* between the upsert and that save only their own worker could drop them.
LEMMA IndexedAttemptsStep ==
  ASSUME "eof" \notin Outcomes, IInv, OneActiveJobPerDocument, NobodyDeletes,
         IndexedAttempts, [Next]_vars
  PROVE  IndexedAttempts'
<1> USE DEF IInv, TypeOK
<1>1. ASSUME Next, NEW v \in Workers, worker[v].pc = "ready",
             worker'[v].job = worker[v].job,
             Doc(v) \in vectors => Doc(v) \in vectors'
      PROVE  Doc(v)' \in vectors'
  <2>1. Doc(v)' = Doc(v)
    BY <1>1, HeldDocumentsStay
  <2> QED
    BY <1>1, <2>1 DEF IndexedAttempts
<1>2. ASSUME NEW c \in Clients, StartRequest(c) \/ ContinueRequest(c) \/ Abort(c)
      PROVE  worker' = worker /\ vectors' = vectors
  BY <1>2, RequestKeepsRows
<1>3. ASSUME NEW w \in Workers, Work(w) \/ ProviderError(w) \/ StoreError(w) \/ Crash(w),
             NEW v \in Workers \ {w}, worker[v].pc = "ready"
      PROVE  worker'[v] = worker[v] /\ (Doc(v) \in vectors => Doc(v) \in vectors')
  <2>1. Doc(v) \in Documents
    BY <1>3, BusyWorker
  <2>2. worker[w].pc # "idle" => Doc(v) # Doc(w)
    BY <1>3, OneAttempt
  <2> QED
    BY <1>3, <2>1, <2>2, WorkerKeepsOthers
<1>4. ASSUME NEW w \in Workers, Work(w) \/ ProviderError(w) \/ StoreError(w) \/ Crash(w),
             worker'[w].pc = "ready"
      PROVE  UpsertVectors(w) /\ worker[w].pc # "idle" /\ Doc(w)' \in vectors'
  <2>1. UpsertVectors(w)
    BY <1>4 DEF Work, PickJob, Claim, LoadDocument, SaveProcessing, ReadDocument,
       ClearVectors, SaveReady, SaveFailed, SettleJob, ProviderError, StoreError, Crash,
       Step, IdleWorker
  <2>2. worker[w].pc = "index" /\ worker'[w].job = worker[w].job /\ jobs' = jobs
        /\ vectors' = vectors \cup {Doc(w)}
    BY <2>1 DEF UpsertVectors, Step
  <2> QED
    BY <2>1, <2>2 DEF Doc
<1>5. ASSUME Next, NEW v \in Workers, worker'[v].pc = "ready"
      PROVE  Doc(v)' \in vectors'
  <2>1. CASE \E c \in Clients : StartRequest(c) \/ ContinueRequest(c) \/ Abort(c)
    BY <1>1, <1>2, <1>5, <2>1
  <2>2. ASSUME NEW w \in Workers,
               Work(w) \/ ProviderError(w) \/ StoreError(w) \/ Crash(w), v # w
        PROVE  worker'[v] = worker[v]
    BY <2>2, WorkerKeepsOthers
  <2>3. CASE \E w \in Workers : Work(w) \/ ProviderError(w) \/ StoreError(w) \/ Crash(w)
    BY <1>1, <1>3, <1>4, <1>5, <2>2, <2>3
  <2> QED
    BY <1>5, <2>1, <2>3 DEF Next
<1>6. CASE UNCHANGED vars
  BY <1>6 DEF vars, IndexedAttempts, Doc
<1> QED
  BY <1>5, <1>6 DEF IndexedAttempts

LEMMA IndexedInvariance ==
  ASSUME "delete" \notin Operations, "eof" \notin Outcomes
  PROVE  Spec /\ []RequestsTakeTurns => []IndexedAttempts
<1>1. Init => IndexedAttempts
  BY DEF Init, IndexedAttempts, IdleWorker
<1>2. IInv /\ OneActiveJobPerDocument /\ PublishedInv /\ IndexedAttempts /\ [Next]_vars
      => IndexedAttempts'
  BY IndexedAttemptsStep DEF PublishedInv
<1> QED
  BY <1>1, <1>2, Invariance, TurnsKeepOneJob, PublishedInvariance, PTL DEF Spec

\* A document turns ready when its chunks are in the index, and stays so.
LEMMA SearchableStep ==
  ASSUME IInv, NobodyDeletes, RowsFollowAttempts, IndexedAttempts,
         ReadyDocumentsAreSearchable, [Next]_vars
  PROVE  ReadyDocumentsAreSearchable'
<1> USE DEF IInv, TypeOK
<1>1. ASSUME NEW d \in Documents, Next, docs[d] = "ready"
      PROVE  d \in vectors'
  BY <1>1, ReadyStays DEF ReadyDocumentsAreSearchable
<1>2. ASSUME NEW d \in Documents, NEW c \in Clients,
             StartRequest(c) \/ ContinueRequest(c) \/ Abort(c), docs'[d] = "ready"
      PROVE  docs[d] = "ready"
  BY <1>2, RequestKeepsRows
<1>3. ASSUME NEW d \in Documents, NEW w \in Workers,
             Work(w) \/ ProviderError(w) \/ StoreError(w) \/ Crash(w),
             docs'[d] = "ready", docs[d] # "ready"
      PROVE  d \in vectors'
  <2>1. SaveReady(w)
    BY <1>3 DEF Work, PickJob, Claim, LoadDocument, SaveProcessing, ReadDocument,
       ClearVectors, UpsertVectors, SaveFailed, SettleJob, ProviderError, StoreError, Crash,
       stores
  <2>2. worker[w].pc = "ready" /\ docs' = [docs EXCEPT ![Doc(w)] = "ready"]
        /\ vectors' = vectors
    BY <2>1 DEF SaveReady, Step
  <2>3. d = Doc(w)
    BY <1>3, <2>2
  <2> QED
    BY <2>2, <2>3 DEF IndexedAttempts
<1>4. CASE Next
  BY <1>1, <1>2, <1>3, <1>4 DEF Next, ReadyDocumentsAreSearchable
<1>5. CASE UNCHANGED vars
  BY <1>5 DEF vars, ReadyDocumentsAreSearchable
<1> QED
  BY <1>4, <1>5

\* Where nobody deletes and no extractor passes a bare io.EOF on, a document
\* that is ready has its chunks in the index: the delete before the upsert in
\* ingestDocument never hits a document that another attempt has published, and
\* a failed or crashed attempt leaves no ready row behind.
THEOREM ReadySearchable ==
  ASSUME "delete" \notin Operations, "eof" \notin Outcomes
  PROVE  Spec /\ []RequestsTakeTurns => []ReadyDocumentsAreSearchable
<1>1. Init => ReadyDocumentsAreSearchable
  BY DEF Init, ReadyDocumentsAreSearchable
<1>2. IInv /\ PublishedInv /\ IndexedAttempts /\ ReadyDocumentsAreSearchable /\ [Next]_vars
      => ReadyDocumentsAreSearchable'
  BY SearchableStep DEF PublishedInv
<1> QED
  BY <1>1, <1>2, Invariance, PublishedInvariance, IndexedInvariance, PTL DEF Spec

-----------------------------------------------------------------------------
(***************************************************************************)
(* DocumentIngestion implements DocumentLife                               *)
(***************************************************************************)

\* A request uploads a new document or changes nothing of any.
LEMMA RequestLives ==
  ASSUME IInv, NobodyDeletes, NEW c \in Clients,
         StartRequest(c) \/ ContinueRequest(c) \/ Abort(c)
  PROVE  [Life!Next]_(Life!vars)
<1> USE DEF IInv, TypeOK
<1>1. vectors' = vectors
  BY RequestKeepsRows
<1>2. ASSUME NEW d \in Documents, docs[d] = "absent",
             docs' = [docs EXCEPT ![d] = "uploaded"]
      PROVE  Life!Next
  BY <1>1, <1>2 DEF Life!Next, Life!Upload, Life!Becomes
<1>3. CASE SaveNewDocument(c)
  <2>1. client[c].doc \in Documents /\ docs[client[c].doc] = "absent"
    BY <1>3 DEF SaveNewDocument, RequestsHaveDocuments, NewDocumentsAreOwn
  <2> QED
    BY <1>2, <1>3, <2>1 DEF SaveNewDocument
<1>4. ASSUME NEW d \in Documents, RegisterDocument(c, d)
      PROVE  Life!Next
  BY <1>2, <1>4 DEF RegisterDocument, Fresh
<1>5. CASE docs' = docs
  BY <1>1, <1>5 DEF Life!vars
<1>6. \/ SaveNewDocument(c)
      \/ \E d \in Documents : RegisterDocument(c, d)
      \/ docs' = docs
  BY DEF StartRequest, ContinueRequest, Abort, PutObject, RetryDocument, SourceListJobs,
     DeleteDocument, SaveJob, RetryListJobs, SourceGetDocument, DropVectors, DropObject,
     MarkDeleted, NobodyDeletes, DeletionPCs, stores
<1> QED
  BY <1>3, <1>4, <1>5, <1>6

\* A worker takes its document one step further, or changes nothing of any.
LEMMA WorkerLives ==
  ASSUME IInv, RowsFollowAttempts, IndexedAttempts, NEW w \in Workers,
         Work(w) \/ ProviderError(w) \/ StoreError(w) \/ Crash(w)
  PROVE  [Life!Next]_(Life!vars)
<1> USE DEF IInv, TypeOK
<1>1. worker[w].pc # "idle" => Doc(w) \in Documents
  BY BusyWorker
<1>2. CASE SaveProcessing(w)
  <2>1. Doc(w) \in Documents /\ docs[Doc(w)] \in {"uploaded", "failed"}
    BY <1>1, <1>2 DEF SaveProcessing, Step, RowsFollowAttempts
  <2> QED
    BY <1>2, <2>1 DEF SaveProcessing, Life!Next, Life!StartAttempt, Life!Becomes
<1>3. CASE ClearVectors(w) \/ UpsertVectors(w) \/ ProviderError(w)
  <2>1. Doc(w) \in Documents /\ docs[Doc(w)] = "processing"
    BY <1>1, <1>3
       DEF ClearVectors, UpsertVectors, ProviderError, Step, RowsFollowAttempts, AttemptedPCs
  <2>2. docs' = docs /\ vectors' \in {vectors, vectors \cup {Doc(w)}, vectors \ {Doc(w)}}
    BY <1>3 DEF ClearVectors, UpsertVectors, ProviderError
  <2> QED
    BY <2>1, <2>2 DEF Life!Next, Life!ChangeChunks, Life!vars
<1>4. CASE SaveReady(w)
  <2>1. Doc(w) \in Documents /\ docs[Doc(w)] = "processing" /\ Doc(w) \in vectors
    BY <1>1, <1>4 DEF SaveReady, Step, RowsFollowAttempts, AttemptedPCs, IndexedAttempts
  <2> QED
    BY <1>4, <2>1 DEF SaveReady, Life!Next, Life!Publish, Life!Becomes
<1>5. CASE SaveFailed(w)
  <2>1. Doc(w) \in Documents /\ docs[Doc(w)] = "processing"
    BY <1>1, <1>5 DEF SaveFailed, Step, RowsFollowAttempts, AttemptedPCs
  <2> QED
    BY <1>5, <2>1 DEF SaveFailed, Life!Next, Life!GiveUp, Life!Becomes
<1>6. CASE docs' = docs /\ vectors' = vectors
  BY <1>6 DEF Life!vars
<1>7. \/ SaveProcessing(w) \/ SaveReady(w) \/ SaveFailed(w)
      \/ ClearVectors(w) \/ UpsertVectors(w) \/ ProviderError(w)
      \/ docs' = docs /\ vectors' = vectors
  BY DEF Work, PickJob, Claim, LoadDocument, ReadDocument, SettleJob, StoreError, Crash, stores
<1> QED
  BY <1>2, <1>3, <1>4, <1>5, <1>6, <1>7

\* Where nobody deletes, no extractor passes a bare io.EOF on and requests about
\* a document take turns, documents and their chunks implement DocumentLife, under
\* every fault.  The code asks DocumentStatus.CanTransition (domain/document.go)
\* of copies only; that the rows which worker/ingestion.go overwrites with them
\* still allow the transition is what is proved here.
THEOREM LifeImplemented ==
  ASSUME "delete" \notin Operations, "eof" \notin Outcomes
  PROVE  Spec /\ []RequestsTakeTurns => ImplementsLife
<1>1. Init => Life!Init
  BY DEF Init, Life!Init
<1>2. IInv /\ PublishedInv /\ IndexedAttempts /\ [Next]_vars => [Life!Next]_(Life!vars)
  <2>1. CASE UNCHANGED vars
    BY <2>1 DEF vars, Life!vars
  <2> QED
    BY <2>1, RequestLives, WorkerLives DEF Next, PublishedInv
<1> QED
  BY <1>1, <1>2, Invariance, PublishedInvariance, IndexedInvariance, PTL
     DEF Spec, ImplementsLife, Life!Spec

-----------------------------------------------------------------------------
(***************************************************************************)
(* Nothing is left unsettled while only the vector index fails             *)
(***************************************************************************)

\* A document is uploaded once.
LEMMA UploadedOnce ==
  ASSUME IInv, Next, NEW d \in Documents, docs'[d] = "uploaded"
  PROVE  docs[d] \in {"absent", "uploaded"}
<1> USE DEF IInv, TypeOK
<1>1. ASSUME NEW c \in Clients, StartRequest(c) \/ ContinueRequest(c) \/ Abort(c)
      PROVE  docs[d] \in {"absent", "uploaded"}
  <2>1. CASE SaveNewDocument(c)
    <3>1. client[c].doc \in Documents /\ docs[client[c].doc] = "absent"
      BY <2>1 DEF SaveNewDocument, RequestsHaveDocuments, NewDocumentsAreOwn
    <3> QED
      BY <2>1, <3>1 DEF SaveNewDocument
  <2>2. CASE ~SaveNewDocument(c)
    BY <1>1, <2>2 DEF StartRequest, ContinueRequest, Abort, PutObject, RegisterDocument,
       RetryDocument, SourceListJobs, DeleteDocument, SaveJob, RetryListJobs,
       SourceGetDocument, DropVectors, DropObject, MarkDeleted, Fresh, stores
  <2> QED
    BY <2>1, <2>2
<1>2. ASSUME NEW w \in Workers, Work(w) \/ ProviderError(w) \/ StoreError(w) \/ Crash(w)
      PROVE  docs[d] = "uploaded"
  BY <1>2 DEF Work, PickJob, Claim, LoadDocument, SaveProcessing, ReadDocument, ClearVectors,
     UpsertVectors, SaveReady, SaveFailed, SettleJob, ProviderError, StoreError, Crash, stores
<1> QED
  BY <1>1, <1>2 DEF Next

\* A worker's own steps: a job it will settle is of a loaded document, and an
\* ingestion goes on until the row is final.
LEMMA AttemptSettles ==
  ASSUME "store" \notin Faults, "crash" \notin Faults, IInv, LoadedDocuments,
         NEW w \in Workers,
         Work(w) \/ ProviderError(w) \/ StoreError(w) \/ Crash(w)
  PROVE  /\ worker'[w].pc \in LoadedPCs => docs'[Doc(w)] # "uploaded"
         /\ worker[w].pc \in IngestingPCs /\ docs'[Doc(w)] = "processing"
              => worker'[w].pc \in IngestingPCs /\ worker'[w].job = worker[w].job
<1> USE DEF IInv, TypeOK
<1>1. ASSUME NEW pc, NEW next, Step(w, pc, next)
      PROVE  worker[w].pc = pc /\ worker'[w].pc = next /\ worker'[w].job = worker[w].job
  BY <1>1 DEF Step
<1>2. worker[w].pc # "idle" => Doc(w) \in Documents
  BY BusyWorker
<1>3. CASE PickJob(w) \/ SettleJob(w)
  <2>1. worker'[w].pc \in {"claim", "idle"} /\ worker[w].pc \notin IngestingPCs
    BY <1>3 DEF PickJob, SettleJob, IdleWorker, IngestingPCs
  <2> QED
    BY <2>1 DEF LoadedPCs
<1>4. CASE Claim(w)
  BY <1>1, <1>4 DEF Claim, LoadedPCs, IngestingPCs
<1>5. CASE LoadDocument(w)
  BY <1>1, <1>5 DEF LoadDocument, DocumentCanTransition, LoadedPCs, IngestingPCs, stores
<1>6. CASE SaveProcessing(w)
  BY <1>1, <1>2, <1>6 DEF SaveProcessing, IngestingPCs
<1>7. CASE ReadDocument(w) \/ ClearVectors(w) \/ UpsertVectors(w) \/ ProviderError(w)
  <2>1. /\ worker[w].pc \in LoadedPCs /\ docs' = docs
        /\ worker'[w].pc \in IngestingPCs /\ worker'[w].job = worker[w].job
    BY <1>1, <1>7 DEF ReadDocument, ClearVectors, UpsertVectors, ProviderError, LoadedPCs,
       IngestingPCs, stores
  <2> QED
    BY <2>1 DEF LoadedDocuments
<1>8. CASE SaveReady(w) \/ SaveFailed(w)
  <2>1. docs'[Doc(w)] \in {"ready", "failed"}
    BY <1>1, <1>2, <1>8 DEF SaveReady, SaveFailed
  <2> QED
    BY <2>1
<1>9. ~StoreError(w) /\ ~Crash(w)
  BY DEF StoreError, Crash
<1> QED
  BY <1>3, <1>4, <1>5, <1>6, <1>7, <1>8, <1>9 DEF Work

LEMMA LoadedStep ==
  ASSUME "store" \notin Faults, "crash" \notin Faults, IInv, LoadedDocuments, [Next]_vars
  PROVE  LoadedDocuments'
<1> USE DEF IInv
<1>1. ASSUME Next, NEW v \in Workers, worker'[v] = worker[v], worker[v].pc \in LoadedPCs
      PROVE  docs'[Doc(v)'] # "uploaded"
  <2>1. worker[v].pc # "idle"
    BY <1>1 DEF LoadedPCs
  <2>2. Doc(v) \in Documents /\ docs[Doc(v)] # "absent" /\ docs[Doc(v)] # "uploaded"
    BY <1>1, <2>1, BusyWorker DEF JobsHaveRows, LoadedDocuments, Doc
  <2>3. Doc(v)' = Doc(v)
    BY <1>1, <2>1, HeldDocumentsStay
  <2> QED
    BY <1>1, <2>2, <2>3, UploadedOnce
<1>2. ASSUME NEW w \in Workers, Next,
             Work(w) \/ ProviderError(w) \/ StoreError(w) \/ Crash(w),
             worker'[w].pc \in LoadedPCs
      PROVE  docs'[Doc(w)'] # "uploaded"
  <2>1. worker[w].pc # "idle" /\ worker'[w].job = worker[w].job
    BY <1>2, WorkerKeepsOthers
  <2>2. Doc(w)' = Doc(w)
    BY <1>2, <2>1, HeldDocumentsStay
  <2> QED
    BY <1>2, <2>2, AttemptSettles
<1>3. ASSUME Next, NEW v \in Workers, worker'[v].pc \in LoadedPCs
      PROVE  docs'[Doc(v)'] # "uploaded"
  <2>1. ASSUME NEW c \in Clients, StartRequest(c) \/ ContinueRequest(c) \/ Abort(c)
        PROVE  worker' = worker
    BY <2>1, RequestEffect
  <2>2. ASSUME NEW w \in Workers,
               Work(w) \/ ProviderError(w) \/ StoreError(w) \/ Crash(w), v # w
        PROVE  worker'[v] = worker[v]
    BY <2>2, WorkerKeepsOthers
  <2>3. worker'[v] = worker[v] \/ Work(v) \/ ProviderError(v) \/ StoreError(v) \/ Crash(v)
    BY <1>3, <2>1, <2>2 DEF Next
  <2> QED
    BY <1>1, <1>2, <1>3, <2>3
<1>4. CASE UNCHANGED vars
  BY <1>4 DEF vars, LoadedDocuments, Doc
<1> QED
  BY <1>3, <1>4 DEF LoadedDocuments

\* A document with an active job keeps one while it is uploaded.
LEMMA ActiveJobCarries ==
  ASSUME IInv, LoadedDocuments, Next, NEW d \in Documents, HasActiveJob(d),
         docs[d] = "uploaded"
  PROVE  HasActiveJob(d)'
<1> USE DEF IInv, TypeOK
<1>1. PICK j \in Jobs : jobs[j].doc = d /\ jobs[j].state \in ActiveJobStates
  BY DEF HasActiveJob
<1>2. ASSUME NEW c \in Clients, StartRequest(c) \/ ContinueRequest(c) \/ Abort(c)
      PROVE  HasActiveJob(d)'
  <2>1. jobs'[j] = jobs[j]
    BY <1>1, <1>2, RequestKeepsHeldJobs DEF ActiveJobStates
  <2> QED
    BY <1>1, <2>1 DEF HasActiveJob
<1>3. ASSUME NEW w \in Workers, Work(w) \/ ProviderError(w) \/ StoreError(w) \/ Crash(w)
      PROVE  HasActiveJob(d)'
  <2>1. CASE SettleJob(w)
    <3>1. worker[w].job \in Jobs /\ worker[w].pc \in LoadedPCs
      BY <2>1, BusyWorker DEF SettleJob, LoadedPCs
    <3>2. worker[w].job # j
      BY <1>1, <3>1 DEF LoadedDocuments, Doc
    <3>3. jobs'[j] = jobs[j]
      BY <2>1, <3>1, <3>2 DEF SettleJob
    <3> QED
      BY <1>1, <3>3 DEF HasActiveJob
  <2>2. CASE Claim(w)
    <3>1. worker[w].job \in Jobs
      BY <2>2, BusyWorker DEF Claim, Step
    <3>2. jobs'[j].doc = d /\ jobs'[j].state \in ActiveJobStates
      BY <1>1, <2>2, <3>1 DEF Claim, ActiveJobStates
    <3> QED
      BY <3>2 DEF HasActiveJob
  <2>3. CASE ~(SettleJob(w) \/ Claim(w))
    <3>1. jobs' = jobs
      BY <1>3, <2>3 DEF Work, PickJob, LoadDocument, SaveProcessing, ReadDocument,
         ClearVectors, UpsertVectors, SaveReady, SaveFailed, ProviderError, StoreError, Crash
    <3> QED
      BY <1>1, <3>1 DEF HasActiveJob
  <2> QED
    BY <2>1, <2>2, <2>3
<1> QED
  BY <1>2, <1>3 DEF Next

\* A request that holds the first job of a document saves it, and an upload
\* that registers its document comes to hold one.
Queueing(d) == \E c \in Clients : client[c].pc = "enqueue" /\ client[c].doc = d

LEMMA RequestCarries ==
  ASSUME "abort" \notin Faults, IInv, NEW c \in Clients,
         StartRequest(c) \/ ContinueRequest(c) \/ Abort(c), NEW d \in Documents,
         docs'[d] = "uploaded", docs[d] = "absent" \/ Queueing(d)
  PROVE  HasActiveJob(d)' \/ Queueing(d)'
<1> USE DEF IInv, TypeOK
<1>1. \A b \in Clients \ {c} : client'[b] = client[b]
  BY DEF StartRequest, ContinueRequest, Abort, PutObject, RegisterDocument, RetryDocument,
     SourceListJobs, DeleteDocument, SaveNewDocument, SaveJob, RetryListJobs,
     SourceGetDocument, DropVectors, DropObject, MarkDeleted, NewJob, Open, Return, Goto
<1>2. CASE docs[d] = "absent"
  <2>1. CASE \E e \in Documents : RegisterDocument(c, e)
    <3>1. PICK e \in Documents : RegisterDocument(c, e)
      BY <2>1
    <3>2. d = e
      BY <1>2, <3>1 DEF RegisterDocument
    <3>3. client'[c].pc = "enqueue" /\ client'[c].doc = d
      BY <3>1, <3>2 DEF RegisterDocument, NewJob
    <3> QED
      BY <3>3 DEF Queueing
  <2>2. CASE SaveNewDocument(c)
    <3>1. PICK e \in Documents : e = client[c].doc
      BY <2>2 DEF SaveNewDocument, RequestsHaveDocuments
    <3>2. docs' = [docs EXCEPT ![e] = "uploaded"] /\ NewJob(c, e)
      BY <2>2, <3>1 DEF SaveNewDocument
    <3>3. d = e
      BY <1>2, <3>2
    <3>4. client'[c].pc = "enqueue" /\ client'[c].doc = d
      BY <3>2, <3>3 DEF NewJob
    <3> QED
      BY <3>4 DEF Queueing
  <2>3. CASE MarkDeleted(c)
    BY <1>2, <2>3 DEF MarkDeleted
  <2>4. CASE ~(MarkDeleted(c) \/ SaveNewDocument(c) \/ \E e \in Documents : RegisterDocument(c, e))
    <3>1. docs' = docs
      BY <2>4 DEF StartRequest, ContinueRequest, Abort, PutObject, RetryDocument,
         SourceListJobs, DeleteDocument, SaveJob, RetryListJobs, SourceGetDocument,
         DropVectors, DropObject, stores
    <3> QED
      BY <1>2, <3>1
  <2> QED
    BY <2>1, <2>2, <2>3, <2>4
<1>3. CASE Queueing(d)
  <2>1. PICK b \in Clients : client[b].pc = "enqueue" /\ client[b].doc = d
    BY <1>3 DEF Queueing
  <2>2. CASE b # c
    <3>1. client'[b] = client[b]
      BY <1>1, <2>2
    <3> QED
      BY <2>1, <3>1 DEF Queueing
  <2>3. CASE b = c
    <3>1. SaveJob(c)
      BY <2>1, <2>3 DEF StartRequest, ContinueRequest, Abort, PutObject, RegisterDocument,
         RetryDocument, SourceListJobs, DeleteDocument, SaveNewDocument, RetryListJobs,
         SourceGetDocument, DropVectors, DropObject, MarkDeleted, Starts
    <3>2. PICK j \in Jobs : j = client[c].job
      BY <2>1, <2>3 DEF NewJobsAreOwn
    <3>3. jobs'[j].doc = d /\ jobs'[j].state = "queued"
      BY <2>1, <2>3, <3>1, <3>2 DEF SaveJob
    <3> QED
      BY <3>3 DEF HasActiveJob, ActiveJobStates
  <2> QED
    BY <2>2, <2>3
<1> QED
  BY <1>2, <1>3

LEMMA UploadedCarried ==
  ASSUME "abort" \notin Faults, IInv, LoadedDocuments, UnsettledDocumentsAreCarried, Next,
         NEW d \in Documents, docs'[d] = "uploaded"
  PROVE  HasActiveJob(d)' \/ Queueing(d)'
<1>1. docs[d] \in {"absent", "uploaded"}
  BY UploadedOnce
<1>2. docs[d] = "uploaded" => HasActiveJob(d) \/ Queueing(d)
  BY DEF UnsettledDocumentsAreCarried, Queueing
<1>3. CASE docs[d] = "uploaded" /\ HasActiveJob(d)
  BY <1>3, ActiveJobCarries
<1>4. ASSUME docs[d] = "absent" \/ Queueing(d)
      PROVE  HasActiveJob(d)' \/ Queueing(d)'
  <2>1. ASSUME NEW c \in Clients, StartRequest(c) \/ ContinueRequest(c) \/ Abort(c)
        PROVE  HasActiveJob(d)' \/ Queueing(d)'
    BY <1>4, <2>1, RequestCarries
  <2>2. ASSUME NEW w \in Workers, Work(w) \/ ProviderError(w) \/ StoreError(w) \/ Crash(w)
        PROVE  Queueing(d)'
    <3>1. client' = client
      BY <2>2, WorkerActivatesNothing
    <3>2. docs[d] # "absent"
      BY <2>2 DEF Work, PickJob, Claim, LoadDocument, SaveProcessing, ReadDocument,
         ClearVectors, UpsertVectors, SaveReady, SaveFailed, SettleJob, ProviderError,
         StoreError, Crash, stores, IInv, TypeOK
    <3> QED
      BY <1>4, <3>1, <3>2 DEF Queueing
  <2> QED
    BY <2>1, <2>2 DEF Next
<1> QED
  BY <1>1, <1>2, <1>3, <1>4

LEMMA ProcessingCarried ==
  ASSUME "store" \notin Faults, "crash" \notin Faults, IInv, LoadedDocuments,
         UnsettledDocumentsAreCarried, Next, NEW d \in Documents, docs'[d] = "processing"
  PROVE  Ingesting(d)'
<1> USE DEF IInv, TypeOK
<1>1. CASE docs[d] = "processing"
  <2>1. PICK v \in Workers : worker[v].pc \in IngestingPCs /\ Doc(v) = d
    BY <1>1 DEF UnsettledDocumentsAreCarried, Ingesting
  <2>2. worker[v].pc # "idle"
    BY <2>1 DEF IngestingPCs
  <2>3. ASSUME NEW c \in Clients, StartRequest(c) \/ ContinueRequest(c) \/ Abort(c)
        PROVE  worker' = worker
    BY <2>3, RequestEffect
  <2>4. ASSUME NEW w \in Workers,
               Work(w) \/ ProviderError(w) \/ StoreError(w) \/ Crash(w), v # w
        PROVE  worker'[v] = worker[v]
    BY <2>4, WorkerKeepsOthers
  <2>5. worker'[v].pc \in IngestingPCs /\ worker'[v].job = worker[v].job
    BY <2>1, <2>3, <2>4, AttemptSettles DEF Next
  <2>6. Doc(v)' = Doc(v)
    BY <2>2, <2>5, HeldDocumentsStay
  <2> QED
    BY <2>1, <2>5, <2>6 DEF Ingesting
<1>2. CASE docs[d] # "processing"
  <2>1. ASSUME NEW c \in Clients, StartRequest(c) \/ ContinueRequest(c) \/ Abort(c)
        PROVE  docs[d] = "processing"
    BY <2>1 DEF StartRequest, ContinueRequest, Abort, PutObject, RegisterDocument,
       RetryDocument, SourceListJobs, DeleteDocument, SaveNewDocument, SaveJob, RetryListJobs,
       SourceGetDocument, DropVectors, DropObject, MarkDeleted, stores
  <2>2. PICK w \in Workers : Work(w) \/ ProviderError(w) \/ StoreError(w) \/ Crash(w)
    BY <1>2, <2>1 DEF Next
  <2>3. SaveProcessing(w)
    BY <1>2, <2>2 DEF Work, PickJob, Claim, LoadDocument, ReadDocument, ClearVectors,
       UpsertVectors, SaveReady, SaveFailed, SettleJob, ProviderError, StoreError, Crash,
       stores
  <2>4. worker'[w].pc = "read" /\ worker'[w].job = worker[w].job /\ jobs' = jobs
    BY <2>3 DEF SaveProcessing, Step
  <2>5. Doc(w) = d
    BY <1>2, <2>3 DEF SaveProcessing
  <2>6. Doc(w)' = d
    BY <2>4, <2>5 DEF Doc
  <2> QED
    BY <2>4, <2>6 DEF Ingesting, IngestingPCs
<1> QED
  BY <1>1, <1>2

\* While no request is cut off, no store call fails and no process stops, every
\* document that is not settled is on somebody's hands, whatever requests run
\* at once: an uploaded one has a job or a request about to queue it, and a
\* processing one a worker that still ends it (registerDocument in
\* app/documents.go, processClaimedJob in worker/ingestion.go).
THEOREM UnsettledCarried ==
  ASSUME Faults \subseteq {"provider"}
  PROVE  Spec => []UnsettledDocumentsAreCarried
<1>1. "abort" \notin Faults /\ "store" \notin Faults /\ "crash" \notin Faults
  OBVIOUS
<1>2. Init => LoadedDocuments /\ UnsettledDocumentsAreCarried
  BY DEF Init, LoadedDocuments, UnsettledDocumentsAreCarried, IdleWorker, LoadedPCs
<1>3. IInv /\ LoadedDocuments /\ UnsettledDocumentsAreCarried /\ [Next]_vars
      => (LoadedDocuments /\ UnsettledDocumentsAreCarried)'
  <2> SUFFICES ASSUME IInv, LoadedDocuments, UnsettledDocumentsAreCarried, [Next]_vars
               PROVE  (LoadedDocuments /\ UnsettledDocumentsAreCarried)'
    OBVIOUS
  <2>1. LoadedDocuments'
    BY <1>1, LoadedStep
  <2>2. ASSUME Next
        PROVE  UnsettledDocumentsAreCarried'
    <3>1. ASSUME NEW d \in Documents, docs'[d] = "uploaded"
          PROVE  HasActiveJob(d)' \/ Queueing(d)'
      BY <1>1, <2>2, <3>1, UploadedCarried
    <3>2. ASSUME NEW d \in Documents, docs'[d] = "processing"
          PROVE  Ingesting(d)'
      BY <1>1, <2>2, <3>2, ProcessingCarried
    <3> QED
      BY <3>1, <3>2 DEF UnsettledDocumentsAreCarried, Queueing
  <2>3. ASSUME UNCHANGED vars
        PROVE  UnsettledDocumentsAreCarried'
    BY <2>3 DEF vars, UnsettledDocumentsAreCarried, HasActiveJob, Ingesting, Doc
  <2> QED
    BY <2>1, <2>2, <2>3
<1> QED
  BY <1>2, <1>3, Invariance, PTL DEF Spec

=============================================================================
