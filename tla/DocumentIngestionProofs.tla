---------------------- MODULE DocumentIngestionProofs ----------------------
(***************************************************************************)
(* Proofs about DocumentIngestion for every number of documents, workers,  *)
(* requests and jobs, and for every choice of operations and faults.       *)
(***************************************************************************)
EXTENDS DocumentIngestion, TLAPS

-----------------------------------------------------------------------------
(***************************************************************************)
(* The inductive invariant.  TypeOK alone is not inductive (a worker could *)
(* hold a job without a document and index it), and neither is             *)
(* HandedOutOnce (two requests could save the same job, the second one     *)
(* over a row that a worker has claimed meanwhile).                        *)
(***************************************************************************)

\* A busy worker has a job to itself: one that is queued while it is claiming
\* it, and running from then on.
HeldJobs ==
    /\ \A w \in Workers : worker[w].pc = "idle" <=> worker[w].job = NoJob
    /\ \A w \in Workers :
         worker[w].job # NoJob =>
            jobs[worker[w].job].state =
              IF worker[w].pc = "claim" THEN "queued" ELSE "running"
    /\ \A v, w \in Workers :
         worker[v].job = worker[w].job /\ worker[v].job # NoJob => v = w

\* A saved job has a document and an old identifier, and was claimed once
\* unless it is still queued.
JobRows ==
    \A j \in Jobs :
        /\ jobs[j].attempts =
             IF jobs[j].state \in {"absent", "queued"} THEN 0 ELSE 1
        /\ jobs[j].state # "absent" => jobs[j].doc \in Documents /\ j < nextJob

\* A job is queued after its document was saved.
JobsHaveRows ==
    \A j \in Jobs : jobs[j].state # "absent" => docs[jobs[j].doc] # "absent"

\* A request in flight has a document.
RequestsHaveDocuments ==
    \A c \in Clients : client[c].pc # "idle" => client[c].doc \in Documents

\* The job a request is about to save is its own and is not saved yet.
NewJobsAreOwn ==
    /\ \A c \in Clients :
         client[c].pc = "enqueue" =>
            /\ client[c].job \in Jobs
            /\ client[c].job < nextJob
            /\ jobs[client[c].job].state = "absent"
    /\ \A b, c \in Clients :
         /\ client[b].pc = "enqueue"
         /\ client[c].pc = "enqueue"
         /\ client[b].job = client[c].job
         => b = c

\* A request is about to register its document exactly if the document has no
\* row yet, and it is the only request with that document then.
NewDocumentsAreOwn ==
    /\ \A c \in Clients :
         client[c].pc # "idle" =>
            (client[c].pc = "register" <=> docs[client[c].doc] = "absent")
    /\ \A b, c \in Clients :
         /\ client[b].pc = "register"
         /\ client[c].pc = "register"
         /\ client[b].doc = client[c].doc
         => b = c

IInv ==
    /\ TypeOK
    /\ HeldJobs
    /\ JobRows
    /\ JobsHaveRows
    /\ RequestsHaveDocuments
    /\ NewJobsAreOwn
    /\ NewDocumentsAreOwn

\* What a worker that is not idle holds.
LEMMA BusyWorker ==
  ASSUME TypeOK, HeldJobs, JobRows, NEW w \in Workers, worker[w].pc # "idle"
  PROVE  /\ worker[w].job \in Jobs
         /\ jobs[worker[w].job].state =
              IF worker[w].pc = "claim" THEN "queued" ELSE "running"
         /\ Doc(w) \in Documents
  BY DEF TypeOK, HeldJobs, JobRows, Doc

-----------------------------------------------------------------------------
(***************************************************************************)
(* Type correctness                                                        *)
(***************************************************************************)

\* Every step of a request keeps the types.
LEMMA RequestTypeOK ==
  ASSUME IInv, NEW c \in Clients,
         StartRequest(c) \/ ContinueRequest(c) \/ Abort(c)
  PROVE  TypeOK'
<1> USE ConstantsAssumption
<1> USE DEF IInv, TypeOK, stores, ClientPCs, NoJob, Return, IdleClient, Goto,
            NewJob, Starts, Open
<1>1. ASSUME NEW d \in Documents, PutObject(c, d)
      PROVE  TypeOK'
  BY <1>1 DEF PutObject
<1>2. ASSUME NEW d \in Documents, RegisterDocument(c, d)
      PROVE  TypeOK'
  BY <1>2 DEF RegisterDocument, DocumentStatuses, Jobs
<1>3. ASSUME NEW d \in Documents, RetryDocument(c, d)
      PROVE  TypeOK'
  BY <1>3 DEF RetryDocument
<1>4. ASSUME NEW d \in Documents, NEW op \in {"reindex", "retryFailed"},
             SourceListJobs(c, d, op)
      PROVE  TypeOK'
  BY <1>4 DEF SourceListJobs
<1>5. ASSUME NEW d \in Documents, DeleteDocument(c, d)
      PROVE  TypeOK'
  BY <1>5 DEF DeleteDocument
<1>6. CASE SaveNewDocument(c)
  <2>1. client[c].doc \in Documents
    BY <1>6 DEF SaveNewDocument, RequestsHaveDocuments
  <2>2. docs' \in [Documents -> DocumentStatuses \cup {"absent"}]
    BY <1>6, <2>1 DEF SaveNewDocument, DocumentStatuses
  <2>3. nextJob \in Jobs /\ nextJob' \in 1 .. MaxJobs + 1
    BY <1>6 DEF SaveNewDocument, Jobs
  <2> QED
    BY <1>6, <2>1, <2>2, <2>3 DEF SaveNewDocument
<1>7. CASE SaveJob(c)
  BY <1>7 DEF SaveJob, JobStates
<1>8. CASE RetryListJobs(c)
  BY <1>8 DEF RetryListJobs, Jobs
<1>9. CASE SourceGetDocument(c)
  BY <1>9 DEF SourceGetDocument, Jobs
<1>10. CASE DropVectors(c)
  BY <1>10 DEF DropVectors
<1>11. CASE DropObject(c)
  BY <1>11 DEF DropObject
<1>12. CASE MarkDeleted(c)
  BY <1>12 DEF MarkDeleted, DocumentStatuses
<1>13. CASE Abort(c)
  BY <1>13 DEF Abort
<1> QED
  BY <1>1, <1>2, <1>3, <1>4, <1>5, <1>6, <1>7, <1>8, <1>9, <1>10, <1>11,
     <1>12, <1>13
  DEF StartRequest, ContinueRequest

\* The result a worker gives its job.
LEMMA JobResultIsTerminal ==
  ASSUME NEW pc \in {"succeed", "fail", "cancel"}
  PROVE  JobResult(pc) \in TerminalJobStates
  BY DEF JobResult, TerminalJobStates

\* Every step of a worker keeps the types.
LEMMA WorkerTypeOK ==
  ASSUME IInv, NEW w \in Workers,
         Work(w) \/ ProviderError(w) \/ StoreError(w) \/ Crash(w)
  PROVE  TypeOK'
<1> USE DEF IInv, TypeOK, stores, WorkerPCs, NoJob, Step, IdleWorker
<1>0. worker[w].pc # "idle" => Doc(w) \in Documents
  BY BusyWorker
<1>1. CASE PickJob(w) \/ Claim(w)
  <2>1. CASE PickJob(w)
    BY <2>1 DEF PickJob
  <2>2. CASE Claim(w)
    <3>1. worker[w].job \in Jobs
      BY <2>2, BusyWorker DEF Claim
    <3>2. jobs' \in [Jobs -> [state : JobStates \cup {"absent"},
                              doc : Documents \cup {NoDocument},
                              attempts : Nat]]
      BY <2>2, <3>1 DEF Claim, JobStates
    <3>3. worker' = [worker EXCEPT ![w].pc = "load"]
      BY <2>2 DEF Claim
    <3>4. worker' \in [Workers -> [pc : WorkerPCs, job : Jobs \cup {NoJob}]]
      BY <3>3
    <3> QED
      BY <2>2, <3>2, <3>4 DEF Claim
  <2> QED
    BY <1>1, <2>1, <2>2
<1>2. CASE LoadDocument(w)
  <2>1. PICK pc \in {"cancel", "begin", "fail"} :
          worker' = [worker EXCEPT ![w].pc = pc]
    BY <1>2 DEF LoadDocument
  <2>2. worker' \in [Workers -> [pc : WorkerPCs, job : Jobs \cup {NoJob}]]
    BY <2>1
  <2>3. UNCHANGED <<docs, objects, vectors, jobs, nextJob, client>>
    BY <1>2 DEF LoadDocument
  <2> HIDE DEF WorkerPCs, Step
  <2> QED
    BY <2>2, <2>3
<1>3. CASE SaveProcessing(w)
  BY <1>3 DEF SaveProcessing, DocumentStatuses
<1>4. CASE ReadDocument(w)
  BY <1>4 DEF ReadDocument
<1>5. CASE ClearVectors(w)
  BY <1>5 DEF ClearVectors
<1>6. CASE UpsertVectors(w)
  BY <1>6, <1>0 DEF UpsertVectors
<1>7. CASE SaveReady(w)
  BY <1>7 DEF SaveReady, DocumentStatuses
<1>8. CASE SaveFailed(w)
  BY <1>8 DEF SaveFailed, DocumentStatuses
<1>9. CASE SettleJob(w)
  <2>1. JobResult(worker[w].pc) \in JobStates
    BY <1>9, JobResultIsTerminal DEF SettleJob, TerminalJobStates, JobStates
  <2>2. worker[w].job \in Jobs
    BY <1>9, BusyWorker DEF SettleJob
  <2>3. jobs' = [jobs EXCEPT ![worker[w].job] =
                   [jobs[worker[w].job] EXCEPT !.state = JobResult(worker[w].pc)]]
    BY <1>9 DEF SettleJob
  <2>4. jobs' \in [Jobs -> [state : JobStates \cup {"absent"},
                            doc : Documents \cup {NoDocument},
                            attempts : Nat]]
    <3> DEFINE J == [state : JobStates \cup {"absent"},
                     doc : Documents \cup {NoDocument}, attempts : Nat]
    <3>1. [jobs[worker[w].job] EXCEPT !.state = JobResult(worker[w].pc)] \in J
      BY <2>1, <2>2
    <3>2. jobs \in [Jobs -> J]
      OBVIOUS
    <3> HIDE DEF J
    <3>3. jobs' \in [Jobs -> J]
      BY <2>2, <2>3, <3>1, <3>2
    <3> QED
      BY <3>3 DEF J
  <2>5. worker' \in [Workers -> [pc : WorkerPCs, job : Jobs \cup {NoJob}]]
    BY <1>9 DEF SettleJob
  <2> QED
    BY <1>9, <2>4, <2>5 DEF SettleJob
<1>10. CASE ProviderError(w)
  <2>1. vectors' \in SUBSET Documents
    BY <1>10, <1>0 DEF ProviderError
  <2>2. worker' \in [Workers -> [pc : WorkerPCs, job : Jobs \cup {NoJob}]]
    <3>1. worker' = [worker EXCEPT ![w].pc = "failed"]
      BY <1>10 DEF ProviderError
    <3> QED
      BY <3>1
  <2>3. UNCHANGED <<docs, objects, jobs, nextJob, client>>
    BY <1>10 DEF ProviderError
  <2> HIDE DEF WorkerPCs, Step
  <2> QED
    BY <2>1, <2>2, <2>3
<1>11. CASE StoreError(w)
  <2>1. UNCHANGED <<docs, objects, vectors, jobs, nextJob, client>>
    BY <1>11 DEF StoreError
  <2>2. worker' \in [Workers -> [pc : WorkerPCs, job : Jobs \cup {NoJob}]]
    BY <1>11 DEF StoreError
  <2> HIDE DEF WorkerPCs, Step
  <2> QED
    BY <2>1, <2>2
<1>12. CASE Crash(w)
  BY <1>12 DEF Crash
<1> QED
  BY <1>1, <1>2, <1>3, <1>4, <1>5, <1>6, <1>7, <1>8, <1>9, <1>10, <1>11, <1>12
  DEF Work

-----------------------------------------------------------------------------
(***************************************************************************)
(* The inductive invariant is preserved                                    *)
(***************************************************************************)

\* What the rest of the invariant sees of a request step: only SaveJob writes
\* a job row, the request's own new one.
LEMMA RequestEffect ==
  ASSUME IInv, NEW c \in Clients,
         StartRequest(c) \/ ContinueRequest(c) \/ Abort(c)
  PROVE  /\ worker' = worker
         /\ nextJob' \in {nextJob, nextJob + 1}
         /\ \/ jobs' = jobs
            \/ /\ client[c].pc = "enqueue"
               /\ jobs' = [jobs EXCEPT ![client[c].job] =
                             [state |-> "queued", doc |-> client[c].doc,
                              attempts |-> 0]]
<1>1. CASE StartRequest(c)
  BY <1>1 DEF StartRequest, PutObject, RegisterDocument, RetryDocument,
              SourceListJobs, DeleteDocument, NewJob
<1>2. CASE ContinueRequest(c)
  BY <1>2 DEF ContinueRequest, SaveNewDocument, SaveJob, RetryListJobs,
              SourceGetDocument, DropVectors, DropObject, MarkDeleted, NewJob
<1>3. CASE Abort(c)
  BY <1>3 DEF Abort
<1> QED
  BY <1>1, <1>2, <1>3

\* Requests leave the jobs that workers hold, and the saved rows, as they are.
LEMMA RequestKeepsJobs ==
  ASSUME IInv, NEW c \in Clients,
         StartRequest(c) \/ ContinueRequest(c) \/ Abort(c)
  PROVE  HeldJobs' /\ JobRows'
<1> USE DEF IInv, TypeOK
<1>1. CASE jobs' = jobs
  <2>1. worker' = worker /\ nextJob' \in {nextJob, nextJob + 1}
    BY RequestEffect
  <2>2. HeldJobs'
    BY <1>1, <2>1 DEF HeldJobs
  <2>3. JobRows'
    BY <1>1, <2>1 DEF JobRows, Jobs
  <2> QED
    BY <2>2, <2>3
<1>2. CASE /\ client[c].pc = "enqueue"
           /\ jobs' = [jobs EXCEPT ![client[c].job] =
                         [state |-> "queued", doc |-> client[c].doc,
                          attempts |-> 0]]
  <2>1. /\ client[c].job \in Jobs
        /\ client[c].job < nextJob
        /\ jobs[client[c].job].state = "absent"
        /\ client[c].doc \in Documents
    BY <1>2 DEF NewJobsAreOwn, RequestsHaveDocuments
  <2>2. worker' = worker /\ nextJob' \in {nextJob, nextJob + 1}
    BY RequestEffect
  <2>3. HeldJobs'
    <3>1. ASSUME NEW w \in Workers, worker[w].job # NoJob
          PROVE  jobs'[worker[w].job] = jobs[worker[w].job]
      BY <1>2, <2>1, <3>1 DEF HeldJobs, NoJob
    <3> QED
      BY <2>2, <3>1 DEF HeldJobs
  <2>4. JobRows'
    BY <1>2, <2>1, <2>2 DEF JobRows, Jobs
  <2> QED
    BY <2>3, <2>4
<1> QED
  BY <1>1, <1>2, RequestEffect

\* A worker step changes at most the state and the count of the one job it
\* claims or holds, and leaves requests alone.
LEMMA WorkerKeepsJobs ==
  ASSUME IInv, NEW w \in Workers,
         Work(w) \/ ProviderError(w) \/ StoreError(w) \/ Crash(w)
  PROVE  HeldJobs' /\ JobRows'
<1> USE DEF IInv, TypeOK
<1>0. CASE PickJob(w)
  <2>1. PICK j \in Jobs :
          /\ jobs[j].state = "queued"
          /\ \A v \in Workers : ~(worker[v].pc = "claim" /\ worker[v].job = j)
          /\ worker' = [worker EXCEPT ![w] = [pc |-> "claim", job |-> j]]
    BY <1>0 DEF PickJob, OldestQueued, Locked
  <2>2. \A v \in Workers : worker[v].job # j
    BY <2>1 DEF HeldJobs, Jobs, NoJob
  <2>3. jobs' = jobs /\ nextJob' = nextJob
    BY <1>0 DEF PickJob
  <2>4. HeldJobs'
    BY <2>1, <2>2, <2>3 DEF HeldJobs, Jobs, NoJob
  <2>5. JobRows'
    BY <2>3 DEF JobRows
  <2> QED
    BY <2>4, <2>5
<1>1. CASE Claim(w)
  <2> DEFINE j == worker[w].job
  <2>1. /\ j \in Jobs
        /\ jobs[j].state = "queued"
        /\ worker[w].pc = "claim"
    BY <1>1, BusyWorker DEF Claim, Step
  <2>2. /\ worker' = [worker EXCEPT ![w].pc = "load"]
        /\ jobs' = [jobs EXCEPT ![j].state = "running", ![j].attempts = @ + 1]
        /\ nextJob' = nextJob
    BY <1>1 DEF Claim, Step
  <2>3. /\ jobs'[j].state = "running"
        /\ jobs'[j].attempts = 1
        /\ jobs'[j].doc = jobs[j].doc
        /\ \A i \in Jobs \ {j} : jobs'[i] = jobs[i]
    BY <2>1, <2>2 DEF JobRows
  <2>4. /\ worker'[w].pc = "load" /\ worker'[w].job = j
        /\ \A v \in Workers \ {w} : worker'[v] = worker[v] /\ worker[v].job # j
    BY <2>1, <2>2 DEF HeldJobs, Jobs, NoJob
  <2>5. HeldJobs'
    <3>1. \A v \in Workers : worker'[v].pc = "idle" <=> worker'[v].job = NoJob
      BY <2>1, <2>4 DEF HeldJobs, Jobs, NoJob
    <3>2. ASSUME NEW v \in Workers, worker'[v].job # NoJob
          PROVE  jobs'[worker'[v].job].state =
                   IF worker'[v].pc = "claim" THEN "queued" ELSE "running"
      <4>1. CASE v = w
        BY <2>3, <2>4, <4>1
      <4>2. CASE v # w
        <5>1. worker'[v] = worker[v] /\ worker[v].job \in Jobs \ {j}
          BY <2>4, <3>2, <4>2
        <5> QED
          BY <2>3, <3>2, <5>1 DEF HeldJobs
      <4> QED
        BY <4>1, <4>2
    <3>3. \A u, v \in Workers :
            worker'[u].job = worker'[v].job /\ worker'[u].job # NoJob => u = v
      BY <2>4 DEF HeldJobs
    <3> QED
      BY <3>1, <3>2, <3>3 DEF HeldJobs
  <2>6. JobRows'
    BY <2>1, <2>2, <2>3 DEF JobRows
  <2> QED
    BY <2>5, <2>6
<1>2. CASE SettleJob(w)
  <2>1. /\ worker[w].job \in Jobs
        /\ JobResult(worker[w].pc) \in TerminalJobStates
    BY <1>2, BusyWorker, JobResultIsTerminal DEF SettleJob
  <2>2. /\ jobs'[worker[w].job].state = JobResult(worker[w].pc)
        /\ jobs'[worker[w].job].attempts = jobs[worker[w].job].attempts
        /\ jobs'[worker[w].job].doc = jobs[worker[w].job].doc
        /\ \A i \in Jobs \ {worker[w].job} : jobs'[i] = jobs[i]
    BY <1>2, <2>1 DEF SettleJob
  <2>3. /\ jobs[worker[w].job].state = "running"
        /\ \A v \in Workers \ {w} : worker[v].job # worker[w].job
    BY <1>2, <2>1, BusyWorker DEF HeldJobs, Jobs, NoJob, SettleJob
  <2>4. HeldJobs'
    BY <1>2, <2>1, <2>2, <2>3 DEF HeldJobs, SettleJob, IdleWorker, NoJob
  <2>5. JobRows'
    BY <1>2, <2>1, <2>2, <2>3 DEF JobRows, SettleJob, TerminalJobStates
  <2> QED
    BY <2>4, <2>5
<1>3. ASSUME jobs' = jobs, nextJob' = nextJob,
             \/ worker' = [worker EXCEPT ![w] = IdleWorker]
             \/ /\ worker[w].pc \notin {"idle", "claim"}
                /\ \E pc \in WorkerPCs \ {"idle", "claim"} :
                      worker' = [worker EXCEPT ![w].pc = pc]
      PROVE  HeldJobs' /\ JobRows'
  <2>1. JobRows'
    BY <1>3 DEF JobRows
  <2>2. CASE worker' = [worker EXCEPT ![w] = IdleWorker]
    BY <1>3, <2>1, <2>2 DEF HeldJobs, IdleWorker, NoJob
  <2>3. CASE /\ worker[w].pc \notin {"idle", "claim"}
             /\ \E pc \in WorkerPCs \ {"idle", "claim"} :
                   worker' = [worker EXCEPT ![w].pc = pc]
    <3>1. /\ worker[w].pc \notin {"idle", "claim"}
          /\ worker'[w].pc \notin {"idle", "claim"}
          /\ \A v \in Workers : worker'[v].job = worker[v].job
          /\ \A v \in Workers \ {w} : worker'[v] = worker[v]
      BY <2>3
    <3> QED
      BY <1>3, <2>1, <3>1 DEF HeldJobs
  <2> QED
    BY <1>3, <2>2, <2>3
<1>4. CASE LoadDocument(w) \/ SaveProcessing(w) \/ ReadDocument(w)
           \/ ClearVectors(w) \/ UpsertVectors(w) \/ SaveReady(w) \/ SaveFailed(w)
  BY <1>3, <1>4 DEF LoadDocument, SaveProcessing, ReadDocument, ClearVectors,
        UpsertVectors, SaveReady, SaveFailed, Step, WorkerPCs
<1>5. CASE ProviderError(w) \/ StoreError(w) \/ Crash(w)
  <2>1. CASE ProviderError(w)
    BY <1>3, <2>1 DEF ProviderError, Step, WorkerPCs
  <2>2. CASE StoreError(w)
    <3>1. \/ worker' = [worker EXCEPT ![w] = IdleWorker]
          \/ /\ worker[w].pc \notin {"idle", "claim"}
             /\ worker' = [worker EXCEPT ![w].pc = "fail"]
      BY <2>2 DEF StoreError, Step
    <3> QED
      BY <1>3, <2>2, <3>1 DEF StoreError, WorkerPCs
  <2>3. CASE Crash(w)
    BY <1>3, <2>3 DEF Crash
  <2> QED
    BY <1>5, <2>1, <2>2, <2>3
<1> QED
  BY <1>0, <1>1, <1>2, <1>4, <1>5 DEF Work

\* A request step touches no other request's new job or new document.
LEMMA RequestKeepsRequests ==
  ASSUME IInv, NEW c \in Clients,
         StartRequest(c) \/ ContinueRequest(c) \/ Abort(c)
  PROVE  RequestsHaveDocuments' /\ NewJobsAreOwn' /\ NewDocumentsAreOwn'
<1> DEFINE OthersKeepJobs ==
             \A b \in Clients \ {c} : client[b].pc = "enqueue" =>
                jobs'[client[b].job] = jobs[client[b].job]
           OthersKeepRows ==
             \A b \in Clients \ {c} : client[b].pc # "idle" =>
                (docs'[client[b].doc] = "absent" <=> docs[client[b].doc] = "absent")
           Kept == RequestsHaveDocuments' /\ NewJobsAreOwn' /\ NewDocumentsAreOwn'
<1> USE ConstantsAssumption
<1> USE DEF IInv, TypeOK
\* The request returns.
<1>1. ASSUME Return(c), OthersKeepJobs, OthersKeepRows, nextJob' = nextJob
      PROVE  Kept
  BY <1>1 DEF Return, IdleClient, RequestsHaveDocuments, NewJobsAreOwn,
              NewDocumentsAreOwn
\* The request is given a new job for a document that has a row.
<1>2. ASSUME NEW d \in Documents, NewJob(c, d), jobs' = jobs,
             docs'[d] # "absent", OthersKeepRows
      PROVE  Kept
  <2>1. /\ nextJob \in Jobs
        /\ nextJob' = nextJob + 1
        /\ jobs[nextJob].state = "absent"
        /\ \A b \in Clients \ {c} : client'[b] = client[b]
        /\ client'[c] = [pc |-> "enqueue", doc |-> d, job |-> nextJob]
    BY <1>2 DEF NewJob, JobRows, Jobs
  <2>2. RequestsHaveDocuments'
    BY <2>1 DEF RequestsHaveDocuments
  <2>3. NewJobsAreOwn'
    <3>1. \A b \in Clients \ {c} :
            client[b].pc = "enqueue" => client[b].job < nextJob
      BY DEF NewJobsAreOwn
    <3>2. nextJob < nextJob'
      BY <2>1 DEF Jobs
    <3> QED
      BY <1>2, <2>1, <3>1, <3>2 DEF NewJobsAreOwn, Jobs
  <2>4. NewDocumentsAreOwn'
    BY <1>2, <2>1 DEF NewDocumentsAreOwn
  <2> QED
    BY <2>2, <2>3, <2>4
\* The request opens on a document and has written no row yet.
<1>3. ASSUME NEW d \in Documents, NEW pc \in ClientPCs \ {"idle", "enqueue"},
             Open(c, pc, d),
             IF pc = "register" THEN Fresh(d) ELSE docs[d] # "absent",
             UNCHANGED <<docs, jobs, nextJob>>
      PROVE  Kept
  BY <1>3 DEF RequestsHaveDocuments, NewJobsAreOwn, NewDocumentsAreOwn, Fresh,
              ClientPCs, Open
<1>4. CASE StartRequest(c)
  <2>1. PICK d \in Documents :
          \/ PutObject(c, d)
          \/ RegisterDocument(c, d)
          \/ RetryDocument(c, d)
          \/ SourceListJobs(c, d, "reindex")
          \/ SourceListJobs(c, d, "retryFailed")
          \/ DeleteDocument(c, d)
    BY <1>4 DEF StartRequest
  <2>2. CASE PutObject(c, d)
    BY <1>3, <2>2 DEF PutObject, ClientPCs
  <2>3. CASE RegisterDocument(c, d)
    BY <1>2, <2>3 DEF RegisterDocument, Fresh
  <2>4. CASE RetryDocument(c, d)
    BY <1>3, <2>4 DEF RetryDocument, ClientPCs, stores
  <2>5. CASE SourceListJobs(c, d, "reindex")
    BY <1>3, <2>5 DEF SourceListJobs, ClientPCs, stores
  <2>6. CASE SourceListJobs(c, d, "retryFailed")
    BY <1>3, <2>6 DEF SourceListJobs, ClientPCs, stores
  <2>7. CASE DeleteDocument(c, d)
    BY <1>3, <2>7 DEF DeleteDocument, ClientPCs, stores
  <2> QED
    BY <2>1, <2>2, <2>3, <2>4, <2>5, <2>6, <2>7
<1>5. CASE SaveNewDocument(c)
  <2>1. client[c].doc \in Documents
    BY <1>5 DEF SaveNewDocument, RequestsHaveDocuments
  <2>2. \A b \in Clients \ {c} :
          client[b].pc # "idle" => client[b].doc # client[c].doc
    BY <1>5 DEF SaveNewDocument, NewDocumentsAreOwn
  <2> QED
    BY <1>2, <1>5, <2>1, <2>2 DEF SaveNewDocument
<1>6. CASE SaveJob(c)
  <2>1. \A b \in Clients \ {c} :
          client[b].pc = "enqueue" => client[b].job # client[c].job
    BY <1>6 DEF SaveJob, NewJobsAreOwn
  <2>2. OthersKeepJobs
    BY <1>6, <2>1 DEF SaveJob, NewJobsAreOwn
  <2>3. OthersKeepRows
    BY <1>6 DEF SaveJob, stores
  <2> QED
    BY <1>1, <1>6, <2>2, <2>3 DEF SaveJob
<1>7. CASE RetryListJobs(c) \/ SourceGetDocument(c)
  <2>1. client[c].doc \in Documents /\ docs[client[c].doc] # "absent"
    BY <1>7 DEF RetryListJobs, SourceGetDocument, RequestsHaveDocuments,
                NewDocumentsAreOwn
  <2>2. UNCHANGED <<docs, jobs>>
    BY <1>7 DEF RetryListJobs, SourceGetDocument, stores
  <2>3. CASE Return(c) /\ UNCHANGED nextJob
    BY <1>1, <2>2, <2>3
  <2>4. CASE NewJob(c, client[c].doc)
    BY <1>2, <2>1, <2>2, <2>4
  <2> QED
    BY <1>7, <2>3, <2>4 DEF RetryListJobs, SourceGetDocument
<1>8. CASE DropVectors(c) \/ DropObject(c)
  <2>1. UNCHANGED <<docs, jobs, nextJob>>
    BY <1>8 DEF DropVectors, DropObject
  <2>2. PICK pc \in {"dropObject", "markDeleted"} :
          client' = [client EXCEPT ![c].pc = pc]
    BY <1>8 DEF DropVectors, DropObject, Goto
  <2>3. client[c].pc \notin {"idle", "register", "enqueue"}
    BY <1>8 DEF DropVectors, DropObject
  <2>4. /\ client'[c].pc = pc
        /\ client'[c].doc = client[c].doc
        /\ \A b \in Clients \ {c} : client'[b] = client[b]
    BY <2>2
  <2>5. RequestsHaveDocuments'
    BY <2>3, <2>4 DEF RequestsHaveDocuments
  <2>6. NewJobsAreOwn'
    BY <2>1, <2>3, <2>4 DEF NewJobsAreOwn
  <2>7. NewDocumentsAreOwn'
    BY <2>1, <2>3, <2>4 DEF NewDocumentsAreOwn
  <2> QED
    BY <2>5, <2>6, <2>7
<1>9. CASE MarkDeleted(c)
  <2>1. client[c].doc \in Documents /\ docs[client[c].doc] # "absent"
    BY <1>9 DEF MarkDeleted, RequestsHaveDocuments, NewDocumentsAreOwn
  <2>2. OthersKeepRows
    BY <1>9, <2>1 DEF MarkDeleted
  <2> QED
    BY <1>1, <1>9, <2>2 DEF MarkDeleted
<1>10. CASE Abort(c)
  BY <1>1, <1>10 DEF Abort, stores
<1> QED
  BY <1>4, <1>5, <1>6, <1>7, <1>8, <1>9, <1>10 DEF ContinueRequest

\* No row is ever removed, and what is saved over it is a status.
LEMMA RowsStay ==
  ASSUME IInv, Next, NEW d \in Documents, docs[d] # "absent"
  PROVE  docs'[d] # "absent"
<1> USE DEF IInv, TypeOK
<1>1. ASSUME NEW c \in Clients, StartRequest(c) \/ ContinueRequest(c) \/ Abort(c)
      PROVE  docs' = docs \/ \E e \in Documents, s \in DocumentStatuses :
                                docs' = [docs EXCEPT ![e] = s]
  <2>1. CASE StartRequest(c)
    BY <2>1 DEF StartRequest, PutObject, RegisterDocument, RetryDocument,
                SourceListJobs, DeleteDocument, DocumentStatuses, stores
  <2>2. CASE ContinueRequest(c)
    <3>1. client[c].pc # "idle" => client[c].doc \in Documents
      BY DEF RequestsHaveDocuments
    <3>2. CASE SaveNewDocument(c) \/ MarkDeleted(c)
      BY <3>1, <3>2 DEF SaveNewDocument, MarkDeleted, DocumentStatuses
    <3>3. CASE \/ SaveJob(c) \/ RetryListJobs(c) \/ SourceGetDocument(c)
               \/ DropVectors(c) \/ DropObject(c)
      BY <3>3 DEF SaveJob, RetryListJobs, SourceGetDocument, DropVectors,
                  DropObject, stores
    <3> QED
      BY <2>2, <3>2, <3>3 DEF ContinueRequest
  <2>3. CASE Abort(c)
    BY <2>3 DEF Abort, stores
  <2> QED
    BY <1>1, <2>1, <2>2, <2>3
<1>2. ASSUME NEW w \in Workers,
             Work(w) \/ ProviderError(w) \/ StoreError(w) \/ Crash(w)
      PROVE  docs' = docs \/ \E e \in Documents, s \in DocumentStatuses :
                                docs' = [docs EXCEPT ![e] = s]
  <2>1. worker[w].pc # "idle" => Doc(w) \in Documents
    BY BusyWorker
  <2>2. CASE SaveProcessing(w) \/ SaveReady(w) \/ SaveFailed(w)
    BY <2>1, <2>2 DEF SaveProcessing, SaveReady, SaveFailed, Step,
                      DocumentStatuses
  <2>3. CASE ~(SaveProcessing(w) \/ SaveReady(w) \/ SaveFailed(w))
    BY <1>2, <2>3 DEF Work, PickJob, Claim, LoadDocument, ReadDocument, ClearVectors,
          UpsertVectors, SettleJob, ProviderError, StoreError, Crash, stores
  <2> QED
    BY <2>2, <2>3
<1>3. docs' = docs \/ \E e \in Documents, s \in DocumentStatuses :
                         docs' = [docs EXCEPT ![e] = s]
  BY <1>1, <1>2 DEF Next
<1> QED
  BY <1>3 DEF DocumentStatuses

\* A worker step leaves the requests in flight what they have: it writes rows
\* of saved jobs and of their documents only.
LEMMA WorkerKeepsRequests ==
  ASSUME IInv, NEW w \in Workers,
         Work(w) \/ ProviderError(w) \/ StoreError(w) \/ Crash(w)
  PROVE  RequestsHaveDocuments' /\ NewJobsAreOwn' /\ NewDocumentsAreOwn'
<1> USE DEF IInv, TypeOK
<1>1. client' = client /\ nextJob' = nextJob
  BY DEF Work, PickJob, Claim, LoadDocument, SaveProcessing, ReadDocument, ClearVectors,
         UpsertVectors, SaveReady, SaveFailed, SettleJob, ProviderError,
         StoreError, Crash
<1>2. \A j \in Jobs : jobs[j].state = "absent" => jobs'[j] = jobs[j]
  <2>1. CASE Claim(w)
    <3>1. /\ worker[w].job \in Jobs
          /\ jobs[worker[w].job].state = "queued"
      BY <2>1, BusyWorker DEF Claim, Step
    <3> QED
      BY <2>1, <3>1 DEF Claim
  <2>2. CASE SettleJob(w)
    <3>1. /\ worker[w].job \in Jobs
          /\ jobs[worker[w].job].state = "running"
      BY <2>2, BusyWorker DEF SettleJob
    <3> QED
      BY <2>2, <3>1 DEF SettleJob
  <2>3. CASE ~(Claim(w) \/ SettleJob(w))
    BY <2>3 DEF Work, PickJob, LoadDocument, SaveProcessing, ReadDocument, ClearVectors,
          UpsertVectors, SaveReady, SaveFailed, ProviderError, StoreError, Crash
  <2> QED
    BY <2>1, <2>2, <2>3
<1>3. \A d \in Documents : docs[d] = "absent" <=> docs'[d] = "absent"
  <2>1. worker[w].pc # "idle" => Doc(w) \in Documents /\ docs[Doc(w)] # "absent"
    BY BusyWorker DEF JobsHaveRows, Doc
  <2>2. CASE SaveProcessing(w) \/ SaveReady(w) \/ SaveFailed(w)
    BY <2>1, <2>2 DEF SaveProcessing, SaveReady, SaveFailed, Step
  <2>3. CASE ~(SaveProcessing(w) \/ SaveReady(w) \/ SaveFailed(w))
    BY <2>3 DEF Work, PickJob, Claim, LoadDocument, ReadDocument, ClearVectors,
          UpsertVectors, SettleJob, ProviderError, StoreError, Crash, stores
  <2> QED
    BY <2>2, <2>3
<1>4. RequestsHaveDocuments'
  BY <1>1 DEF RequestsHaveDocuments
<1>5. NewJobsAreOwn'
  BY <1>1, <1>2 DEF NewJobsAreOwn
<1>6. NewDocumentsAreOwn'
  BY <1>1, <1>3 DEF NewDocumentsAreOwn, RequestsHaveDocuments
<1> QED
  BY <1>4, <1>5, <1>6

\* A saved job keeps its document, and a new one is saved with a document that
\* has a row.
LEMMA JobsKeepRows ==
  ASSUME IInv, Next
  PROVE  JobsHaveRows'
<1> USE DEF IInv, TypeOK
<1>1. ASSUME NEW c \in Clients, StartRequest(c) \/ ContinueRequest(c) \/ Abort(c),
             NEW j \in Jobs, jobs'[j].state # "absent"
      PROVE  jobs'[j].doc \in Documents /\ docs[jobs'[j].doc] # "absent"
  <2>1. CASE jobs' = jobs
    BY <1>1, <2>1 DEF JobsHaveRows, JobRows
  <2>2. CASE /\ client[c].pc = "enqueue"
             /\ jobs' = [jobs EXCEPT ![client[c].job] =
                           [state |-> "queued", doc |-> client[c].doc,
                            attempts |-> 0]]
    <3>1. client[c].doc \in Documents /\ docs[client[c].doc] # "absent"
      BY <2>2 DEF RequestsHaveDocuments, NewDocumentsAreOwn
    <3> QED
      BY <1>1, <2>2, <3>1 DEF JobsHaveRows, JobRows
  <2> QED
    BY <1>1, <2>1, <2>2, RequestEffect
<1>2. ASSUME NEW w \in Workers,
             Work(w) \/ ProviderError(w) \/ StoreError(w) \/ Crash(w),
             NEW j \in Jobs, jobs'[j].state # "absent"
      PROVE  jobs[j].state # "absent" /\ jobs'[j].doc = jobs[j].doc
  <2>1. CASE Claim(w)
    <3>1. /\ worker[w].job \in Jobs
          /\ jobs[worker[w].job].state = "queued"
      BY <2>1, BusyWorker DEF Claim, Step
    <3> QED
      BY <1>2, <2>1, <3>1 DEF Claim
  <2>2. CASE SettleJob(w)
    <3>1. /\ worker[w].job \in Jobs
          /\ jobs[worker[w].job].state = "running"
      BY <2>2, BusyWorker DEF SettleJob
    <3> QED
      BY <1>2, <2>2, <3>1 DEF SettleJob
  <2>3. CASE ~(Claim(w) \/ SettleJob(w))
    BY <1>2, <2>3 DEF Work, PickJob, LoadDocument, SaveProcessing, ReadDocument,
          ClearVectors, UpsertVectors, SaveReady, SaveFailed, ProviderError,
          StoreError, Crash
  <2> QED
    BY <2>1, <2>2, <2>3
<1>3. ASSUME NEW j \in Jobs, jobs'[j].state # "absent"
      PROVE  jobs'[j].doc \in Documents /\ docs[jobs'[j].doc] # "absent"
  BY <1>1, <1>2, <1>3 DEF Next, JobsHaveRows, JobRows
<1> QED
  BY <1>3, RowsStay DEF JobsHaveRows

\* The initial state satisfies the invariant.
LEMMA InitIInv ==
  ASSUME Init
  PROVE  IInv
<1> USE ConstantsAssumption
<1> USE DEF Init, NoJob, IdleWorker, IdleClient, AbsentJob, Jobs
<1>1. TypeOK
  BY DEF TypeOK, WorkerPCs, ClientPCs
<1>2. HeldJobs /\ JobRows /\ JobsHaveRows
  BY DEF HeldJobs, JobRows, JobsHaveRows
<1>3. RequestsHaveDocuments /\ NewJobsAreOwn /\ NewDocumentsAreOwn
  BY DEF RequestsHaveDocuments, NewJobsAreOwn, NewDocumentsAreOwn
<1> QED
  BY <1>1, <1>2, <1>3 DEF IInv

\* Every step keeps the invariant.
LEMMA NextIInv ==
  ASSUME IInv, [Next]_vars
  PROVE  IInv'
<1>1. CASE Next
  <2>1. ASSUME NEW c \in Clients, StartRequest(c) \/ ContinueRequest(c) \/ Abort(c)
        PROVE  IInv'
    BY <1>1, <2>1, RequestTypeOK, RequestKeepsJobs, RequestKeepsRequests,
       JobsKeepRows DEF IInv
  <2>2. ASSUME NEW w \in Workers,
               Work(w) \/ ProviderError(w) \/ StoreError(w) \/ Crash(w)
        PROVE  IInv'
    BY <1>1, <2>2, WorkerTypeOK, WorkerKeepsJobs, WorkerKeepsRequests,
       JobsKeepRows DEF IInv
  <2> QED
    BY <1>1, <2>1, <2>2 DEF Next
<1>2. CASE UNCHANGED vars
  BY <1>2 DEF vars, IInv, TypeOK, HeldJobs, JobRows, JobsHaveRows,
              RequestsHaveDocuments, NewJobsAreOwn, NewDocumentsAreOwn
<1> QED
  BY <1>1, <1>2

-----------------------------------------------------------------------------
(***************************************************************************)
(* Theorems                                                                *)
(***************************************************************************)

\* The invariant holds in every reachable state.
THEOREM Invariance == Spec => []IInv
<1>1. Init => IInv
  BY InitIInv
<1>2. IInv /\ [Next]_vars => IInv'
  BY NextIInv
<1> QED
  BY <1>1, <1>2, PTL DEF Spec

\* Rows, stores, workers and requests always have the values their types allow.
THEOREM TypeCorrect == Spec => []TypeOK
<1>1. IInv => TypeOK
  BY DEF IInv
<1> QED
  BY <1>1, Invariance, PTL

\* However many workers claim concurrently, no job is ever handed out twice.
THEOREM ExclusiveClaims == Spec => []HandedOutOnce
<1>1. ASSUME IInv
      PROVE  HandedOutOnce
  BY <1>1 DEF IInv, TypeOK, HeldJobs, JobRows, HandedOutOnce,
              Queue!HandedOutOnce, Queue!Jobs, Queue!NoJob, Jobs, NoJob
<1> QED
  BY <1>1, Invariance, PTL

\* What a step does to the jobs: a request queues its own new one, a worker
\* claims or settles one, or all stay as they are.
LEMMA JobSteps ==
  ASSUME IInv, Next
  PROVE  \/ jobs' = jobs
         \/ \E c \in Clients : SaveJob(c)
         \/ \E w \in Workers : Claim(w) \/ SettleJob(w)
<1>1. ASSUME NEW c \in Clients, StartRequest(c) \/ ContinueRequest(c) \/ Abort(c)
      PROVE  jobs' = jobs \/ SaveJob(c)
  BY <1>1 DEF StartRequest, PutObject, RegisterDocument, RetryDocument,
       SourceListJobs, DeleteDocument, ContinueRequest, SaveNewDocument,
       RetryListJobs, SourceGetDocument, DropVectors, DropObject, MarkDeleted,
       Abort
<1>2. ASSUME NEW w \in Workers,
             Work(w) \/ ProviderError(w) \/ StoreError(w) \/ Crash(w)
      PROVE  jobs' = jobs \/ Claim(w) \/ SettleJob(w)
  BY <1>2 DEF Work, PickJob, LoadDocument, SaveProcessing, ReadDocument, ClearVectors,
       UpsertVectors, SaveReady, SaveFailed, ProviderError, StoreError, Crash
<1> QED
  BY <1>1, <1>2 DEF Next

\* No whole-row save takes a job against its state machine or to another
\* document, whatever stale copies are around.
THEOREM MachineFollowed == Spec => JobsFollowTheirMachine
<1>1. ASSUME IInv, [Next]_vars, NEW j \in Jobs, jobs'[j] # jobs[j],
             jobs[j].state # "absent"
      PROVE  /\ JobCanTransition(jobs[j].state, jobs'[j].state)
             /\ jobs'[j].doc = jobs[j].doc
  <2> USE DEF IInv, TypeOK
  <2>1. Next
    BY <1>1 DEF vars
  <2>2. CASE \E c \in Clients : SaveJob(c)
    BY <1>1, <2>2 DEF SaveJob, NewJobsAreOwn
  <2>3. ASSUME NEW w \in Workers, Claim(w)
        PROVE  /\ JobCanTransition(jobs[j].state, jobs'[j].state)
               /\ jobs'[j].doc = jobs[j].doc
    <3>1. /\ worker[w].job \in Jobs
          /\ jobs[worker[w].job].state = "queued"
      BY <1>1, <2>3, BusyWorker DEF Claim, Step
    <3>2. /\ j = worker[w].job
          /\ jobs'[j].state = "running"
          /\ jobs'[j].doc = jobs[j].doc
      BY <1>1, <2>3, <3>1 DEF Claim
    <3> QED
      BY <3>1, <3>2 DEF JobCanTransition
  <2>4. ASSUME NEW w \in Workers, SettleJob(w)
        PROVE  /\ JobCanTransition(jobs[j].state, jobs'[j].state)
               /\ jobs'[j].doc = jobs[j].doc
    <3>1. JobResult(worker[w].pc) \in TerminalJobStates
      BY <2>4, JobResultIsTerminal DEF SettleJob
    <3>0. /\ worker[w].job \in Jobs
          /\ jobs[worker[w].job].state = "running"
      BY <1>1, <2>4, BusyWorker DEF SettleJob
    <3>2. /\ j = worker[w].job
          /\ jobs'[j].state = JobResult(worker[w].pc)
          /\ jobs'[j].doc = jobs[j].doc
      BY <1>1, <2>4, <3>0 DEF SettleJob
    <3> QED
      BY <3>0, <3>1, <3>2 DEF JobCanTransition, TerminalJobStates
  <2> QED
    BY <1>1, <2>1, <2>2, <2>3, <2>4, JobSteps
<1>2. IInv /\ [Next]_vars =>
        [\A j \in Jobs :
           jobs'[j] # jobs[j] /\ jobs[j].state # "absent"
           => /\ JobCanTransition(jobs[j].state, jobs'[j].state)
              /\ jobs'[j].doc = jobs[j].doc]_vars
  BY <1>1
<1> QED
  BY <1>2, Invariance, PTL DEF Spec, JobsFollowTheirMachine

-----------------------------------------------------------------------------
\* A step that changes the row or the chunks of a deleted document, or that
\* starts writing them, is a step of a worker already ingesting it.
LEMMA QuietStep ==
  ASSUME IInv, Next, NEW d \in Documents, docs[d] = "deleted", ~Ingesting(d)
  PROVE  /\ docs'[d] = "deleted"
         /\ ~Ingesting(d)'
         /\ d \in vectors' => d \in vectors
<1> USE DEF IInv, TypeOK
<1>1. ASSUME NEW c \in Clients, StartRequest(c) \/ ContinueRequest(c) \/ Abort(c)
      PROVE  /\ docs'[d] = "deleted"
             /\ \A w \in Workers : worker'[w].pc \in IngestingPCs =>
                   worker'[w] = worker[w] /\ jobs'[worker[w].job] = jobs[worker[w].job]
             /\ d \in vectors' => d \in vectors
  <2>1. worker' = worker
    BY <1>1, RequestEffect
  <2>2. ASSUME NEW w \in Workers, worker[w].pc \in IngestingPCs
        PROVE  jobs'[worker[w].job] = jobs[worker[w].job]
    <3>1. worker[w].job \in Jobs /\ jobs[worker[w].job].state = "running"
      BY <2>2, BusyWorker DEF IngestingPCs
    <3>2. client[c].pc = "enqueue" => client[c].job # worker[w].job
      BY <3>1 DEF NewJobsAreOwn
    <3> QED
      BY <1>1, <3>1, <3>2, RequestEffect
  <2>3. CASE StartRequest(c)
    <3>1. docs'[d] = "deleted" /\ (d \in vectors' => d \in vectors)
      BY <2>3 DEF StartRequest, PutObject, RegisterDocument, RetryDocument,
                  SourceListJobs, DeleteDocument, Fresh, stores
    <3> QED
      BY <2>1, <2>2, <3>1
  <2>4. CASE ContinueRequest(c)
    <3>1. client[c].pc = "register" => client[c].doc # d
      BY DEF NewDocumentsAreOwn
    <3>2. docs'[d] = "deleted" /\ (d \in vectors' => d \in vectors)
      BY <2>4, <3>1 DEF ContinueRequest, SaveNewDocument, SaveJob,
         RetryListJobs, SourceGetDocument, DropVectors, DropObject, MarkDeleted,
         stores
    <3> QED
      BY <2>1, <2>2, <3>2
  <2>5. CASE Abort(c)
    BY <2>1, <2>2, <2>5 DEF Abort, stores
  <2> QED
    BY <1>1, <2>3, <2>4, <2>5
<1>2. ASSUME NEW w \in Workers,
             Work(w) \/ ProviderError(w) \/ StoreError(w) \/ Crash(w)
      PROVE  /\ docs'[d] = "deleted"
             /\ \A v \in Workers : worker'[v].pc \in IngestingPCs =>
                   jobs'[worker'[v].job].doc # d
             /\ d \in vectors' => d \in vectors
  <2>1. worker[w].pc \in IngestingPCs => Doc(w) # d
    BY DEF Ingesting
  <2>2. docs'[d] = "deleted" /\ (d \in vectors' => d \in vectors)
    BY <1>2, <2>1 DEF Work, PickJob, Claim, LoadDocument, SaveProcessing, ReadDocument,
       ClearVectors, UpsertVectors, SaveReady, SaveFailed, SettleJob,
       ProviderError, StoreError, Crash, Step, IngestingPCs, stores
  <2>3. ASSUME NEW v \in Workers, worker'[v].pc \in IngestingPCs
        PROVE  /\ worker'[v].job = worker[v].job
               /\ worker[v].job \in Jobs
               /\ Doc(v) # d
    <3>1. CASE v # w
      <4>1. worker'[v] = worker[v]
        BY <1>2, <3>1 DEF Work, PickJob, Claim, LoadDocument, SaveProcessing,
           ReadDocument, ClearVectors, UpsertVectors, SaveReady, SaveFailed,
           SettleJob, ProviderError, StoreError, Crash, Step
      <4> QED
        BY <2>3, <4>1, BusyWorker DEF Ingesting, IngestingPCs
    <3>2. CASE v = w /\ LoadDocument(w)
      <4>1. /\ worker[w].pc = "load" /\ worker'[w].pc = "begin"
            /\ worker'[w].job = worker[w].job
            /\ DocumentCanTransition(docs[Doc(w)], "processing")
        BY <2>3, <3>2 DEF LoadDocument, Step, IngestingPCs
      <4> QED
        BY <3>2, <4>1, BusyWorker DEF DocumentCanTransition
    <3>3. CASE v = w /\ ~LoadDocument(w)
      <4>1. CASE PickJob(w) \/ Claim(w) \/ SettleJob(w) \/ Crash(w)
        <5>0. CASE PickJob(w)
          <6>1. PICK j \in Jobs :
                  worker' = [worker EXCEPT ![w] = [pc |-> "claim", job |-> j]]
            BY <5>0 DEF PickJob
          <6>2. worker'[w].pc = "claim"
            BY <6>1
          <6> QED
            BY <2>3, <3>3, <6>2 DEF IngestingPCs
        <5>1. CASE Claim(w)
          <6>1. worker'[w].pc = "load"
            BY <5>1 DEF Claim, Step
          <6> QED
            BY <2>3, <3>3, <6>1 DEF IngestingPCs
        <5>2. CASE SettleJob(w) \/ Crash(w)
          <6>1. worker'[w].pc = "idle"
            BY <5>2 DEF SettleJob, Crash, IdleWorker
          <6> QED
            BY <2>3, <3>3, <6>1 DEF IngestingPCs
        <5> QED
          BY <4>1, <5>0, <5>1, <5>2
      <4>2. CASE StoreError(w)
        BY <2>3, <3>3, <4>2 DEF StoreError, Step, IdleWorker, IngestingPCs
      <4>3. CASE SaveProcessing(w) \/ ReadDocument(w) \/ ClearVectors(w)
                 \/ UpsertVectors(w) \/ SaveReady(w) \/ SaveFailed(w)
                 \/ ProviderError(w)
        <5>1. worker[w].pc \in IngestingPCs /\ worker'[w].job = worker[w].job
          BY <4>3 DEF SaveProcessing, ReadDocument, ClearVectors,
             UpsertVectors, SaveReady, SaveFailed, ProviderError, Step,
             IngestingPCs
        <5> QED
          BY <2>1, <3>3, <5>1, BusyWorker DEF IngestingPCs
      <4> QED
        BY <1>2, <3>3, <4>1, <4>2, <4>3 DEF Work
    <3> QED
      BY <3>1, <3>2, <3>3
  <2>4. \A j \in Jobs : jobs'[j].doc = jobs[j].doc
    <3>1. CASE Claim(w)
      <4>1. worker[w].job \in Jobs
        BY <3>1, BusyWorker DEF Claim, Step
      <4> QED
        BY <3>1, <4>1 DEF Claim
    <3>2. CASE SettleJob(w)
      <4>1. worker[w].job \in Jobs
        BY <3>2, BusyWorker DEF SettleJob
      <4> QED
        BY <3>2, <4>1 DEF SettleJob
    <3>3. CASE ~(Claim(w) \/ SettleJob(w))
      BY <1>2, <3>3 DEF Work, PickJob, LoadDocument, SaveProcessing, ReadDocument,
         ClearVectors, UpsertVectors, SaveReady, SaveFailed, ProviderError,
         StoreError, Crash
    <3> QED
      BY <3>1, <3>2, <3>3
  <2> QED
    BY <2>2, <2>3, <2>4 DEF Doc
<1> QED
  BY <1>1, <1>2 DEF Next, Ingesting, Doc

\* A deletion that meets no ingestion in flight is final.
THEOREM DeletionFinal == Spec => QuietDeletionIsFinal
<1>1. ASSUME IInv, [Next]_vars, NEW d \in Documents, docs[d] = "deleted",
             ~Ingesting(d)
      PROVE  /\ docs'[d] = "deleted"
             /\ ~Ingesting(d)'
             /\ d \in vectors' => d \in vectors
  <2>1. CASE Next
    BY <1>1, <2>1, QuietStep
  <2>2. CASE UNCHANGED vars
    BY <1>1, <2>2 DEF vars, Ingesting, Doc
  <2> QED
    BY <1>1, <2>1, <2>2
<1>2. IInv /\ [Next]_vars =>
        [\A d \in Documents :
           docs[d] = "deleted" /\ ~Ingesting(d)
           => /\ docs'[d] = "deleted"
              /\ ~Ingesting(d)'
              /\ d \in vectors' => d \in vectors]_vars
  BY <1>1
<1> QED
  BY <1>2, Invariance, PTL DEF Spec, QuietDeletionIsFinal

-----------------------------------------------------------------------------
\* A step of the ingestion is a step of the abstract queue, or leaves it alone.
LEMMA QueueStep ==
  ASSUME IInv, [Next]_vars
  PROVE  [Queue!Next]_(Queue!vars)
<1>a. \A j \in Jobs : Queue!Submit(j) => Queue!Next
  BY DEF Queue!Next, Queue!Jobs, Jobs
<1>b. \A w \in Workers, s \in TerminalJobStates : Queue!Finish(w, s) => Queue!Next
  BY DEF Queue!Next, Queue!TerminalJobStates, TerminalJobStates
<1> USE DEF IInv, TypeOK
<1> USE DEF Queue!Jobs, Queue!NoJob, Jobs, NoJob
<1>1. ASSUME jobs' = jobs,
             \A w \in Workers :
                /\ worker'[w].job = worker[w].job
                /\ worker'[w].pc = "claim" <=> worker[w].pc = "claim"
      PROVE  UNCHANGED Queue!vars
  BY <1>1 DEF Queue!vars
<1>2. ASSUME NEW c \in Clients, StartRequest(c) \/ ContinueRequest(c) \/ Abort(c)
      PROVE  [Queue!Next]_(Queue!vars)
  <2>1. worker' = worker
    BY <1>2, RequestEffect
  <2>2. CASE jobs' = jobs
    BY <1>1, <2>1, <2>2
  <2>3. CASE /\ client[c].pc = "enqueue"
             /\ jobs' = [jobs EXCEPT ![client[c].job] =
                           [state |-> "queued", doc |-> client[c].doc,
                            attempts |-> 0]]
    <3>1. client[c].job \in Jobs /\ jobs[client[c].job].state = "absent"
      BY <2>3 DEF NewJobsAreOwn
    <3>2. jobs[client[c].job].attempts = 0
      BY <3>1 DEF JobRows
    <3>3. PICK j \in Jobs : j = client[c].job
      BY <3>1
    <3>4. Queue!Submit(j)
      BY <2>1, <2>3, <3>1, <3>2, <3>3 DEF Queue!Submit
    <3> HIDE DEF IInv, TypeOK, Jobs, Queue!Jobs, NoJob, Queue!NoJob
    <3> QED
      BY <1>a, <3>4
  <2> QED
    BY <1>2, <2>2, <2>3, RequestEffect
<1>0. ASSUME NEW w \in Workers, PickJob(w)
      PROVE  Queue!Next
  <2>1. PICK j \in Jobs :
          /\ OldestQueued(j)
          /\ worker' = [worker EXCEPT ![w] = [pc |-> "claim", job |-> j]]
    BY <1>0 DEF PickJob
  <2>2. worker[w].pc = "idle" /\ worker[w].job = NoJob /\ jobs' = jobs
    BY <1>0 DEF PickJob, HeldJobs
  <2>3. \A k \in Jobs : Queue!Available(k) <=> jobs[k].state = "queued" /\ ~Locked(k)
    BY DEF Queue!Available, Locked
  <2>4. Queue!Pick(w, j)
    BY <2>1, <2>2, <2>3 DEF Queue!Pick, OldestQueued
  <2> QED
    BY <2>1, <2>4 DEF Queue!Next
<1>3. ASSUME NEW w \in Workers, Claim(w)
      PROVE  Queue!Next
  <2>1. /\ worker[w].job \in Jobs
        /\ jobs[worker[w].job].state = "queued"
        /\ worker[w].pc = "claim"
        /\ worker' = [worker EXCEPT ![w].pc = "load"]
    BY <1>3, BusyWorker DEF Claim, Step
  <2>2. Queue!Claim(w)
    BY <1>3, <2>1 DEF Queue!Claim, Claim
  <2> QED
    BY <2>2 DEF Queue!Next
<1>4. ASSUME NEW w \in Workers, SettleJob(w)
      PROVE  Queue!Next
  <2>1. /\ worker[w].job \in Jobs
        /\ jobs[worker[w].job].state = "running"
        /\ JobResult(worker[w].pc) \in TerminalJobStates
    BY <1>4, BusyWorker, JobResultIsTerminal DEF SettleJob
  <2>2. [j \in Jobs |-> jobs'[j].state] =
          [[j \in Jobs |-> jobs[j].state] EXCEPT
             ![worker[w].job] = JobResult(worker[w].pc)]
    BY <1>4, <2>1 DEF SettleJob
  <2>3. [j \in Jobs |-> jobs'[j].attempts] = [j \in Jobs |-> jobs[j].attempts]
    BY <1>4, <2>1 DEF SettleJob
  <2>4. /\ worker[w].pc \notin {"idle", "claim"}
        /\ worker'[w].pc = "idle"
        /\ worker'[w].job = NoJob
        /\ \A v \in Workers \ {w} : worker'[v] = worker[v]
    BY <1>4 DEF SettleJob, IdleWorker
  <2>7. [v \in Workers |-> IF worker'[v].pc = "claim" THEN worker'[v].job ELSE NoJob]
          = [v \in Workers |-> IF worker[v].pc = "claim" THEN worker[v].job ELSE NoJob]
    BY <2>4
  <2>8. [v \in Workers |-> IF worker'[v].pc = "claim" THEN NoJob ELSE worker'[v].job]
          = [[v \in Workers |->
                IF worker[v].pc = "claim" THEN NoJob ELSE worker[v].job]
             EXCEPT ![w] = NoJob]
    BY <2>4
  <2>5. PICK s \in TerminalJobStates : s = JobResult(worker[w].pc)
    BY <2>1
  <2>9. /\ worker[w].job # NoJob
        /\ [v \in Workers |->
              IF worker[v].pc = "claim" THEN NoJob ELSE worker[v].job][w]
             = worker[w].job
        /\ [j \in Jobs |-> jobs[j].state][worker[w].job] = "running"
    BY <2>1, <2>4
  <2>6. Queue!Finish(w, s)
    <3> HIDE DEF IInv, TypeOK
    <3> QED
      BY <2>2, <2>3, <2>5, <2>7, <2>8, <2>9 DEF Queue!Finish
  <2> HIDE DEF IInv, TypeOK, Jobs, Queue!Jobs, NoJob, Queue!NoJob
  <2> QED
    BY <1>b, <2>6
<1>5. ASSUME NEW w \in Workers, worker[w].pc # "idle", jobs' = jobs,
             worker' = [worker EXCEPT ![w] = IdleWorker]
      PROVE  Queue!Next
  <2>1. worker[w].job # NoJob
    BY <1>5, BusyWorker
  <2>2. CASE worker[w].pc = "claim"
    <3>1. Queue!Release(w)
      BY <1>5, <2>1, <2>2 DEF Queue!Release, IdleWorker
    <3> QED
      BY <3>1 DEF Queue!Next
  <2>3. CASE worker[w].pc # "claim"
    <3>1. Queue!Drop(w)
      BY <1>5, <2>1, <2>3 DEF Queue!Drop, IdleWorker
    <3> QED
      BY <3>1 DEF Queue!Next
  <2> QED
    BY <2>2, <2>3
<1>6. ASSUME NEW w \in Workers, StoreError(w) \/ Crash(w)
      PROVE  [Queue!Next]_(Queue!vars)
  <2>1. CASE Crash(w)
    BY <1>5, <2>1 DEF Crash
  <2>2. CASE StoreError(w)
    <3>1. jobs' = jobs
      BY <2>2 DEF StoreError
    <3>2. \/ /\ worker[w].pc # "idle"
             /\ worker' = [worker EXCEPT ![w] = IdleWorker]
          \/ /\ worker[w].pc # "claim"
             /\ worker' = [worker EXCEPT ![w].pc = "fail"]
      BY <2>2 DEF StoreError, Step
    <3> QED
      BY <1>1, <1>5, <3>1, <3>2
  <2> QED
    BY <1>6, <2>1, <2>2
<1>7. ASSUME NEW w \in Workers,
             \/ LoadDocument(w) \/ SaveProcessing(w) \/ ReadDocument(w)
             \/ ClearVectors(w) \/ UpsertVectors(w) \/ SaveReady(w)
             \/ SaveFailed(w) \/ ProviderError(w)
      PROVE  UNCHANGED Queue!vars
  <2>1. jobs' = jobs
    BY <1>7 DEF LoadDocument, SaveProcessing, ReadDocument, ClearVectors,
       UpsertVectors, SaveReady, SaveFailed, ProviderError
  <2>2. \A v \in Workers :
          /\ worker'[v].job = worker[v].job
          /\ worker'[v].pc = "claim" <=> worker[v].pc = "claim"
    BY <1>7 DEF LoadDocument, SaveProcessing, ReadDocument, ClearVectors,
       UpsertVectors, SaveReady, SaveFailed, ProviderError, Step
  <2> QED
    BY <1>1, <2>1, <2>2
<1>8. CASE UNCHANGED vars
  BY <1>1, <1>8 DEF vars
<1> QED
  BY <1>0, <1>2, <1>3, <1>4, <1>6, <1>7, <1>8 DEF Next, Work

\* The jobs that requests and workers share are a queue that hands every job to
\* one worker, oldest first, and lets that worker alone finish it.
THEOREM QueueImplemented == Spec => ImplementsQueue
<1>1. Init => Queue!Init
  BY DEF Init, Queue!Init, Queue!Jobs, Queue!NoJob, Jobs, NoJob, AbsentJob,
         IdleWorker
<1>2. IInv /\ [Next]_vars => [Queue!Next]_(Queue!vars)
  BY QueueStep
<1> QED
  BY <1>1, <1>2, Invariance, PTL DEF Spec, ImplementsQueue, Queue!Spec
=============================================================================
