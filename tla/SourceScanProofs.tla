-------------------------- MODULE SourceScanProofs --------------------------
(***************************************************************************)
(* Proofs about SourceScan for every number of workers, requests and jobs, *)
(* and for every choice of operations, schedules and faults.               *)
(***************************************************************************)
EXTENDS SourceScan, TLAPS

-----------------------------------------------------------------------------
(***************************************************************************)
(* The inductive invariant.  What is saved next is in somebody's copy, so  *)
(* what holds of the row has to hold of every copy; and what may be saved  *)
(* over a job depends on who else has that job in hand.                    *)
(***************************************************************************)

WorkerRecords == [pc : WorkerPCs, job : Jobs \cup {NoJob}, copy : SourceRows]
ClientRecords == [pc : ClientPCs, job : Jobs \cup {NoJob}, copy : SourceRows]

ScheduleMatches(s) == s.next # "none" <=> s.scheduled /\ s.status # "archived"

\* The row and every copy of it have a schedule that matches them.
CopiesMatch ==
    /\ ScheduleMatches(source)
    /\ \A w \in Workers : ScheduleMatches(worker[w].copy)
    /\ \A c \in Clients : ScheduleMatches(client[c].copy)

\* A scanned job was saved and is scanned by one worker; identifiers of jobs
\* are old.
ScannedJobs ==
    /\ \A w \in Workers : Scanning(w) => worker[w].job \in Jobs
    /\ ScannedOnce
    /\ \A j \in Jobs : jobs[j] # "absent" => j < nextJob

\* The job that a request or the scheduler is about to save is its own and is
\* not saved yet; a request cancels a saved one.
ClientJobs ==
    /\ \A c \in Clients : client[c].pc = "saveJob" =>
         /\ client[c].job \in Jobs
         /\ client[c].job < nextJob
         /\ jobs[client[c].job] = "absent"
    /\ \A b, c \in Clients :
         /\ client[b].pc = "saveJob"
         /\ client[c].pc = "saveJob"
         /\ client[b].job = client[c].job
         => b = c
    /\ \A c \in Clients : client[c].pc = "saveCancel" =>
         client[c].job \in Jobs /\ jobs[client[c].job] # "absent"

SchedulerJobs ==
    /\ \A w \in Workers : worker[w].pc = "queueScan" =>
         /\ worker[w].job \in Jobs
         /\ worker[w].job < nextJob
         /\ jobs[worker[w].job] = "absent"
    /\ \A v, w \in Workers :
         /\ worker[v].pc = "queueScan"
         /\ worker[w].pc = "queueScan"
         /\ worker[v].job = worker[w].job
         => v = w
    /\ \A c \in Clients, w \in Workers :
         client[c].pc = "saveJob" /\ worker[w].pc = "queueScan"
         => client[c].job # worker[w].job

\* A request that looks for active scans before it archives has an archived
\* copy already.
ArchiveCopies ==
    \A c \in Clients :
        client[c].pc = "archiveJobs" => client[c].copy.status = "archived"

IInv ==
    /\ TypeOK
    /\ CopiesMatch
    /\ ScannedJobs
    /\ ClientJobs
    /\ SchedulerJobs
    /\ ArchiveCopies

-----------------------------------------------------------------------------
(***************************************************************************)
(* Rows                                                                    *)
(***************************************************************************)

\* The end of a scan leaves a row with a matching schedule.
LEMMA EndScanMatches ==
  ASSUME NEW s \in SourceRows, NEW t \in {"active", "failed"}
  PROVE  EndScan(s, t) \in SourceRows /\ ScheduleMatches(EndScan(s, t))
  BY DEF EndScan, ScheduleNextScan, SourceRows, ScheduleMatches, DataSourceStatuses

\* So does the advance of the schedule.
LEMMA ScheduleNextMatches ==
  ASSUME NEW s \in SourceRows
  PROVE  /\ ScheduleNextScan(s) \in SourceRows
         /\ ScheduleMatches(ScheduleNextScan(s))
  BY DEF ScheduleNextScan, SourceRows, ScheduleMatches

\* So does an update of a row that is not archived.
LEMMA UpdateMatches ==
  ASSUME NEW s \in SourceRows, s.status # "archived", NEW r \in UpdateRows(s)
  PROVE  r \in SourceRows /\ ScheduleMatches(r)
<1>1. PICK n \in {"none", "later", "due"} :
        r = [s EXCEPT !.scheduled = n # "none", !.next = n]
  BY DEF UpdateRows
<1>2. r = [status |-> s.status, scheduled |-> n # "none", next |-> n]
  BY <1>1 DEF SourceRows
<1> QED
  BY <1>2 DEF SourceRows, ScheduleMatches

\* So does an archived row.
LEMMA ArchivedMatches ==
  ASSUME NEW s \in SourceRows
  PROVE  /\ ArchivedRow(s) \in SourceRows
         /\ ScheduleMatches(ArchivedRow(s))
         /\ ArchivedRow(s).status = "archived"
  BY DEF ArchivedRow, SourceRows, ScheduleMatches, DataSourceStatuses

\* So does the copy that nobody has read.
LEMMA NoSourceMatches == NoSource \in SourceRows /\ ScheduleMatches(NoSource)
  BY DEF NoSource, SourceRows, ScheduleMatches, DataSourceStatuses

-----------------------------------------------------------------------------
(***************************************************************************)
(* What a step of a request does.  It replaces the record of the request,  *)
(* keeps the workers as they are and does one of four things to the rest.  *)
(***************************************************************************)

RequestKeeps(c, r) ==
    /\ UNCHANGED <<source, jobs, nextJob>>
    /\ r.pc # "saveJob"
    /\ r.pc = "saveCancel" => r.job \in Jobs /\ jobs[r.job] # "absent"

RequestAllotsJob(c, r) ==
    /\ UNCHANGED <<source, jobs>>
    /\ nextJob \in Jobs
    /\ nextJob' = nextJob + 1
    /\ r.pc = "saveJob"
    /\ r.job = nextJob

RequestSavesJob(c, r) ==
    /\ UNCHANGED <<source, nextJob>>
    /\ client[c].pc \in {"saveJob", "saveCancel"}
    /\ client[c].job \in Jobs
    /\ jobs' = [jobs EXCEPT ![client[c].job] =
                  IF client[c].pc = "saveJob" THEN "queued" ELSE "canceled"]
    /\ r.pc \in {"idle", "saveSource"}

RequestSavesSource(c, r) ==
    /\ UNCHANGED <<jobs, nextJob>>
    /\ source' = client[c].copy
    /\ r.pc = "idle"

RequestEffect(c, r) ==
    /\ r \in ClientRecords
    /\ client' = [client EXCEPT ![c] = r]
    /\ UNCHANGED worker
    /\ ScheduleMatches(r.copy)
    /\ r.pc = "archiveJobs" => r.copy.status = "archived"
    /\ \/ RequestKeeps(c, r)
       \/ RequestAllotsJob(c, r)
       \/ RequestSavesJob(c, r)
       \/ RequestSavesSource(c, r)

\* Every step of a request has such an effect.
LEMMA RequestStep ==
  ASSUME IInv, NEW c \in Clients,
         StartRequest(c) \/ ContinueRequest(c) \/ Abort(c)
  PROVE  \E r : RequestEffect(c, r)
<1>1. /\ source \in SourceRows
      /\ ScheduleMatches(source)
      /\ client \in [Clients -> ClientRecords]
      /\ client[c] \in ClientRecords
      /\ client[c].pc \in ClientPCs
      /\ client[c].job \in Jobs \cup {NoJob}
      /\ client[c].copy \in SourceRows
      /\ ScheduleMatches(client[c].copy)
  BY DEF IInv, TypeOK, CopiesMatch, ClientRecords
<1>2. /\ IdleClient \in ClientRecords
      /\ IdleClient.pc = "idle"
      /\ IdleClient.copy = NoSource
      /\ ScheduleMatches(NoSource)
  BY NoSourceMatches DEF IdleClient, Looping, ClientRecords, ClientPCs
<1>3. ASSUME NEW pc \in ClientPCs, NEW copy \in SourceRows, Open(c, pc, copy),
             ScheduleMatches(copy), UNCHANGED <<source, jobs, nextJob, worker>>,
             pc \notin {"saveJob", "saveCancel"},
             pc = "archiveJobs" => copy.status = "archived"
      PROVE  \E r : RequestEffect(c, r)
  <2> DEFINE r == [pc |-> pc, job |-> NoJob, copy |-> copy]
  <2>1. r \in ClientRecords
    BY <1>3 DEF ClientRecords
  <2>2. RequestKeeps(c, r)
    BY <1>3 DEF RequestKeeps
  <2> QED
    BY <1>3, <2>1, <2>2 DEF RequestEffect, Open
<1>4. ASSUME Return(c), UNCHANGED <<source, jobs, nextJob, worker>>
      PROVE  \E r : RequestEffect(c, r)
  BY <1>2, <1>4 DEF RequestEffect, RequestKeeps, Return
<1>5. CASE UpdateSource(c)
  <2>1. PICK copy \in UpdateRows(source) : Open(c, "saveSource", copy)
    BY <1>5 DEF UpdateSource
  <2>2. copy \in SourceRows /\ ScheduleMatches(copy)
    BY <1>1, <1>5, UpdateMatches DEF UpdateSource
  <2> QED
    BY <1>3, <1>5, <2>1, <2>2 DEF UpdateSource, ClientPCs
<1>6. CASE ArchiveSource(c)
  <2>1. PICK pc \in {"archiveJobs", "saveSource"} :
          Open(c, pc, ArchivedRow(source))
    BY <1>6 DEF ArchiveSource
  <2>2. pc \in ClientPCs
    BY DEF ClientPCs
  <2>3. UNCHANGED <<source, jobs, nextJob, worker>>
    BY <1>6 DEF ArchiveSource
  <2> QED
    BY <1>1, <1>3, <2>1, <2>2, <2>3, ArchivedMatches
<1>7. CASE RequestScan(c)
  BY <1>3, <1>7, NoSourceMatches DEF RequestScan, ClientPCs
<1>8. CASE CancelScan(c)
  BY <1>1, <1>3, <1>8 DEF CancelScan, ClientPCs
<1>9. CASE ArchiveListJobs(c)
  <2>1. CASE Return(c)
    BY <1>4, <1>9, <2>1 DEF ArchiveListJobs
  <2>2. CASE client' = [client EXCEPT ![c].pc = "saveSource"]
    <3> DEFINE r == [client[c] EXCEPT !.pc = "saveSource"]
    <3>1. r \in ClientRecords /\ r.pc = "saveSource" /\ r.copy = client[c].copy
      BY <1>1 DEF ClientRecords, ClientPCs
    <3>2. client' = [client EXCEPT ![c] = r]
      BY <1>1, <2>2
    <3>3. UNCHANGED <<source, jobs, nextJob, worker>>
      BY <1>9 DEF ArchiveListJobs
    <3> QED
      BY <1>1, <3>1, <3>2, <3>3 DEF RequestEffect, RequestKeeps
  <2> QED
    BY <1>9, <2>1, <2>2 DEF ArchiveListJobs
<1>10. CASE ScanListJobs(c)
  <2>1. CASE Return(c) /\ UNCHANGED nextJob
    BY <1>4, <1>10, <2>1 DEF ScanListJobs
  <2>2. CASE /\ nextJob <= MaxJobs
             /\ nextJob' = nextJob + 1
             /\ client' = [client EXCEPT ![c].pc = "saveJob", ![c].job = nextJob]
    <3> DEFINE r == [client[c] EXCEPT !.pc = "saveJob", !.job = nextJob]
    <3>1. nextJob \in Jobs
      BY <2>2, ScanAssumption DEF IInv, TypeOK, Jobs
    <3>2. /\ r \in ClientRecords
          /\ r.pc = "saveJob"
          /\ r.job = nextJob
          /\ r.copy = client[c].copy
      BY <1>1, <3>1 DEF ClientRecords, ClientPCs
    <3>3. client' = [client EXCEPT ![c] = r]
      BY <1>1, <2>2
    <3>4. UNCHANGED <<source, jobs, worker>>
      BY <1>10 DEF ScanListJobs
    <3> QED
      BY <1>1, <2>2, <3>1, <3>2, <3>3, <3>4 DEF RequestEffect, RequestAllotsJob
  <2> QED
    BY <1>10, <2>1, <2>2 DEF ScanListJobs
<1>11. CASE SaveScanJob(c)
  <2>1. client[c].pc = "saveJob" /\ client[c].job \in Jobs
    BY <1>11 DEF SaveScanJob, IInv, ClientJobs
  <2>2. RequestSavesJob(c, IdleClient)
    BY <1>2, <1>11, <2>1 DEF SaveScanJob, RequestSavesJob
  <2> QED
    BY <1>2, <1>11, <2>2 DEF SaveScanJob, Return, RequestEffect
<1>12. CASE CancelListJobs(c)
  <2>1. CASE Return(c)
    BY <1>4, <1>12, <2>1 DEF CancelListJobs
  <2>2. ASSUME NEW list \in Listed, NEW j \in ActiveIn(list),
               client' = [client EXCEPT ![c].pc = "saveCancel", ![c].job = j]
        PROVE  \E r : RequestEffect(c, r)
    <3> DEFINE r == [client[c] EXCEPT !.pc = "saveCancel", !.job = j]
    <3>1. j \in Jobs /\ jobs[j] # "absent"
      BY <2>2 DEF ActiveIn, Listed, ActiveJobStates
    <3>2. /\ r \in ClientRecords
          /\ r.pc = "saveCancel"
          /\ r.job = j
          /\ r.copy = client[c].copy
      BY <1>1, <3>1 DEF ClientRecords, ClientPCs
    <3>3. client' = [client EXCEPT ![c] = r]
      BY <1>1, <2>2
    <3>4. UNCHANGED <<source, jobs, nextJob, worker>>
      BY <1>12 DEF CancelListJobs
    <3> QED
      BY <1>1, <3>1, <3>2, <3>3, <3>4 DEF RequestEffect, RequestKeeps
  <2> QED
    BY <1>12, <2>1, <2>2 DEF CancelListJobs
<1>13. CASE SaveCancel(c)
  <2>1. client[c].pc = "saveCancel" /\ client[c].job \in Jobs
    BY <1>13 DEF SaveCancel, IInv, ClientJobs
  <2>2. ASSUME NEW r, r.pc \in {"idle", "saveSource"}
        PROVE  RequestSavesJob(c, r)
    BY <1>13, <2>1, <2>2 DEF SaveCancel, RequestSavesJob
  <2>3. CASE Return(c)
    <3>1. RequestSavesJob(c, IdleClient)
      BY <1>2, <2>2
    <3> QED
      BY <1>2, <1>13, <2>3, <3>1 DEF SaveCancel, Return, RequestEffect
  <2>4. CASE Open(c, "saveSource", EndScan(client[c].copy, "active"))
    <3> DEFINE copy == EndScan(client[c].copy, "active")
               r == [pc |-> "saveSource", job |-> NoJob, copy |-> copy]
    <3>1. copy \in SourceRows /\ ScheduleMatches(copy)
      BY <1>1, EndScanMatches
    <3>2. r \in ClientRecords
      BY <3>1 DEF ClientRecords, ClientPCs
    <3>3. client' = [client EXCEPT ![c] = r] /\ UNCHANGED worker
      BY <1>13, <2>4 DEF SaveCancel, Open
    <3>4. RequestSavesJob(c, r)
      BY <2>2
    <3> QED
      BY <3>1, <3>2, <3>3, <3>4 DEF RequestEffect
  <2> QED
    BY <1>13, <2>3, <2>4 DEF SaveCancel
<1>14. CASE SaveSource(c)
  <2>1. RequestSavesSource(c, IdleClient)
    BY <1>2, <1>14 DEF SaveSource, RequestSavesSource
  <2> QED
    BY <1>2, <1>14, <2>1 DEF SaveSource, Return, RequestEffect
<1>15. CASE Abort(c)
  BY <1>4, <1>15 DEF Abort
<1> QED
  BY <1>5, <1>6, <1>7, <1>8, <1>9, <1>10, <1>11, <1>12, <1>13, <1>14, <1>15
  DEF StartRequest, ContinueRequest

-----------------------------------------------------------------------------
(***************************************************************************)
(* What a step of a worker does.                                           *)
(***************************************************************************)

\* A worker goes on with the job it scans, or with none; it may save its copy.
WorkerKeepsJobs(w, r) ==
    /\ UNCHANGED <<jobs, nextJob>>
    /\ source' \in {source, worker[w].copy}
    /\ r.pc # "queueScan"
    /\ r.pc \in ScanPCs => Scanning(w) /\ r.job = worker[w].job

WorkerAllotsJob(w, r) ==
    /\ UNCHANGED <<source, jobs>>
    /\ nextJob \in Jobs
    /\ nextJob' = nextJob + 1
    /\ r.pc = "queueScan"
    /\ r.job = nextJob

WorkerQueuesJob(w, r) ==
    /\ UNCHANGED <<source, nextJob>>
    /\ worker[w].pc = "queueScan"
    /\ jobs' = [jobs EXCEPT ![worker[w].job] = "queued"]
    /\ r.pc = "saveSchedule"

WorkerClaimsJob(w, r) ==
    /\ UNCHANGED <<source, nextJob>>
    /\ r.job \in Jobs
    /\ jobs[r.job] = "queued"
    /\ jobs' = [jobs EXCEPT ![r.job] = "running"]
    /\ r.pc = "load"

WorkerSettlesJob(w, r) ==
    /\ UNCHANGED <<source, nextJob>>
    /\ worker[w].pc \in TerminalJobStates
    /\ jobs' = [jobs EXCEPT ![worker[w].job] = worker[w].pc]
    /\ r.pc = "schedule"

WorkerEffect(w, r) ==
    /\ r \in WorkerRecords
    /\ worker' = [worker EXCEPT ![w] = r]
    /\ UNCHANGED client
    /\ ScheduleMatches(r.copy)
    /\ \/ WorkerKeepsJobs(w, r)
       \/ WorkerAllotsJob(w, r)
       \/ WorkerQueuesJob(w, r)
       \/ WorkerClaimsJob(w, r)
       \/ WorkerSettlesJob(w, r)

\* The call that a looping worker starts again with.
LEMMA LoopingRecord ==
  ASSUME NEW pc \in {"schedule", "poll"}
  PROVE  /\ Looping(pc) \in WorkerRecords
         /\ Looping(pc).pc = pc
         /\ ScheduleMatches(Looping(pc).copy)
  BY NoSourceMatches DEF Looping, WorkerRecords, WorkerPCs

\* A worker that goes on with its job and perhaps another copy.
LEMMA WorkerGoesOn ==
  ASSUME IInv, NEW w \in Workers, NEW pc, NEW next \in WorkerPCs, NEW copy \in SourceRows,
         \/ Step(w, pc, next)
         \/ StepWithCopy(w, pc, next, copy) /\ ScheduleMatches(copy),
         next # "queueScan",
         next \in ScanPCs => pc \in ScanPCs,
         source' \in {source, worker[w].copy},
         UNCHANGED <<jobs, nextJob, client>>
  PROVE  \E r : WorkerEffect(w, r)
<1>1. /\ worker \in [Workers -> WorkerRecords]
      /\ worker[w] \in WorkerRecords
      /\ worker[w].job \in Jobs \cup {NoJob}
      /\ worker[w].copy \in SourceRows
      /\ ScheduleMatches(worker[w].copy)
  BY DEF IInv, TypeOK, CopiesMatch, WorkerRecords
<1>2. PICK r \in WorkerRecords :
        /\ r.pc = next
        /\ r.job = worker[w].job
        /\ ScheduleMatches(r.copy)
        /\ worker[w].pc = pc
        /\ worker' = [worker EXCEPT ![w] = r]
  <2>1. CASE Step(w, pc, next)
    <3> DEFINE r == [worker[w] EXCEPT !.pc = next]
    <3>1. /\ r \in WorkerRecords
          /\ r.pc = next
          /\ r.job = worker[w].job
          /\ r.copy = worker[w].copy
      BY <1>1 DEF WorkerRecords
    <3>2. worker[w].pc = pc /\ worker' = [worker EXCEPT ![w] = r]
      BY <1>1, <2>1 DEF Step
    <3> QED
      BY <1>1, <3>1, <3>2
  <2>2. CASE StepWithCopy(w, pc, next, copy) /\ ScheduleMatches(copy)
    <3> DEFINE r == [worker[w] EXCEPT !.pc = next, !.copy = copy]
    <3>1. /\ r \in WorkerRecords
          /\ r.pc = next
          /\ r.job = worker[w].job
          /\ r.copy = copy
      BY <1>1 DEF WorkerRecords
    <3>2. worker[w].pc = pc /\ worker' = [worker EXCEPT ![w] = r]
      BY <1>1, <2>2 DEF StepWithCopy
    <3> QED
      BY <2>2, <3>1, <3>2
  <2> QED
    BY <2>1, <2>2
<1>3. WorkerKeepsJobs(w, r)
  BY <1>2 DEF WorkerKeepsJobs, Scanning
<1> QED
  BY <1>2, <1>3 DEF WorkerEffect

\* A worker that leaves its job.
LEMMA WorkerLoops ==
  ASSUME IInv, NEW w \in Workers, NEW pc \in {"schedule", "poll"}, Loop(w, pc),
         source' \in {source, worker[w].copy},
         UNCHANGED <<jobs, nextJob, client>>
  PROVE  \E r : WorkerEffect(w, r)
<1>1. WorkerKeepsJobs(w, Looping(pc))
  BY LoopingRecord DEF WorkerKeepsJobs, ScanPCs
<1> QED
  BY <1>1, LoopingRecord DEF Loop, WorkerEffect

\* Every step of a worker has such an effect.
LEMMA WorkerStep ==
  ASSUME IInv, NEW w \in Workers, Work(w) \/ StoreError(w) \/ Crash(w)
  PROVE  \E r : WorkerEffect(w, r)
<1> DEFINE Goal == \E r : WorkerEffect(w, r)
<1>1. /\ source \in SourceRows
      /\ ScheduleMatches(source)
      /\ worker \in [Workers -> WorkerRecords]
      /\ worker[w] \in WorkerRecords
      /\ worker[w].pc \in WorkerPCs
      /\ worker[w].job \in Jobs \cup {NoJob}
      /\ worker[w].copy \in SourceRows
      /\ ScheduleMatches(worker[w].copy)
  BY DEF IInv, TypeOK, CopiesMatch, WorkerRecords
<1>2. ScanPCs \subseteq WorkerPCs /\ SchedulerPCs \subseteq WorkerPCs
  BY DEF WorkerPCs
<1>3. NoSource \in SourceRows /\ ScheduleMatches(NoSource)
  BY NoSourceMatches
<1>4. CASE ScheduleScan(w)
  <2>1. CASE StepWithCopy(w, "schedule", "listJobs", source)
    BY <1>1, <1>2, <1>4, <2>1, WorkerGoesOn DEF ScheduleScan, SchedulerPCs, ScanPCs
  <2>2. CASE Loop(w, "poll")
    BY <1>4, <2>2, WorkerLoops DEF ScheduleScan
  <2> QED
    BY <1>4, <2>1, <2>2 DEF ScheduleScan
<1>5. CASE ScheduleListJobs(w)
  <2>1. CASE Loop(w, "poll") /\ UNCHANGED nextJob
    BY <1>5, <2>1, WorkerLoops DEF ScheduleListJobs
  <2>2. CASE /\ nextJob <= MaxJobs
             /\ nextJob' = nextJob + 1
             /\ worker' = [worker EXCEPT ![w].pc = "queueScan", ![w].job = nextJob]
    <3> DEFINE r == [worker[w] EXCEPT !.pc = "queueScan", !.job = nextJob]
    <3>1. nextJob \in Jobs
      BY <2>2, ScanAssumption DEF IInv, TypeOK, Jobs
    <3>2. /\ r \in WorkerRecords
          /\ r.pc = "queueScan"
          /\ r.job = nextJob
          /\ r.copy = worker[w].copy
      BY <1>1, <1>2, <3>1 DEF WorkerRecords, SchedulerPCs
    <3>3. worker' = [worker EXCEPT ![w] = r]
      BY <1>1, <2>2
    <3>4. UNCHANGED <<source, jobs, client>>
      BY <1>5 DEF ScheduleListJobs
    <3> QED
      BY <1>1, <2>2, <3>1, <3>2, <3>3, <3>4 DEF WorkerEffect, WorkerAllotsJob
  <2> QED
    BY <1>5, <2>1, <2>2 DEF ScheduleListJobs
<1>6. CASE QueueScan(w)
  <2> DEFINE copy == ScheduleNextScan(worker[w].copy)
             r == [worker[w] EXCEPT !.pc = "saveSchedule", !.copy = copy]
  <2>1. copy \in SourceRows /\ ScheduleMatches(copy)
    BY <1>1, ScheduleNextMatches
  <2>2. r \in WorkerRecords /\ r.pc = "saveSchedule" /\ r.copy = copy
    BY <1>1, <1>2, <2>1 DEF WorkerRecords, SchedulerPCs
  <2>3. worker' = [worker EXCEPT ![w] = r]
    BY <1>1, <1>6 DEF QueueScan, StepWithCopy
  <2>4. WorkerQueuesJob(w, r) /\ UNCHANGED client
    BY <1>6, <2>2 DEF QueueScan, StepWithCopy, WorkerQueuesJob
  <2> QED
    BY <2>1, <2>2, <2>3, <2>4 DEF WorkerEffect
<1>7. CASE SaveSchedule(w)
  BY <1>7, WorkerLoops DEF SaveSchedule
<1>8. CASE ClaimScan(w)
  <2>1. ASSUME NEW j \in Jobs, jobs[j] = "queued",
               jobs' = [jobs EXCEPT ![j] = "running"],
               worker' = [worker EXCEPT ![w].pc = "load", ![w].job = j]
        PROVE  Goal
    <3> DEFINE r == [worker[w] EXCEPT !.pc = "load", !.job = j]
    <3>1. /\ r \in WorkerRecords
          /\ r.pc = "load"
          /\ r.job = j
          /\ r.copy = worker[w].copy
      BY <1>1, <1>2 DEF WorkerRecords, ScanPCs
    <3>2. worker' = [worker EXCEPT ![w] = r]
      BY <1>1, <2>1
    <3>3. UNCHANGED <<source, nextJob, client>>
      BY <1>8 DEF ClaimScan
    <3>4. WorkerClaimsJob(w, r)
      BY <2>1, <3>1, <3>3 DEF WorkerClaimsJob
    <3> QED
      BY <1>1, <3>1, <3>2, <3>3, <3>4 DEF WorkerEffect
  <2>2. CASE Loop(w, "schedule") /\ UNCHANGED jobs
    BY <1>8, <2>2, WorkerLoops DEF ClaimScan
  <2> QED
    BY <1>8, <2>1, <2>2 DEF ClaimScan
<1>9. CASE LoadSource(w)
  <2> DEFINE copy == [source EXCEPT !.status = "scanning"]
  <2>1. source.status # "archived" => copy \in SourceRows /\ ScheduleMatches(copy)
    BY <1>1 DEF SourceRows, ScheduleMatches, DataSourceStatuses
  <2>2. UNCHANGED <<source, jobs, nextJob, client>>
    BY <1>9 DEF LoadSource
  <2>3. CASE Step(w, "load", "canceled") \/ Step(w, "load", "walk")
    BY <1>2, <1>3, <2>2, <2>3, WorkerGoesOn DEF ScanPCs
  <2>4. CASE source.status # "archived" /\ StepWithCopy(w, "load", "markScanning", copy)
    BY <1>2, <2>1, <2>2, <2>4, WorkerGoesOn DEF ScanPCs
  <2> QED
    BY <1>9, <2>3, <2>4 DEF LoadSource
<1>10. ASSUME NEW pc \in ScanPCs, NEW next \in ScanPCs, SaveCopy(w, pc, next)
       PROVE  Goal
  BY <1>2, <1>3, <1>10, WorkerGoesOn DEF SaveCopy, ScanPCs
<1>11. CASE Walk(w)
  BY <1>2, <1>3, <1>11, WorkerGoesOn DEF Walk, ScanPCs
<1>12. CASE ReadComplete(w)
  <2>1. EndScan(source, "active") \in SourceRows /\ ScheduleMatches(EndScan(source, "active"))
    BY <1>1, EndScanMatches
  <2> QED
    BY <1>2, <1>3, <1>12, <2>1, WorkerGoesOn DEF ReadComplete, ScanPCs
<1>13. CASE ReadFailed(w)
  <2>1. EndScan(source, "failed") \in SourceRows /\ ScheduleMatches(EndScan(source, "failed"))
    BY <1>1, EndScanMatches
  <2> QED
    BY <1>2, <1>3, <1>13, <2>1, WorkerGoesOn DEF ReadFailed, ScanPCs
<1>14. CASE ReadCanceled(w)
  <2>1. EndScan(source, "active") \in SourceRows /\ ScheduleMatches(EndScan(source, "active"))
    BY <1>1, EndScanMatches
  <2> QED
    BY <1>2, <1>3, <1>14, <2>1, WorkerGoesOn DEF ReadCanceled, ScanPCs
<1>15. CASE SettleScan(w)
  <2>1. WorkerSettlesJob(w, Looping("schedule"))
    BY <1>15, LoopingRecord DEF SettleScan, WorkerSettlesJob
  <2> QED
    BY <1>15, <2>1, LoopingRecord DEF SettleScan, Loop, WorkerEffect
<1>16. CASE StoreError(w)
  <2>1. UNCHANGED <<source, jobs, nextJob, client>>
    BY <1>16 DEF StoreError
  <2>2. CASE \E pc \in {"schedule", "poll"} : Loop(w, pc)
    BY <2>1, <2>2, WorkerLoops
  <2>3. ASSUME NEW pc \in ScanPCs, NEW next \in ScanPCs,
               StepWithCopy(w, pc, next, NoSource)
        PROVE  Goal
    BY <1>2, <1>3, <2>1, <2>3, WorkerGoesOn DEF ScanPCs
  <2> QED
    BY <1>16, <2>2, <2>3 DEF StoreError, ScanPCs
<1>17. CASE Crash(w)
  BY <1>17, WorkerLoops DEF Crash
<1>18. CASE MarkScanning(w) \/ SaveComplete(w) \/ SaveFailed(w) \/ SaveCanceled(w)
  BY <1>10, <1>18 DEF MarkScanning, SaveComplete, SaveFailed, SaveCanceled, ScanPCs
<1> QED
  BY <1>4, <1>5, <1>6, <1>7, <1>8, <1>9, <1>11, <1>12, <1>13, <1>14, <1>15,
     <1>16, <1>17, <1>18
  DEF Work

-----------------------------------------------------------------------------
(***************************************************************************)
(* The invariant is inductive                                              *)
(***************************************************************************)

\* A request keeps the invariant.
LEMMA RequestInvariant ==
  ASSUME IInv, NEW c \in Clients, NEW r, RequestEffect(c, r)
  PROVE  IInv'
<1> USE DEF RequestEffect
<1>1. /\ source \in SourceRows
      /\ jobs \in [Jobs -> JobStates \cup {"absent"}]
      /\ nextJob \in 1 .. MaxJobs + 1
      /\ worker \in [Workers -> WorkerRecords]
      /\ client \in [Clients -> ClientRecords]
      /\ client[c].copy \in SourceRows
      /\ r.job \in Jobs \cup {NoJob}
  BY DEF IInv, TypeOK, WorkerRecords, ClientRecords
<1>2. client'[c] = r /\ \A d \in Clients : d # c => client'[d] = client[d]
  BY <1>1
<1>3. TypeOK'
  <2>1. source' \in SourceRows
    BY <1>1 DEF RequestKeeps, RequestAllotsJob, RequestSavesJob, RequestSavesSource
  <2>2. jobs' \in [Jobs -> JobStates \cup {"absent"}]
    BY <1>1 DEF RequestKeeps, RequestAllotsJob, RequestSavesJob, RequestSavesSource,
                JobStates
  <2>3. nextJob' \in 1 .. MaxJobs + 1
    BY <1>1, ScanAssumption
    DEF RequestKeeps, RequestAllotsJob, RequestSavesJob, RequestSavesSource, Jobs
  <2>4. client' \in [Clients -> ClientRecords]
    BY <1>1
  <2> QED
    BY <1>1, <2>1, <2>2, <2>3, <2>4 DEF TypeOK, WorkerRecords, ClientRecords
<1>4. CopiesMatch'
  <2>1. ScheduleMatches(source)'
    BY DEF IInv, CopiesMatch, ScheduleMatches, RequestKeeps, RequestAllotsJob,
           RequestSavesJob, RequestSavesSource
  <2>2. \A d \in Clients : ScheduleMatches(client[d].copy)'
    BY <1>2 DEF IInv, CopiesMatch, ScheduleMatches
  <2>3. \A w \in Workers : ScheduleMatches(worker[w].copy)'
    BY DEF IInv, CopiesMatch, ScheduleMatches
  <2> QED
    BY <2>1, <2>2, <2>3 DEF CopiesMatch
<1>5. \A j \in Jobs : jobs'[j] = "canceled" \/ jobs'[j] = jobs[j]
                     \/ /\ RequestSavesJob(c, r)
                        /\ client[c].pc = "saveJob"
                        /\ j = client[c].job
  BY <1>1 DEF RequestKeeps, RequestAllotsJob, RequestSavesJob, RequestSavesSource
<1>6. \A n \in Jobs : n < nextJob => n < nextJob'
  BY <1>1, ScanAssumption
  DEF RequestKeeps, RequestAllotsJob, RequestSavesJob, RequestSavesSource, Jobs
<1>7. ScannedJobs'
  <2>1. ASSUME NEW w \in Workers, Scanning(w)'
        PROVE  worker'[w].job \in Jobs /\ jobs'[worker'[w].job] \in {"running", "canceled"}
    <3>1. worker[w].job \in Jobs /\ jobs[worker[w].job] \in {"running", "canceled"}
      BY <2>1 DEF IInv, ScannedJobs, ScannedOnce, Scanning
    <3>2. client[c].pc = "saveJob" => jobs[client[c].job] = "absent"
      BY DEF IInv, ClientJobs
    <3> QED
      BY <1>5, <3>1, <3>2
  <2>2. ScannedOnce'
    <3>1. \A v, w \in Workers :
             Scanning(v)' /\ Scanning(w)' /\ worker'[v].job = worker'[w].job => v = w
      BY DEF IInv, ScannedJobs, ScannedOnce, Scanning
    <3> QED
      BY <2>1, <3>1 DEF ScannedOnce, Scanning
  <2>3. ASSUME NEW j \in Jobs, jobs'[j] # "absent"
        PROVE  j < nextJob'
    <3>1. jobs[j] # "absent" => j < nextJob
      BY DEF IInv, ScannedJobs
    <3>2. client[c].pc = "saveJob" => client[c].job < nextJob
      BY DEF IInv, ClientJobs
    <3>3. client[c].pc = "saveCancel" => client[c].job < nextJob
      BY DEF IInv, ClientJobs, ScannedJobs
    <3>4. j < nextJob
      BY <1>1, <2>3, <3>1, <3>2, <3>3
      DEF RequestKeeps, RequestAllotsJob, RequestSavesJob, RequestSavesSource
    <3> QED
      BY <1>6, <3>4
  <2> QED
    BY <2>1, <2>2, <2>3 DEF ScannedJobs
<1>8. ASSUME NEW j \in Jobs, jobs[j] = "absent",
             ~(client[c].pc \in {"saveJob", "saveCancel"} /\ client[c].job = j)
      PROVE  jobs'[j] = "absent"
  BY <1>1, <1>8 DEF RequestKeeps, RequestAllotsJob, RequestSavesJob, RequestSavesSource
<1>9. ASSUME NEW d \in Clients, client'[d].pc = "saveJob"
      PROVE  \/ /\ d # c
                /\ client[d].pc = "saveJob"
                /\ client'[d] = client[d]
                /\ jobs'[client[d].job] = "absent"
             \/ d = c /\ RequestAllotsJob(c, r)
  <2>1. CASE d # c
    <3>1. client[d].pc = "saveJob" /\ client'[d] = client[d]
      BY <1>2, <1>9, <2>1
    <3>2. client[d].job \in Jobs /\ jobs[client[d].job] = "absent"
      BY <3>1 DEF IInv, ClientJobs
    <3>3. ~(client[c].pc \in {"saveJob", "saveCancel"} /\ client[c].job = client[d].job)
      BY <2>1, <3>1, <3>2 DEF IInv, ClientJobs
    <3> QED
      BY <1>8, <2>1, <3>1, <3>2, <3>3
  <2>2. CASE d = c
    BY <1>2, <1>9, <2>2 DEF RequestKeeps, RequestSavesJob, RequestSavesSource
  <2> QED
    BY <2>1, <2>2
<1>10. RequestAllotsJob(c, r) => /\ r.job = nextJob
                                 /\ nextJob \in Jobs
                                 /\ nextJob' = nextJob + 1
                                 /\ jobs'[nextJob] = "absent"
  BY <1>1 DEF RequestAllotsJob, IInv, ScannedJobs, Jobs
<1>11. ClientJobs'
  <2>1. ASSUME NEW d \in Clients, client'[d].pc = "saveJob"
        PROVE  /\ client'[d].job \in Jobs
               /\ client'[d].job < nextJob'
               /\ jobs'[client'[d].job] = "absent"
    <3>1. client[d].pc = "saveJob" => client[d].job \in Jobs /\ client[d].job < nextJob
      BY DEF IInv, ClientJobs
    <3>2. nextJob \in Jobs => nextJob < nextJob + 1
      BY <1>1 DEF Jobs
    <3> QED
      BY <1>2, <1>6, <1>9, <1>10, <2>1, <3>1, <3>2
  <2>2. ASSUME NEW b \in Clients, NEW d \in Clients,
               client'[b].pc = "saveJob", client'[d].pc = "saveJob",
               client'[b].job = client'[d].job
        PROVE  b = d
    <3>1. \A e \in Clients : client[e].pc = "saveJob" => client[e].job < nextJob
      BY DEF IInv, ClientJobs
    <3>2. client[b].pc = "saveJob" /\ client[d].pc = "saveJob"
          /\ client[b].job = client[d].job => b = d
      BY DEF IInv, ClientJobs
    <3> QED
      BY <1>1, <1>2, <1>9, <1>10, <2>2, <3>1, <3>2 DEF Jobs
  <2>3. ASSUME NEW d \in Clients, client'[d].pc = "saveCancel"
        PROVE  client'[d].job \in Jobs /\ jobs'[client'[d].job] # "absent"
    <3>1. \A j \in Jobs : jobs[j] # "absent" => jobs'[j] # "absent"
      BY <1>1 DEF RequestKeeps, RequestAllotsJob, RequestSavesJob, RequestSavesSource
    <3>2. client[d].pc = "saveCancel" =>
            client[d].job \in Jobs /\ jobs[client[d].job] # "absent"
      BY DEF IInv, ClientJobs
    <3>3. d = c => r.job \in Jobs /\ jobs[r.job] # "absent"
      BY <1>2, <2>3 DEF RequestKeeps, RequestAllotsJob, RequestSavesJob, RequestSavesSource
    <3> QED
      BY <1>2, <2>3, <3>1, <3>2, <3>3
  <2> QED
    BY <2>1, <2>2, <2>3 DEF ClientJobs
<1>12. SchedulerJobs'
  <2>1. ASSUME NEW w \in Workers, worker'[w].pc = "queueScan"
        PROVE  /\ worker'[w].job \in Jobs
               /\ worker'[w].job < nextJob'
               /\ jobs'[worker'[w].job] = "absent"
    <3>1. /\ worker[w].job \in Jobs
          /\ worker[w].job < nextJob
          /\ jobs[worker[w].job] = "absent"
      BY <2>1 DEF IInv, SchedulerJobs
    <3>2. ~(client[c].pc \in {"saveJob", "saveCancel"} /\ client[c].job = worker[w].job)
      BY <2>1, <3>1 DEF IInv, ClientJobs, SchedulerJobs
    <3> QED
      BY <1>6, <1>8, <3>1, <3>2
  <2>2. \A v, w \in Workers :
           worker'[v].pc = "queueScan" /\ worker'[w].pc = "queueScan"
           /\ worker'[v].job = worker'[w].job => v = w
    BY DEF IInv, SchedulerJobs
  <2>3. ASSUME NEW d \in Clients, NEW w \in Workers,
               client'[d].pc = "saveJob", worker'[w].pc = "queueScan"
        PROVE  client'[d].job # worker'[w].job
    <3>1. worker[w].pc = "queueScan" /\ worker[w].job < nextJob /\ worker[w].job \in Jobs
      BY <2>3 DEF IInv, SchedulerJobs
    <3>2. client[d].pc = "saveJob" => client[d].job # worker[w].job
      BY <3>1 DEF IInv, SchedulerJobs
    <3> QED
      BY <1>1, <1>2, <1>9, <1>10, <2>3, <3>1, <3>2 DEF Jobs
  <2> QED
    BY <2>1, <2>2, <2>3 DEF SchedulerJobs
<1>13. ArchiveCopies'
  BY <1>2 DEF IInv, ArchiveCopies
<1> QED
  BY <1>3, <1>4, <1>7, <1>11, <1>12, <1>13 DEF IInv

\* A worker keeps the invariant.
LEMMA WorkerInvariant ==
  ASSUME IInv, NEW w \in Workers, NEW r, WorkerEffect(w, r)
  PROVE  IInv'
<1> USE DEF WorkerEffect
<1>1. /\ source \in SourceRows
      /\ jobs \in [Jobs -> JobStates \cup {"absent"}]
      /\ nextJob \in 1 .. MaxJobs + 1
      /\ worker \in [Workers -> WorkerRecords]
      /\ client \in [Clients -> ClientRecords]
      /\ worker[w].copy \in SourceRows
      /\ ScheduleMatches(worker[w].copy)
      /\ ScheduleMatches(source)
  BY DEF IInv, TypeOK, WorkerRecords, ClientRecords, CopiesMatch
<1>2. worker'[w] = r /\ \A v \in Workers : v # w => worker'[v] = worker[v]
  BY <1>1
<1>3. worker[w].pc \in TerminalJobStates => Scanning(w)
  BY DEF TerminalJobStates, Scanning, ScanPCs
<1>4. WorkerSettlesJob(w, r) =>
        /\ worker[w].job \in Jobs
        /\ jobs[worker[w].job] \in {"running", "canceled"}
  BY <1>3 DEF WorkerSettlesJob, IInv, ScannedJobs, ScannedOnce
<1>5. WorkerQueuesJob(w, r) =>
        /\ worker[w].job \in Jobs
        /\ worker[w].job < nextJob
        /\ jobs[worker[w].job] = "absent"
  BY DEF WorkerQueuesJob, IInv, SchedulerJobs
<1>6. TypeOK'
  <2>1. source' \in SourceRows
    BY <1>1 DEF WorkerKeepsJobs, WorkerAllotsJob, WorkerQueuesJob, WorkerClaimsJob,
                WorkerSettlesJob
  <2>2. jobs' \in [Jobs -> JobStates \cup {"absent"}]
    <3>1. CASE WorkerSettlesJob(w, r)
      BY <1>1, <3>1 DEF WorkerSettlesJob, JobStates, TerminalJobStates
    <3>2. CASE WorkerQueuesJob(w, r) \/ WorkerClaimsJob(w, r)
      BY <1>1, <3>2 DEF WorkerQueuesJob, WorkerClaimsJob, JobStates
    <3> QED
      BY <1>1, <3>1, <3>2 DEF WorkerKeepsJobs, WorkerAllotsJob
  <2>3. nextJob' \in 1 .. MaxJobs + 1
    BY <1>1, ScanAssumption
    DEF WorkerKeepsJobs, WorkerAllotsJob, WorkerQueuesJob, WorkerClaimsJob,
        WorkerSettlesJob, Jobs
  <2>4. worker' \in [Workers -> WorkerRecords]
    BY <1>1
  <2> QED
    BY <1>1, <2>1, <2>2, <2>3, <2>4 DEF TypeOK, WorkerRecords, ClientRecords
<1>7. CopiesMatch'
  <2>1. source' = source \/ source' = worker[w].copy
    BY DEF WorkerKeepsJobs, WorkerAllotsJob, WorkerQueuesJob, WorkerClaimsJob,
           WorkerSettlesJob
  <2>2. ScheduleMatches(source)'
    BY <1>1, <2>1 DEF ScheduleMatches
  <2>3. \A v \in Workers : ScheduleMatches(worker[v].copy)'
    BY <1>2 DEF IInv, CopiesMatch, ScheduleMatches
  <2>4. \A c \in Clients : ScheduleMatches(client[c].copy)'
    BY DEF IInv, CopiesMatch, ScheduleMatches
  <2> QED
    BY <2>2, <2>3, <2>4 DEF CopiesMatch
<1>8. \A n \in Jobs : n < nextJob => n < nextJob'
  BY <1>1, ScanAssumption
  DEF WorkerKeepsJobs, WorkerAllotsJob, WorkerQueuesJob, WorkerClaimsJob,
      WorkerSettlesJob, Jobs
<1>9. ASSUME NEW j \in Jobs
      PROVE  /\ jobs[j] # "absent" => jobs'[j] # "absent"
             /\ jobs[j] \in {"running", "canceled"} =>
                  \/ jobs'[j] = jobs[j]
                  \/ WorkerSettlesJob(w, r) /\ j = worker[w].job
             /\ jobs[j] = "absent" /\ ~(WorkerQueuesJob(w, r) /\ j = worker[w].job)
                => jobs'[j] = "absent"
  <2>1. CASE WorkerKeepsJobs(w, r) \/ WorkerAllotsJob(w, r)
    BY <2>1 DEF WorkerKeepsJobs, WorkerAllotsJob
  <2>2. CASE WorkerQueuesJob(w, r)
    BY <1>1, <1>5, <2>2 DEF WorkerQueuesJob
  <2>3. CASE WorkerClaimsJob(w, r)
    BY <1>1, <2>3 DEF WorkerClaimsJob
  <2>4. CASE WorkerSettlesJob(w, r)
    BY <1>1, <1>4, <2>4 DEF WorkerSettlesJob, TerminalJobStates
  <2> QED
    BY <2>1, <2>2, <2>3, <2>4
<1>10. ASSUME NEW v \in Workers, Scanning(v)'
       PROVE  \/ v = w /\ WorkerClaimsJob(w, r)
              \/ Scanning(v) /\ worker'[v].job = worker[v].job
  <2>1. CASE v # w
    BY <1>2, <1>10, <2>1 DEF Scanning
  <2>2. CASE v = w
    <3>1. r.pc \in ScanPCs
      BY <1>2, <1>10, <2>2 DEF Scanning
    <3>2. WorkerKeepsJobs(w, r) \/ WorkerClaimsJob(w, r)
      BY <3>1 DEF WorkerAllotsJob, WorkerQueuesJob, WorkerSettlesJob, ScanPCs
    <3> QED
      BY <1>2, <2>2, <3>1, <3>2 DEF WorkerKeepsJobs
  <2> QED
    BY <2>1, <2>2
<1>11. ScannedJobs'
  <2>1. ASSUME NEW v \in Workers, Scanning(v)'
        PROVE  worker'[v].job \in Jobs /\ jobs'[worker'[v].job] \in {"running", "canceled"}
    <3>1. CASE v = w /\ WorkerClaimsJob(w, r)
      BY <1>1, <1>2, <3>1 DEF WorkerClaimsJob
    <3>2. CASE Scanning(v) /\ worker'[v].job = worker[v].job
      <4>1. worker[v].job \in Jobs /\ jobs[worker[v].job] \in {"running", "canceled"}
        BY <3>2 DEF IInv, ScannedJobs, ScannedOnce
      <4>2. ~(WorkerSettlesJob(w, r) /\ worker[v].job = worker[w].job)
        <5>1. WorkerSettlesJob(w, r) => ~Scanning(w)'
          BY <1>2 DEF WorkerSettlesJob, Scanning, ScanPCs
        <5>2. WorkerSettlesJob(w, r) => Scanning(w)
          BY <1>3 DEF WorkerSettlesJob
        <5> QED
          BY <2>1, <3>2, <5>1, <5>2 DEF IInv, ScannedJobs, ScannedOnce
      <4> QED
        BY <1>9, <3>2, <4>1, <4>2
    <3> QED
      BY <1>10, <2>1, <3>1, <3>2
  <2>2. ASSUME NEW u \in Workers, NEW v \in Workers, Scanning(u)', Scanning(v)',
               worker'[u].job = worker'[v].job
        PROVE  u = v
    <3>1. Scanning(u) /\ Scanning(v) /\ worker[u].job = worker[v].job => u = v
      BY DEF IInv, ScannedJobs, ScannedOnce
    <3>2. /\ Scanning(u) => jobs[worker[u].job] # "queued"
          /\ Scanning(v) => jobs[worker[v].job] # "queued"
      BY DEF IInv, ScannedJobs, ScannedOnce
    <3>3. WorkerClaimsJob(w, r) => jobs[worker'[w].job] = "queued"
      BY <1>2 DEF WorkerClaimsJob
    <3> QED
      BY <1>10, <2>2, <3>1, <3>2, <3>3
  <2>3. ASSUME NEW j \in Jobs, jobs'[j] # "absent"
        PROVE  j < nextJob'
    <3>1. jobs[j] # "absent" => j < nextJob
      BY DEF IInv, ScannedJobs
    <3>2. j < nextJob
      BY <1>5, <1>9, <2>3, <3>1
    <3> QED
      BY <1>8, <3>2
  <2>4. ScannedOnce'
    BY <2>1, <2>2 DEF ScannedOnce, Scanning
  <2> QED
    BY <2>1, <2>3, <2>4 DEF ScannedJobs
<1>12. ClientJobs'
  <2>1. ASSUME NEW c \in Clients, client[c].pc = "saveJob"
        PROVE  /\ client[c].job \in Jobs
               /\ client[c].job < nextJob'
               /\ jobs'[client[c].job] = "absent"
    <3>1. /\ client[c].job \in Jobs
          /\ client[c].job < nextJob
          /\ jobs[client[c].job] = "absent"
      BY <2>1 DEF IInv, ClientJobs
    <3>2. WorkerQueuesJob(w, r) => client[c].job # worker[w].job
      BY <2>1 DEF WorkerQueuesJob, IInv, SchedulerJobs
    <3> QED
      BY <1>8, <1>9, <3>1, <3>2
  <2>2. \A b, c \in Clients :
           client[b].pc = "saveJob" /\ client[c].pc = "saveJob"
           /\ client[b].job = client[c].job => b = c
    BY DEF IInv, ClientJobs
  <2>3. ASSUME NEW c \in Clients, client[c].pc = "saveCancel"
        PROVE  client[c].job \in Jobs /\ jobs'[client[c].job] # "absent"
    BY <1>9, <2>3 DEF IInv, ClientJobs
  <2> QED
    BY <2>1, <2>2, <2>3 DEF ClientJobs
<1>13. ASSUME NEW v \in Workers, worker'[v].pc = "queueScan"
       PROVE  \/ /\ v # w
                 /\ worker[v].pc = "queueScan"
                 /\ worker'[v] = worker[v]
              \/ v = w /\ WorkerAllotsJob(w, r)
  BY <1>2, <1>13
  DEF WorkerKeepsJobs, WorkerQueuesJob, WorkerClaimsJob, WorkerSettlesJob
<1>14. WorkerAllotsJob(w, r) => /\ worker'[w].job = nextJob
                                /\ nextJob \in Jobs
                                /\ nextJob < nextJob'
                                /\ jobs'[nextJob] = "absent"
  BY <1>1, <1>2 DEF WorkerAllotsJob, IInv, ScannedJobs, Jobs
<1>15. /\ \A v \in Workers : worker[v].pc = "queueScan" =>
             /\ worker[v].job \in Jobs
             /\ worker[v].job # nextJob
       /\ \A c \in Clients : client[c].pc = "saveJob" => client[c].job # nextJob
  BY <1>1 DEF IInv, SchedulerJobs, ClientJobs, Jobs
<1>16. SchedulerJobs'
  <2>1. ASSUME NEW v \in Workers, worker'[v].pc = "queueScan"
        PROVE  /\ worker'[v].job \in Jobs
               /\ worker'[v].job < nextJob'
               /\ jobs'[worker'[v].job] = "absent"
    <3>1. CASE v # w /\ worker[v].pc = "queueScan" /\ worker'[v] = worker[v]
      <4>1. /\ worker[v].job \in Jobs
            /\ worker[v].job < nextJob
            /\ jobs[worker[v].job] = "absent"
        BY <3>1 DEF IInv, SchedulerJobs
      <4>2. WorkerQueuesJob(w, r) => worker[v].job # worker[w].job
        BY <3>1 DEF WorkerQueuesJob, IInv, SchedulerJobs
      <4> QED
        BY <1>8, <1>9, <3>1, <4>1, <4>2
    <3>2. CASE v = w /\ WorkerAllotsJob(w, r)
      BY <1>14, <3>2
    <3> QED
      BY <1>13, <2>1, <3>1, <3>2
  <2>2. ASSUME NEW u \in Workers, NEW v \in Workers,
               worker'[u].pc = "queueScan", worker'[v].pc = "queueScan",
               worker'[u].job = worker'[v].job
        PROVE  u = v
    <3>1. worker[u].pc = "queueScan" /\ worker[v].pc = "queueScan"
          /\ worker[u].job = worker[v].job => u = v
      BY DEF IInv, SchedulerJobs
    <3> QED
      BY <1>13, <1>14, <1>15, <2>2, <3>1
  <2>3. ASSUME NEW c \in Clients, NEW v \in Workers,
               client[c].pc = "saveJob", worker'[v].pc = "queueScan"
        PROVE  client[c].job # worker'[v].job
    <3>1. worker[v].pc = "queueScan" => client[c].job # worker[v].job
      BY <2>3 DEF IInv, SchedulerJobs
    <3> QED
      BY <1>13, <1>14, <1>15, <2>3, <3>1
  <2> QED
    BY <2>1, <2>2, <2>3 DEF SchedulerJobs
<1>17. ArchiveCopies'
  BY DEF IInv, ArchiveCopies
<1> QED
  BY <1>6, <1>7, <1>11, <1>12, <1>16, <1>17 DEF IInv

\* Creation and the passage of time keep the invariant.
LEMMA RowInvariant ==
  ASSUME IInv, CreateSource \/ TimePasses
  PROVE  IInv'
<1>1. UNCHANGED <<jobs, nextJob, worker, client>>
  BY DEF CreateSource, TimePasses
<1>2. source' \in SourceRows /\ ScheduleMatches(source')
  <2>1. CASE CreateSource
    <3>1. PICK i \in Schedules :
            source' = [status |-> "active", scheduled |-> i,
                       next |-> IF i THEN "due" ELSE "none"]
      BY <2>1 DEF CreateSource
    <3> QED
      BY <3>1, ScanAssumption DEF SourceRows, ScheduleMatches, DataSourceStatuses
  <2>2. CASE TimePasses
    <3>1. source \in SourceRows /\ ScheduleMatches(source)
      BY DEF IInv, TypeOK, CopiesMatch
    <3> QED
      BY <2>2, <3>1 DEF TimePasses, SourceRows, ScheduleMatches
  <2> QED
    BY <2>1, <2>2
<1>3. TypeOK'
  BY <1>1, <1>2 DEF IInv, TypeOK
<1>4. CopiesMatch'
  BY <1>1, <1>2 DEF IInv, CopiesMatch, ScheduleMatches
<1>5. ScannedJobs'
  BY <1>1 DEF IInv, ScannedJobs, ScannedOnce, Scanning
<1>6. ClientJobs' /\ SchedulerJobs' /\ ArchiveCopies'
  BY <1>1 DEF IInv, ClientJobs, SchedulerJobs, ArchiveCopies
<1> QED
  BY <1>3, <1>4, <1>5, <1>6 DEF IInv

\* A system without a source and without jobs satisfies the invariant.
LEMMA InitInvariant == Init => IInv
<1> SUFFICES ASSUME Init PROVE IInv
  OBVIOUS
<1>1. /\ NoSource \in SourceRows
      /\ ScheduleMatches(NoSource)
      /\ Looping("schedule") \in WorkerRecords
      /\ Looping("schedule").pc = "schedule"
      /\ Looping("schedule").copy = NoSource
      /\ IdleClient \in ClientRecords
      /\ IdleClient.pc = "idle"
      /\ IdleClient.copy = NoSource
  BY NoSourceMatches
  DEF Looping, IdleClient, WorkerRecords, ClientRecords, WorkerPCs, ClientPCs
<1>2. TypeOK
  BY <1>1, ScanAssumption DEF Init, TypeOK, WorkerRecords, ClientRecords
<1>3. CopiesMatch
  BY <1>1 DEF Init, CopiesMatch
<1>4. ScannedJobs
  BY <1>1 DEF Init, ScannedJobs, ScannedOnce, Scanning, ScanPCs
<1>5. ClientJobs /\ SchedulerJobs /\ ArchiveCopies
  BY <1>1 DEF Init, ClientJobs, SchedulerJobs, ArchiveCopies
<1> QED
  BY <1>2, <1>3, <1>4, <1>5 DEF IInv

\* Every step keeps the invariant.
LEMMA NextInvariant == IInv /\ [Next]_vars => IInv'
<1> SUFFICES ASSUME IInv, [Next]_vars
             PROVE  IInv'
  OBVIOUS
<1>1. CASE CreateSource \/ TimePasses
  BY <1>1, RowInvariant
<1>2. ASSUME NEW c \in Clients, StartRequest(c) \/ ContinueRequest(c) \/ Abort(c)
      PROVE  IInv'
  BY <1>2, RequestStep, RequestInvariant
<1>3. ASSUME NEW w \in Workers, Work(w) \/ StoreError(w) \/ Crash(w)
      PROVE  IInv'
  BY <1>3, WorkerStep, WorkerInvariant
<1>4. CASE UNCHANGED vars
  BY <1>4
  DEF vars, IInv, TypeOK, CopiesMatch, ScheduleMatches, ScannedJobs, ScannedOnce,
      Scanning, ClientJobs, SchedulerJobs, ArchiveCopies
<1> QED
  BY <1>1, <1>2, <1>3, <1>4 DEF Next

\* The invariant holds throughout every behaviour.
THEOREM Invariance == Spec => []IInv
  BY InitInvariant, NextInvariant, PTL DEF Spec

-----------------------------------------------------------------------------
(***************************************************************************)
(* What it is for                                                          *)
(***************************************************************************)

\* The rows, jobs, workers and requests are of their types.
THEOREM TypeCorrect == Spec => []TypeOK
<1>1. IInv => TypeOK
  BY DEF IInv
<1> QED
  BY <1>1, Invariance, PTL

\* No two workers scan for the same job.
THEOREM EveryScanIsRunOnce == Spec => []ScannedOnce
<1>1. IInv => ScannedOnce
  BY DEF IInv, ScannedJobs
<1> QED
  BY <1>1, Invariance, PTL

\* The row that was saved last has a schedule that belongs to it.
THEOREM SchedulesMatch == Spec => []ScheduleMatchesSource
<1>1. IInv => ScheduleMatchesSource
  BY DEF IInv, CopiesMatch, ScheduleMatches, ScheduleMatchesSource
<1> QED
  BY <1>1, Invariance, PTL

\* A claimed job never returns to the queue.
LEMMA StepNeverRequeues ==
  ASSUME IInv, [Next]_vars, NEW j \in Jobs, jobs[j] \notin {"absent", "queued"}
  PROVE  jobs'[j] \notin {"absent", "queued"}
<1>1. jobs \in [Jobs -> JobStates \cup {"absent"}]
  BY DEF IInv, TypeOK
<1>2. ASSUME NEW c \in Clients, NEW r, RequestEffect(c, r)
      PROVE  jobs'[j] \notin {"absent", "queued"}
  <2>1. client[c].pc = "saveJob" => jobs[client[c].job] = "absent"
    BY DEF IInv, ClientJobs
  <2> QED
    BY <1>1, <1>2, <2>1
    DEF RequestEffect, RequestKeeps, RequestAllotsJob, RequestSavesJob, RequestSavesSource
<1>3. ASSUME NEW w \in Workers, NEW r, WorkerEffect(w, r)
      PROVE  jobs'[j] \notin {"absent", "queued"}
  <2>1. worker[w].pc = "queueScan" => jobs[worker[w].job] = "absent"
    BY DEF IInv, SchedulerJobs
  <2> QED
    BY <1>1, <1>3, <2>1
    DEF WorkerEffect, WorkerKeepsJobs, WorkerAllotsJob, WorkerQueuesJob, WorkerClaimsJob,
        WorkerSettlesJob, TerminalJobStates
<1>4. CASE CreateSource \/ TimePasses \/ UNCHANGED vars
  BY <1>4 DEF CreateSource, TimePasses, vars
<1> QED
  BY <1>2, <1>3, <1>4, RequestStep, WorkerStep DEF Next

\* Nobody runs a scan again that was run before.
THEOREM ScansAreNeverRequeued == Spec => NeverRequeued
<1>1. IInv /\ [Next]_vars =>
        [\A j \in Jobs :
            jobs[j] \notin {"absent", "queued"}
            => jobs'[j] \notin {"absent", "queued"}]_vars
  BY StepNeverRequeues
<1> QED
  BY <1>1, Invariance, PTL DEF Spec, NeverRequeued

\* A request that meets a quiet archive leaves it quiet and archived.
LEMMA RequestKeepsArchive ==
  ASSUME IInv, source.status = "archived", Quiet, NEW c \in Clients,
         StartRequest(c) \/ ContinueRequest(c) \/ Abort(c)
  PROVE  source'.status = "archived" /\ ~WillRevive(c)'
<1>1. /\ client \in [Clients -> ClientRecords]
      /\ client[c] \in ClientRecords
      /\ source \in SourceRows
      /\ client[c].pc = "archiveJobs" => client[c].copy.status = "archived"
      /\ ~WillRevive(c)
  BY DEF IInv, TypeOK, ClientRecords, ArchiveCopies, Quiet
<1>2. ASSUME NEW pc, NEW copy, Open(c, pc, copy), copy.status = "archived"
      PROVE  ~WillRevive(c)'
  BY <1>1, <1>2 DEF Open, WillRevive
<1>3. ASSUME Return(c)
      PROVE  ~WillRevive(c)'
  BY <1>1, <1>3 DEF Return, IdleClient, Looping, WillRevive
<1>4. CASE UpdateSource(c)
  BY <1>4 DEF UpdateSource
<1>5. CASE ArchiveSource(c)
  BY <1>1, <1>2, <1>5, ArchivedMatches DEF ArchiveSource
<1>6. CASE ArchiveListJobs(c)
  <2>1. CASE client' = [client EXCEPT ![c].pc = "saveSource"]
    BY <1>1, <1>6, <2>1 DEF ArchiveListJobs, ClientRecords, WillRevive
  <2> QED
    BY <1>3, <1>6, <2>1 DEF ArchiveListJobs
<1>7. CASE RequestScan(c)
  BY <1>7 DEF RequestScan
<1>8. CASE ScanListJobs(c)
  <2>1. CASE client' = [client EXCEPT ![c].pc = "saveJob", ![c].job = nextJob]
    BY <1>1, <1>8, <2>1 DEF ScanListJobs, ClientRecords, WillRevive
  <2> QED
    BY <1>3, <1>8, <2>1 DEF ScanListJobs
<1>9. CASE SaveScanJob(c)
  BY <1>3, <1>9 DEF SaveScanJob
<1>10. CASE CancelScan(c)
  BY <1>2, <1>10 DEF CancelScan
<1>11. CASE CancelListJobs(c)
  <2>1. ASSUME NEW j, client' = [client EXCEPT ![c].pc = "saveCancel", ![c].job = j]
        PROVE  ~WillRevive(c)'
    BY <1>1, <1>11, <2>1 DEF CancelListJobs, ClientRecords, WillRevive
  <2> QED
    BY <1>3, <1>11, <2>1 DEF CancelListJobs
<1>12. CASE SaveCancel(c)
  BY <1>1, <1>3, <1>12 DEF SaveCancel, WillRevive
<1>13. CASE SaveSource(c)
  BY <1>1, <1>3, <1>13 DEF SaveSource, WillRevive
<1>14. CASE Abort(c)
  BY <1>3, <1>14 DEF Abort
<1> QED
  BY <1>4, <1>5, <1>6, <1>7, <1>8, <1>9, <1>10, <1>11, <1>12, <1>13, <1>14
  DEF StartRequest, ContinueRequest

\* So does a worker.
LEMMA WorkerKeepsArchive ==
  ASSUME IInv, source.status = "archived", Quiet, NEW w \in Workers,
         Work(w) \/ StoreError(w) \/ Crash(w)
  PROVE  source' = source /\ ~HoldsCopy(w)'
<1>1. /\ worker \in [Workers -> WorkerRecords]
      /\ worker[w] \in WorkerRecords
      /\ ~HoldsCopy(w)
  BY DEF IInv, TypeOK, WorkerRecords, Quiet
<1>2. ASSUME NEW pc, NEW next \in {"canceled", "walk", "readCanceled", "readComplete",
                                   "readFailed", "succeeded", "failed"},
             Step(w, pc, next)
      PROVE  ~HoldsCopy(w)'
  BY <1>1, <1>2 DEF Step, HoldsCopy, WorkerRecords
<1>3. ASSUME NEW pc, NEW next \in {"failed", "canceled"}, NEW copy,
             StepWithCopy(w, pc, next, copy)
      PROVE  ~HoldsCopy(w)'
  BY <1>1, <1>3 DEF StepWithCopy, HoldsCopy, WorkerRecords
<1>4. ASSUME NEW pc \in {"schedule", "poll"}, Loop(w, pc)
      PROVE  ~HoldsCopy(w)'
  BY <1>1, <1>4 DEF Loop, Looping, HoldsCopy
<1>5. CASE ScheduleScan(w)
  BY <1>4, <1>5 DEF ScheduleScan, Due
<1>6. CASE \/ ScheduleListJobs(w) \/ QueueScan(w) \/ SaveSchedule(w)
           \/ MarkScanning(w) \/ SaveComplete(w) \/ SaveFailed(w) \/ SaveCanceled(w)
  BY <1>1, <1>6
  DEF ScheduleListJobs, QueueScan, SaveSchedule, MarkScanning, SaveComplete, SaveFailed,
      SaveCanceled, SaveCopy, StepWithCopy, HoldsCopy
<1>7. CASE ClaimScan(w)
  <2>1. ASSUME NEW j, worker' = [worker EXCEPT ![w].pc = "load", ![w].job = j]
        PROVE  ~HoldsCopy(w)'
    BY <1>1, <2>1 DEF HoldsCopy, WorkerRecords
  <2> QED
    BY <1>4, <1>7, <2>1 DEF ClaimScan
<1>8. CASE LoadSource(w)
  BY <1>2, <1>8 DEF LoadSource
<1>9. CASE Walk(w)
  BY <1>2, <1>9 DEF Walk
<1>10. CASE ReadComplete(w) \/ ReadFailed(w) \/ ReadCanceled(w)
  BY <1>2, <1>10 DEF ReadComplete, ReadFailed, ReadCanceled
<1>11. CASE SettleScan(w)
  BY <1>4, <1>11 DEF SettleScan
<1>12. CASE StoreError(w)
  BY <1>3, <1>4, <1>12 DEF StoreError
<1>13. CASE Crash(w)
  BY <1>4, <1>13 DEF Crash
<1> QED
  BY <1>5, <1>6, <1>7, <1>8, <1>9, <1>10, <1>11, <1>12, <1>13 DEF Work

\* Who does not move stays quiet.
LEMMA OthersStayQuiet ==
  ASSUME IInv, Quiet
  PROVE  /\ \A c \in Clients : \A r : RequestEffect(c, r) =>
              /\ \A d \in Clients \ {c} : ~WillRevive(d)'
              /\ \A w \in Workers : ~HoldsCopy(w)'
         /\ \A w \in Workers : \A r : WorkerEffect(w, r) =>
              /\ \A v \in Workers \ {w} : ~HoldsCopy(v)'
              /\ \A c \in Clients : ~WillRevive(c)'
<1>1. worker \in [Workers -> WorkerRecords] /\ client \in [Clients -> ClientRecords]
  BY DEF IInv, TypeOK, WorkerRecords, ClientRecords
<1> QED
  BY <1>1 DEF RequestEffect, WorkerEffect, Quiet, WillRevive, HoldsCopy

\* An archive that nobody is about to overwrite is final.
THEOREM QuietArchivesAreFinal == Spec => QuietArchiveIsFinal
<1>1. ASSUME IInv, [Next]_vars, source.status = "archived", Quiet
      PROVE  source'.status = "archived" /\ Quiet'
  <2>1. CASE CreateSource
    BY <1>1, <2>1 DEF CreateSource
  <2>2. CASE TimePasses
    BY <1>1, <2>2 DEF TimePasses, Quiet, HoldsCopy, WillRevive, IInv, TypeOK, SourceRows
  <2>3. CASE UNCHANGED vars
    BY <1>1, <2>3 DEF vars, Quiet, HoldsCopy, WillRevive
  <2>4. ASSUME NEW c \in Clients, StartRequest(c) \/ ContinueRequest(c) \/ Abort(c)
        PROVE  source'.status = "archived" /\ Quiet'
    <3>1. source'.status = "archived" /\ ~WillRevive(c)'
      BY <1>1, <2>4, RequestKeepsArchive
    <3>2. /\ \A d \in Clients \ {c} : ~WillRevive(d)'
          /\ \A w \in Workers : ~HoldsCopy(w)'
      BY <1>1, <2>4, RequestStep, OthersStayQuiet
    <3> QED
      BY <3>1, <3>2 DEF Quiet
  <2>5. ASSUME NEW w \in Workers, Work(w) \/ StoreError(w) \/ Crash(w)
        PROVE  source'.status = "archived" /\ Quiet'
    <3>1. source' = source /\ ~HoldsCopy(w)'
      BY <1>1, <2>5, WorkerKeepsArchive
    <3>2. /\ \A v \in Workers \ {w} : ~HoldsCopy(v)'
          /\ \A c \in Clients : ~WillRevive(c)'
      BY <1>1, <2>5, WorkerStep, OthersStayQuiet
    <3> QED
      BY <1>1, <3>1, <3>2 DEF Quiet
  <2> QED
    BY <1>1, <2>1, <2>2, <2>3, <2>4, <2>5 DEF Next
<1>2. IInv /\ [Next]_vars =>
        [source.status = "archived" /\ Quiet
         => source'.status = "archived" /\ Quiet']_vars
  BY <1>1
<1> QED
  BY <1>2, Invariance, PTL DEF Spec, QuietArchiveIsFinal

\* A step takes a job along its machine, or it cancels it or saves over a cancel.
LEMMA StepFollowsMachine ==
  ASSUME IInv, [Next]_vars, NEW j \in Jobs, jobs'[j] # jobs[j], jobs[j] # "absent"
  PROVE  JobCanTransition(jobs[j], jobs'[j]) \/ "canceled" \in {jobs[j], jobs'[j]}
<1> DEFINE Goal == JobCanTransition(jobs[j], jobs'[j]) \/ "canceled" \in {jobs[j], jobs'[j]}
<1>1. jobs \in [Jobs -> JobStates \cup {"absent"}]
  BY DEF IInv, TypeOK
<1>2. ASSUME NEW c \in Clients, NEW r, RequestEffect(c, r)
      PROVE  Goal
  <2>1. client[c].pc = "saveJob" => jobs[client[c].job] = "absent"
    BY DEF IInv, ClientJobs
  <2>2. jobs'[j] = "canceled"
    BY <1>1, <1>2, <2>1
    DEF RequestEffect, RequestKeeps, RequestAllotsJob, RequestSavesJob, RequestSavesSource
  <2> QED
    BY <2>2
<1>3. ASSUME NEW w \in Workers, NEW r, WorkerEffect(w, r)
      PROVE  Goal
  <2>1. CASE WorkerKeepsJobs(w, r) \/ WorkerAllotsJob(w, r)
    BY <2>1 DEF WorkerKeepsJobs, WorkerAllotsJob
  <2>2. CASE WorkerQueuesJob(w, r)
    <3>1. jobs[worker[w].job] = "absent"
      BY <2>2 DEF WorkerQueuesJob, IInv, SchedulerJobs
    <3> QED
      BY <1>1, <2>2, <3>1 DEF WorkerQueuesJob
  <2>3. CASE WorkerClaimsJob(w, r)
    BY <1>1, <2>3 DEF WorkerClaimsJob, JobCanTransition
  <2>4. CASE WorkerSettlesJob(w, r)
    <3>1. jobs[worker[w].job] \in {"running", "canceled"}
      BY <2>4 DEF WorkerSettlesJob, IInv, ScannedJobs, ScannedOnce, Scanning,
                  TerminalJobStates, ScanPCs
    <3>2. j = worker[w].job /\ jobs'[j] \in TerminalJobStates
      BY <1>1, <2>4 DEF WorkerSettlesJob
    <3> QED
      BY <3>1, <3>2 DEF TerminalJobStates, JobCanTransition
  <2> QED
    BY <1>3, <2>1, <2>2, <2>3, <2>4 DEF WorkerEffect
<1>4. CASE CreateSource \/ TimePasses \/ UNCHANGED vars
  BY <1>4 DEF CreateSource, TimePasses, vars
<1> QED
  BY <1>2, <1>3, <1>4, RequestStep, WorkerStep DEF Next

\* Jobs leave their machine by cancels only.
THEOREM MachineExceptCancels == Spec => OnlyCancelsLeaveTheMachine
<1>1. IInv /\ [Next]_vars =>
        [\A j \in Jobs :
            jobs'[j] # jobs[j] /\ jobs[j] # "absent"
            => \/ JobCanTransition(jobs[j], jobs'[j])
               \/ "canceled" \in {jobs[j], jobs'[j]}]_vars
  BY StepFollowsMachine
<1> QED
  BY <1>1, Invariance, PTL DEF Spec, OnlyCancelsLeaveTheMachine
=============================================================================
