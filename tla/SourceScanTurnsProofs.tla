------------------------ MODULE SourceScanTurnsProofs ------------------------
(***************************************************************************)
(* Proofs about SourceScan of what holds under a condition only: while the *)
(* starts of scans take turns, or while nobody updates the source and no   *)
(* repository call and no process fails.                                   *)
(***************************************************************************)
EXTENDS SourceScanProofs

-----------------------------------------------------------------------------
(***************************************************************************)
(* One active scan                                                         *)
(***************************************************************************)

\* Whoever has looked for an active scan and is about to queue one, a request
\* or a scheduler, is alone in that.
ScanStartsTakeTurns ==
    /\ ScanRequestsTakeTurns
    /\ \A v, w \in Workers :
         worker[v].pc = "queueScan" /\ worker[w].pc = "queueScan" => v = w
    /\ \A c \in Clients, w \in Workers :
         ~(client[c].pc = "saveJob" /\ worker[w].pc = "queueScan")

OneActiveScan ==
    \A i, j \in Jobs :
        jobs[i] \in ActiveJobStates /\ jobs[j] \in ActiveJobStates => i = j

Starting ==
    \/ \E c \in Clients : client[c].pc = "saveJob"
    \/ \E w \in Workers : worker[w].pc = "queueScan"

NothingActive == \A j \in Jobs : jobs[j] \notin ActiveJobStates

\* A scan that is about to be queued is not preceded by an active one.
SingleScan == OneActiveScan /\ (Starting => NothingActive)

\* Without a full job list, a request that gets past its check has seen that no
\* scan is active.
LEMMA RequestLooksFirst ==
  ASSUME IInv, FullLists = FALSE, NEW c \in Clients,
         StartRequest(c) \/ ContinueRequest(c) \/ Abort(c), client'[c].pc = "saveJob"
  PROVE  NothingActive /\ jobs' = jobs
<1> USE DEF IInv, TypeOK
<1>1. ASSUME NEW pc, NEW copy, Open(c, pc, copy)
      PROVE  client'[c].pc = pc
  BY <1>1 DEF Open
<1>2. ASSUME Return(c)
      PROVE  client'[c].pc = "idle"
  BY <1>2 DEF Return, IdleClient, Looping
<1>3. CASE StartRequest(c)
  BY <1>1, <1>3 DEF StartRequest, UpdateSource, ArchiveSource, RequestScan, CancelScan
<1>4. CASE Abort(c)
  BY <1>2, <1>4 DEF Abort
<1>5. CASE ContinueRequest(c)
  <2>1. CASE ArchiveListJobs(c) \/ CancelListJobs(c)
    BY <1>2, <2>1 DEF ArchiveListJobs, CancelListJobs
  <2>2. CASE SaveScanJob(c) \/ SaveSource(c)
    BY <1>2, <2>2 DEF SaveScanJob, SaveSource
  <2>3. CASE SaveCancel(c)
    BY <1>1, <1>2, <2>3 DEF SaveCancel
  <2>4. CASE ScanListJobs(c)
    <3>1. Listed = {Jobs}
      BY DEF Listed
    <3> QED
      BY <1>2, <2>4, <3>1 DEF ScanListJobs, ActiveIn, NothingActive
  <2> QED
    BY <1>5, <2>1, <2>2, <2>3, <2>4 DEF ContinueRequest
<1> QED
  BY <1>3, <1>4, <1>5

\* So has the scheduler.
LEMMA SchedulerLooksFirst ==
  ASSUME IInv, FullLists = FALSE, NEW w \in Workers,
         Work(w) \/ StoreError(w) \/ Crash(w), worker'[w].pc = "queueScan"
  PROVE  NothingActive /\ jobs' = jobs
<1> USE DEF IInv, TypeOK
<1>1. ASSUME NEW pc, NEW next,
             Step(w, pc, next) \/ \E copy : StepWithCopy(w, pc, next, copy)
      PROVE  worker'[w].pc = next
  BY <1>1 DEF Step, StepWithCopy
<1>2. ASSUME NEW pc, Loop(w, pc)
      PROVE  worker'[w].pc = pc
  BY <1>2 DEF Loop, Looping
<1>3. CASE ScheduleListJobs(w)
  <2>1. Listed = {Jobs}
    BY DEF Listed
  <2> QED
    BY <1>2, <1>3, <2>1 DEF ScheduleListJobs, ActiveIn, NothingActive
<1>4. CASE ScheduleScan(w) \/ QueueScan(w) \/ SaveSchedule(w) \/ SettleScan(w) \/ Crash(w)
  BY <1>1, <1>2, <1>4 DEF ScheduleScan, QueueScan, SaveSchedule, SettleScan, Crash
<1>5. CASE ClaimScan(w)
  BY <1>2, <1>5 DEF ClaimScan
<1>6. CASE LoadSource(w) \/ MarkScanning(w) \/ Walk(w) \/ ReadComplete(w) \/ SaveComplete(w)
           \/ ReadFailed(w) \/ SaveFailed(w) \/ ReadCanceled(w) \/ SaveCanceled(w)
  BY <1>1, <1>6 DEF LoadSource, MarkScanning, Walk, ReadComplete, SaveComplete, ReadFailed,
     SaveFailed, ReadCanceled, SaveCanceled, SaveCopy
<1>7. CASE StoreError(w)
  BY <1>1, <1>2, <1>7 DEF StoreError
<1> QED
  BY <1>3, <1>4, <1>5, <1>6, <1>7 DEF Work

\* A request's step on the jobs: it activates one only by SaveScanJob.
LEMMA RequestScans ==
  ASSUME IInv, FullLists = FALSE, ScanStartsTakeTurns, SingleScan, NEW c \in Clients,
         StartRequest(c) \/ ContinueRequest(c) \/ Abort(c)
  PROVE  SingleScan'
<1> USE DEF IInv, TypeOK
<1>1. PICK r : RequestEffect(c, r)
  BY RequestStep
<1>2. /\ worker' = worker /\ client'[c] = r
      /\ \A b \in Clients \ {c} : client'[b] = client[b]
  BY <1>1 DEF RequestEffect
<1>3. CASE RequestKeeps(c, r) \/ RequestSavesSource(c, r)
  <2>1. jobs' = jobs /\ r.pc # "saveJob"
    BY <1>3 DEF RequestKeeps, RequestSavesSource
  <2>2. Starting' => Starting
    BY <1>2, <2>1 DEF Starting
  <2> QED
    BY <2>1, <2>2 DEF SingleScan, OneActiveScan, NothingActive
<1>4. CASE RequestAllotsJob(c, r)
  <2>1. NothingActive /\ jobs' = jobs
    BY <1>2, <1>4, RequestLooksFirst DEF RequestAllotsJob
  <2> QED
    BY <2>1 DEF SingleScan, OneActiveScan, NothingActive
<1>5. CASE RequestSavesJob(c, r)
  <2>1. PICK i \in Jobs : i = client[c].job
    BY <1>5 DEF RequestSavesJob
  <2>2. /\ client[c].pc \in {"saveJob", "saveCancel"} /\ r.pc # "saveJob"
        /\ jobs' = [jobs EXCEPT ![i] = IF client[c].pc = "saveJob" THEN "queued"
                                                                 ELSE "canceled"]
    BY <1>5, <2>1 DEF RequestSavesJob
  <2>3. \A j \in Jobs \ {i} : jobs'[j] = jobs[j]
    BY <2>2
  <2>4. CASE client[c].pc = "saveJob"
    <3>1. NothingActive
      BY <2>4 DEF SingleScan, Starting
    <3>2. ~Starting'
      BY <1>2, <2>2, <2>4 DEF ScanStartsTakeTurns, ScanRequestsTakeTurns, Starting
    <3> QED
      BY <2>3, <3>1, <3>2 DEF SingleScan, OneActiveScan, NothingActive
  <2>5. CASE client[c].pc # "saveJob"
    <3>1. jobs'[i] \notin ActiveJobStates
      BY <2>2, <2>5 DEF ActiveJobStates
    <3>2. Starting' => Starting
      BY <1>2, <2>2 DEF Starting
    <3> QED
      BY <2>3, <3>1, <3>2 DEF SingleScan, OneActiveScan, NothingActive
  <2> QED
    BY <2>4, <2>5
<1> QED
  BY <1>1, <1>3, <1>4, <1>5 DEF RequestEffect

\* A worker's step on the jobs: it activates one only by QueueScan.
LEMMA WorkerScans ==
  ASSUME IInv, FullLists = FALSE, ScanStartsTakeTurns, SingleScan, NEW w \in Workers,
         Work(w) \/ StoreError(w) \/ Crash(w)
  PROVE  SingleScan'
<1> USE DEF IInv, TypeOK
<1>1. PICK r : WorkerEffect(w, r)
  BY WorkerStep
<1>2. /\ client' = client /\ worker'[w] = r
      /\ \A v \in Workers \ {w} : worker'[v] = worker[v]
  BY <1>1 DEF WorkerEffect
<1>3. ASSUME \A j \in Jobs : jobs'[j] \in ActiveJobStates => jobs[j] \in ActiveJobStates,
             r.pc # "queueScan"
      PROVE  SingleScan'
  <2>1. Starting' => Starting
    BY <1>2, <1>3 DEF Starting
  <2> QED
    BY <1>3, <2>1 DEF SingleScan, OneActiveScan, NothingActive
<1>4. CASE WorkerKeepsJobs(w, r)
  BY <1>3, <1>4 DEF WorkerKeepsJobs
<1>5. CASE WorkerAllotsJob(w, r)
  <2>1. NothingActive /\ jobs' = jobs
    BY <1>2, <1>5, SchedulerLooksFirst DEF WorkerAllotsJob
  <2> QED
    BY <2>1 DEF SingleScan, OneActiveScan, NothingActive
<1>6. CASE WorkerQueuesJob(w, r)
  <2>1. worker[w].pc = "queueScan" /\ worker[w].job \in Jobs /\ r.pc = "saveSchedule"
    BY <1>6 DEF WorkerQueuesJob, SchedulerJobs
  <2>2. PICK i \in Jobs : i = worker[w].job
    BY <2>1
  <2>3. \A j \in Jobs \ {i} : jobs'[j] = jobs[j]
    BY <1>6, <2>2 DEF WorkerQueuesJob
  <2>4. NothingActive
    BY <2>1 DEF SingleScan, Starting
  <2>5. ~Starting'
    BY <1>2, <2>1 DEF ScanStartsTakeTurns, Starting
  <2> QED
    BY <2>3, <2>4, <2>5 DEF SingleScan, OneActiveScan, NothingActive
<1>7. CASE WorkerClaimsJob(w, r)
  BY <1>3, <1>7 DEF WorkerClaimsJob, ActiveJobStates
<1>8. CASE WorkerSettlesJob(w, r)
  BY <1>3, <1>8 DEF WorkerSettlesJob, TerminalJobStates, ActiveJobStates
<1> QED
  BY <1>1, <1>4, <1>5, <1>6, <1>7, <1>8 DEF WorkerEffect

LEMMA SingleScanStep ==
  ASSUME IInv, FullLists = FALSE, ScanStartsTakeTurns, SingleScan, [Next]_vars
  PROVE  SingleScan'
<1>1. CASE CreateSource \/ TimePasses \/ UNCHANGED vars
  BY <1>1 DEF CreateSource, TimePasses, vars, SingleScan, OneActiveScan, Starting,
     NothingActive
<1> QED
  BY <1>1, RequestScans, WorkerScans DEF Next

LEMMA SingleScanInit ==
  ASSUME Init
  PROVE  SingleScan
  BY DEF Init, SingleScan, OneActiveScan, Starting, NothingActive, Looping, IdleClient,
         ActiveJobStates

\* As long as no active job is pushed off the job list, and a request or a
\* scheduler that found no active scan queues its own before the next one looks,
\* a source never has two active scans, whatever is updated, archived, canceled,
\* fails or crashes (RequestScan in app/data_sources.go, QueueDueScans in
\* worker/source_scheduler.go).
THEOREM TurnsKeepOneScan ==
  ASSUME FullLists = FALSE
  PROVE  Spec /\ []ScanStartsTakeTurns => []OneActiveScan
<1>1. Init => SingleScan
  BY SingleScanInit
<1>2. IInv /\ ScanStartsTakeTurns /\ SingleScan /\ [Next]_vars => SingleScan'
  BY SingleScanStep
<1>3. SingleScan => OneActiveScan
  BY DEF SingleScan
<1> QED
  BY <1>1, <1>2, <1>3, Invariance, PTL DEF Spec

-----------------------------------------------------------------------------
(***************************************************************************)
(* Whether a source has a schedule, when nobody updates it                 *)
(***************************************************************************)

\* A copy of this source as it was created: with or without a schedule.
OfSource(s) == s.status # "absent" /\ s.scheduled = source.scheduled

CopyPCs == {"archiveJobs", "cancelJobs", "saveCancel", "saveSource"}

CopiesOfSource ==
    /\ \A w \in Workers : HoldsCopy(w) => OfSource(worker[w].copy)
    /\ \A c \in Clients : client[c].pc \in CopyPCs => OfSource(client[c].copy)

\* Nothing is under way before the source exists.
NothingBeforeSource ==
    source.status = "absent" =>
        /\ source = NoSource
        /\ \A w \in Workers : worker[w].pc \in {"schedule", "poll"}
        /\ \A c \in Clients : client[c].pc = "idle"
        /\ \A j \in Jobs : jobs[j] = "absent"

\* The scheduler has nothing to do with a source without a schedule.
SchedulerRests ==
    ~source.scheduled => \A w \in Workers : worker[w].pc \notin SchedulerPCs

ScheduleInv == NothingBeforeSource /\ CopiesOfSource /\ SchedulerRests

\* The rows that are derived from a copy are copies of the same source.
LEMMA DerivedRows ==
  ASSUME NEW s \in SourceRows, NEW t \in {"active", "failed"}
  PROVE  /\ EndScan(s, t).status = t /\ EndScan(s, t).scheduled = s.scheduled
         /\ ArchivedRow(s).status = "archived" /\ ArchivedRow(s).scheduled = s.scheduled
         /\ ScheduleNextScan(s).status = s.status
         /\ ScheduleNextScan(s).scheduled = s.scheduled
  BY DEF EndScan, ArchivedRow, ScheduleNextScan, SourceRows, DataSourceStatuses

\* A request works on copies of the source, and so leaves its schedule alone.
LEMMA RequestKeepsSchedule ==
  ASSUME "update" \notin Operations, IInv, ScheduleInv, NEW c \in Clients,
         StartRequest(c) \/ ContinueRequest(c) \/ Abort(c)
  PROVE  /\ source.status # "absent" /\ OfSource(source')
         /\ worker' = worker
         /\ \A b \in Clients \ {c} : client'[b] = client[b]
         /\ client'[c].pc \in CopyPCs => OfSource(client'[c].copy)
<1> USE DEF IInv, TypeOK
<1>1. source \in SourceRows /\ client[c].copy \in SourceRows
  OBVIOUS
<1> DEFINE Goal == /\ worker' = worker
                   /\ \A b \in Clients \ {c} : client'[b] = client[b]
                   /\ client'[c].pc \in CopyPCs => OfSource(client'[c].copy)
<1>2. ASSUME NEW pc, NEW copy, Open(c, pc, copy), worker' = worker,
             pc \in CopyPCs => OfSource(copy)
      PROVE  Goal
  BY <1>2 DEF Open
<1>3. ASSUME Return(c), worker' = worker
      PROVE  Goal
  BY <1>3 DEF Return, IdleClient, Looping, CopyPCs
<1>4. ASSUME NEW pc, NEW job, worker' = worker,
             client' = [client EXCEPT ![c].pc = pc, ![c].job = job],
             pc \in CopyPCs => client[c].pc \in CopyPCs
      PROVE  Goal
  BY <1>4 DEF ScheduleInv, CopiesOfSource
<1>5. ASSUME NEW pc, worker' = worker,
             client' = [client EXCEPT ![c].pc = pc],
             pc \in CopyPCs => client[c].pc \in CopyPCs
      PROVE  Goal
  BY <1>5 DEF ScheduleInv, CopiesOfSource
<1> HIDE DEF Goal
<1>6. CASE StartRequest(c)
  <2>1. source.status # "absent"
    BY <1>6 DEF StartRequest, UpdateSource, ArchiveSource, RequestScan, CancelScan, Starts,
       DataSourceCanTransition
  <2>2. ~UpdateSource(c)
    BY DEF UpdateSource, Starts
  <2>3. OfSource(source) /\ OfSource(ArchivedRow(source))
    BY <1>1, <2>1, DerivedRows DEF OfSource
  <2>4. Goal
    BY <1>2, <1>6, <2>2, <2>3 DEF StartRequest, ArchiveSource, RequestScan, CancelScan,
       CopyPCs
  <2>5. source' = source
    BY <1>6 DEF StartRequest, UpdateSource, ArchiveSource, RequestScan, CancelScan
  <2> QED
    BY <2>1, <2>3, <2>4, <2>5 DEF Goal
<1>7. ASSUME client[c].pc # "idle"
      PROVE  source.status # "absent" /\ OfSource(source)
  BY <1>7 DEF ScheduleInv, NothingBeforeSource, OfSource
<1>8. CASE Abort(c)
  <2>1. Goal
    BY <1>3, <1>8 DEF Abort
  <2> QED
    BY <1>7, <1>8, <2>1 DEF Goal, Abort
<1>9. CASE ContinueRequest(c)
  <2>1. client[c].pc # "idle"
    BY <1>9 DEF ContinueRequest, ArchiveListJobs, ScanListJobs, SaveScanJob, CancelListJobs,
       SaveCancel, SaveSource
  <2>2. ASSUME ArchiveListJobs(c)
        PROVE  Goal
    BY <1>3, <1>5, <2>2 DEF ArchiveListJobs, CopyPCs
  <2>3. ASSUME ScanListJobs(c)
        PROVE  Goal
    <3>1. PICK n : n = nextJob
      OBVIOUS
    <3>2. /\ worker' = worker
          /\ \/ Return(c)
             \/ client' = [client EXCEPT ![c].pc = "saveJob", ![c].job = n]
      BY <2>3, <3>1 DEF ScanListJobs
    <3>3. "saveJob" \notin CopyPCs
      BY DEF CopyPCs
    <3>4. CASE client' = [client EXCEPT ![c].pc = "saveJob", ![c].job = n]
      BY <1>4, <3>2, <3>3, <3>4
    <3> QED
      BY <1>3, <3>2, <3>4
  <2>4. ASSUME SaveScanJob(c)
        PROVE  Goal
    BY <1>3, <2>4 DEF SaveScanJob
  <2>5. ASSUME CancelListJobs(c)
        PROVE  Goal
    BY <1>3, <1>4, <2>5 DEF CancelListJobs, CopyPCs
  <2>6. ASSUME SaveCancel(c)
        PROVE  Goal
    <3>1. OfSource(EndScan(client[c].copy, "active"))
      BY <1>1, <2>6, DerivedRows DEF SaveCancel, ScheduleInv, CopiesOfSource, CopyPCs,
         OfSource
    <3> QED
      BY <1>2, <1>3, <2>6, <3>1 DEF SaveCancel
  <2>7. ASSUME SaveSource(c)
        PROVE  Goal
    BY <1>3, <2>7 DEF SaveSource
  <2>8. Goal
    BY <1>9, <2>2, <2>3, <2>4, <2>5, <2>6, <2>7 DEF ContinueRequest
  <2>9. OfSource(source')
    <3>1. CASE SaveSource(c)
      BY <3>1 DEF SaveSource, ScheduleInv, CopiesOfSource, CopyPCs
    <3>2. CASE ~SaveSource(c)
      BY <1>7, <1>9, <2>1, <3>2 DEF ContinueRequest, ArchiveListJobs, ScanListJobs,
         SaveScanJob, CancelListJobs, SaveCancel
    <3> QED
      BY <3>1, <3>2
  <2> QED
    BY <1>7, <2>1, <2>8, <2>9 DEF Goal
<1> QED
  BY <1>6, <1>8, <1>9

\* A worker does so too, and schedules nothing without a schedule.
LEMMA WorkerKeepsSchedule ==
  ASSUME IInv, ScheduleInv, NEW w \in Workers, Work(w) \/ StoreError(w) \/ Crash(w)
  PROVE  /\ client' = client
         /\ \A v \in Workers \ {w} : worker'[v] = worker[v]
         /\ HoldsCopy(w)' => OfSource(worker'[w].copy)
         /\ worker'[w].pc \in SchedulerPCs => source.scheduled
         /\ source.status = "absent" =>
              worker'[w].pc \in {"schedule", "poll"} /\ source' = source /\ jobs' = jobs
         /\ source.status # "absent" => OfSource(source')
<1> USE DEF IInv, TypeOK
<1>1. source \in SourceRows /\ worker[w].copy \in SourceRows
  OBVIOUS
<1> DEFINE Goal == /\ \A v \in Workers \ {w} : worker'[v] = worker[v]
                   /\ HoldsCopy(w)' => OfSource(worker'[w].copy)
                   /\ worker'[w].pc \in SchedulerPCs => source.scheduled
<1>2. ASSUME NEW pc \in {"schedule", "poll"}, Loop(w, pc)
      PROVE  Goal /\ worker'[w].pc = pc
  BY <1>2 DEF Loop, Looping, HoldsCopy, SchedulerPCs
<1>3. ASSUME NEW pc, NEW next, Step(w, pc, next), next \in ScanPCs,
             next \notin {"markScanning", "saveComplete", "saveFailed", "saveCanceled"}
      PROVE  Goal
  BY <1>3 DEF Step, HoldsCopy, SchedulerPCs, ScanPCs
<1>4. ASSUME NEW pc, NEW next, NEW copy, StepWithCopy(w, pc, next, copy),
             next \in ScanPCs,
             next \in {"markScanning", "saveComplete", "saveFailed", "saveCanceled"}
               => OfSource(copy)
      PROVE  Goal
  BY <1>4 DEF StepWithCopy, HoldsCopy, SchedulerPCs, ScanPCs
<1>5. ASSUME NEW pc, NEW next, NEW copy, StepWithCopy(w, pc, next, copy),
             OfSource(copy), source.scheduled
      PROVE  Goal
  BY <1>5 DEF StepWithCopy
<1>6. ASSUME HoldsCopy(w)
      PROVE  OfSource(worker[w].copy)
  BY <1>6 DEF ScheduleInv, CopiesOfSource
<1>7. ASSUME worker[w].pc \notin {"schedule", "poll"}
      PROVE  source.status # "absent" /\ OfSource(source)
  BY <1>7 DEF ScheduleInv, NothingBeforeSource, OfSource
<1>8. ASSUME worker[w].pc \in SchedulerPCs
      PROVE  source.scheduled
  BY <1>8 DEF ScheduleInv, SchedulerRests
<1> HIDE DEF Goal
<1>9. CASE ScheduleScan(w)
  <2>1. CASE Due(source)
    <3>1. OfSource(source) /\ source.scheduled
      BY <2>1 DEF Due, OfSource
    <3>2. StepWithCopy(w, "schedule", "listJobs", source)
      BY <1>9, <2>1 DEF ScheduleScan
    <3>3. Goal
      BY <1>5, <3>1, <3>2
    <3> QED
      BY <1>9, <3>1, <3>3 DEF Goal, ScheduleScan, OfSource
  <2>2. CASE ~Due(source)
    <3>1. Goal /\ worker'[w].pc = "poll"
      BY <1>2, <1>9, <2>2 DEF ScheduleScan
    <3> QED
      BY <1>9, <3>1 DEF Goal, ScheduleScan, OfSource
  <2> QED
    BY <2>1, <2>2
<1>10. CASE ScheduleListJobs(w)
  <2>1. worker[w].pc = "listJobs" /\ UNCHANGED <<source, jobs, client>>
    BY <1>10 DEF ScheduleListJobs
  <2>2. source.scheduled /\ OfSource(source) /\ OfSource(worker[w].copy)
    BY <1>6, <1>7, <1>8, <2>1 DEF HoldsCopy, SchedulerPCs
  <2>3. PICK n : n = nextJob
    OBVIOUS
  <2>4. \/ Loop(w, "poll")
        \/ worker' = [worker EXCEPT ![w].pc = "queueScan", ![w].job = n]
    BY <1>10, <2>3 DEF ScheduleListJobs
  <2>5. ASSUME worker' = [worker EXCEPT ![w].pc = "queueScan", ![w].job = n]
        PROVE  Goal
    BY <2>2, <2>5 DEF Goal
  <2>6. Goal
    BY <1>2, <2>4, <2>5
  <2> QED
    BY <1>7, <2>1, <2>2, <2>6 DEF Goal
<1>11. CASE QueueScan(w)
  <2>1. /\ StepWithCopy(w, "queueScan", "saveSchedule", ScheduleNextScan(worker[w].copy))
        /\ worker[w].pc = "queueScan" /\ UNCHANGED <<source, client>>
    BY <1>11 DEF QueueScan, StepWithCopy
  <2>2. source.scheduled /\ OfSource(source) /\ OfSource(worker[w].copy)
    BY <1>6, <1>7, <1>8, <2>1 DEF HoldsCopy, SchedulerPCs
  <2>3. OfSource(ScheduleNextScan(worker[w].copy))
    BY <1>1, <2>2, DerivedRows DEF OfSource
  <2>4. Goal
    BY <1>5, <2>1, <2>2, <2>3
  <2> QED
    BY <1>7, <2>1, <2>2, <2>4 DEF Goal
<1>12. CASE SaveSchedule(w)
  <2>1. worker[w].pc = "saveSchedule" /\ source' = worker[w].copy /\ UNCHANGED client
    BY <1>12 DEF SaveSchedule
  <2>2. OfSource(source')
    BY <1>6, <2>1 DEF HoldsCopy
  <2>3. Goal
    BY <1>2, <1>12 DEF SaveSchedule
  <2> QED
    BY <1>7, <2>1, <2>2, <2>3 DEF Goal
<1>13. CASE ClaimScan(w)
  <2>1. UNCHANGED <<source, client>>
    BY <1>13 DEF ClaimScan
  <2>2. CASE \E j \in Jobs : jobs[j] = "queued"
    <3>1. source.status # "absent"
      BY <2>2 DEF ScheduleInv, NothingBeforeSource
    <3>2. PICK j \in Jobs : worker' = [worker EXCEPT ![w].pc = "load", ![w].job = j]
      BY <1>13, <2>2 DEF ClaimScan
    <3>3. Goal
      BY <3>2 DEF Goal, HoldsCopy, SchedulerPCs
    <3> QED
      BY <2>1, <3>1, <3>3 DEF Goal, OfSource
  <2>3. CASE ~\E j \in Jobs : jobs[j] = "queued"
    <3>1. Loop(w, "schedule") /\ UNCHANGED jobs
      BY <1>13, <2>3 DEF ClaimScan
    <3>2. Goal /\ worker'[w].pc = "schedule"
      BY <1>2, <3>1
    <3> QED
      BY <2>1, <3>1, <3>2 DEF Goal, OfSource
  <2> QED
    BY <2>2, <2>3
<1>14. CASE LoadSource(w) \/ Walk(w) \/ ReadComplete(w) \/ ReadFailed(w) \/ ReadCanceled(w)
            \/ SettleScan(w)
  <2>1. worker[w].pc \notin {"schedule", "poll"} /\ UNCHANGED <<source, client>>
    BY <1>14 DEF LoadSource, Walk, ReadComplete, ReadFailed, ReadCanceled, SettleScan, Step,
       StepWithCopy, TerminalJobStates
  <2>2. OfSource(source)
    BY <1>7, <2>1
  <2>3. /\ OfSource([source EXCEPT !.status = "scanning"])
        /\ OfSource(EndScan(source, "active")) /\ OfSource(EndScan(source, "failed"))
    BY <1>1, <2>2, DerivedRows DEF OfSource, SourceRows
  <2>4. ASSUME LoadSource(w) \/ Walk(w)
        PROVE  Goal
    BY <1>3, <1>4, <2>3, <2>4 DEF LoadSource, Walk, ScanPCs
  <2>5. ASSUME ReadComplete(w) \/ ReadFailed(w) \/ ReadCanceled(w)
        PROVE  Goal
    BY <1>3, <1>4, <2>3, <2>5 DEF ReadComplete, ReadFailed, ReadCanceled, ScanPCs
  <2>6. ASSUME SettleScan(w)
        PROVE  Goal
    BY <1>2, <2>6 DEF SettleScan
  <2> QED
    BY <1>7, <1>14, <2>1, <2>2, <2>4, <2>5, <2>6 DEF Goal
<1>15. CASE MarkScanning(w) \/ SaveComplete(w) \/ SaveFailed(w) \/ SaveCanceled(w)
  <2>1. PICK pc \in {"markScanning", "saveComplete", "saveFailed", "saveCanceled"},
             next \in {"walk", "succeeded", "failed", "canceled"} : SaveCopy(w, pc, next)
    BY <1>15 DEF MarkScanning, SaveComplete, SaveFailed, SaveCanceled
  <2>2. /\ worker[w].pc = pc /\ source' = worker[w].copy /\ UNCHANGED client
        /\ StepWithCopy(w, pc, next, NoSource)
    BY <2>1 DEF SaveCopy, StepWithCopy
  <2>3. OfSource(source')
    BY <1>6, <2>2 DEF HoldsCopy
  <2>4. Goal
    BY <1>4, <2>2 DEF ScanPCs
  <2> QED
    BY <1>7, <2>2, <2>3, <2>4 DEF Goal
<1>16. CASE StoreError(w)
  <2>1. worker[w].pc \notin {"schedule", "poll"} /\ UNCHANGED <<source, client>>
    BY <1>16 DEF StoreError, StepWithCopy, SchedulerPCs, TerminalJobStates
  <2>2. Goal
    BY <1>2, <1>4, <1>16 DEF StoreError, ScanPCs
  <2> QED
    BY <1>7, <2>1, <2>2 DEF Goal
<1>17. CASE Crash(w)
  <2>1. Goal /\ worker'[w].pc = "schedule"
    BY <1>2, <1>17 DEF Crash
  <2> QED
    BY <1>17, <2>1 DEF Goal, Crash, OfSource
<1> QED
  BY <1>9, <1>10, <1>11, <1>12, <1>13, <1>14, <1>15, <1>16, <1>17 DEF Work

\* A source that has been created keeps its schedule, or stays without one.
LEMMA ScheduleStep ==
  ASSUME "update" \notin Operations, IInv, ScheduleInv, [Next]_vars
  PROVE  ScheduleInv' /\ (source.scheduled => source'.scheduled)
<1> USE DEF IInv, TypeOK
<1>1. CASE CreateSource
  <2>1. /\ source.status = "absent" /\ source'.status = "active"
        /\ UNCHANGED <<worker, client>>
    BY <1>1 DEF CreateSource
  <2>2. /\ ~source.scheduled
        /\ \A w \in Workers : worker[w].pc \in {"schedule", "poll"}
        /\ \A c \in Clients : client[c].pc = "idle"
    BY <2>1 DEF ScheduleInv, NothingBeforeSource, NoSource
  <2>3. NothingBeforeSource' /\ CopiesOfSource' /\ SchedulerRests'
    BY <2>1, <2>2 DEF NothingBeforeSource, CopiesOfSource, SchedulerRests, HoldsCopy, CopyPCs,
       SchedulerPCs
  <2> QED
    BY <2>2, <2>3 DEF ScheduleInv
<1>2. CASE TimePasses
  <2>1. /\ source.next = "later" /\ source' = [source EXCEPT !.next = "due"]
        /\ UNCHANGED <<jobs, worker, client>>
    BY <1>2 DEF TimePasses
  <2>2. source'.status = source.status /\ source'.scheduled = source.scheduled
    BY <2>1 DEF SourceRows
  <2>3. source.status # "absent"
    BY <2>1 DEF ScheduleInv, NothingBeforeSource, NoSource
  <2>4. NothingBeforeSource' /\ CopiesOfSource' /\ SchedulerRests'
    BY <2>1, <2>2, <2>3 DEF ScheduleInv, NothingBeforeSource, CopiesOfSource, OfSource,
       SchedulerRests, HoldsCopy
  <2> QED
    BY <2>2, <2>4 DEF ScheduleInv
<1>3. ASSUME NEW c \in Clients, StartRequest(c) \/ ContinueRequest(c) \/ Abort(c)
      PROVE  ScheduleInv' /\ (source.scheduled => source'.scheduled)
  <2>1. /\ source.status # "absent" /\ OfSource(source')
        /\ worker' = worker
        /\ \A b \in Clients \ {c} : client'[b] = client[b]
        /\ client'[c].pc \in CopyPCs => OfSource(client'[c].copy)
    BY <1>3, RequestKeepsSchedule
  <2>2. source'.status # "absent" /\ source'.scheduled = source.scheduled
    BY <2>1 DEF OfSource
  <2>3. CopiesOfSource'
    <3>1. ASSUME NEW w \in Workers, HoldsCopy(w)'
          PROVE  OfSource(worker[w].copy)'
      BY <2>1, <2>2, <3>1 DEF ScheduleInv, CopiesOfSource, HoldsCopy, OfSource
    <3>2. ASSUME NEW b \in Clients, client'[b].pc \in CopyPCs
          PROVE  OfSource(client[b].copy)'
      BY <2>1, <2>2, <3>2 DEF ScheduleInv, CopiesOfSource, OfSource
    <3> QED
      BY <3>1, <3>2 DEF CopiesOfSource
  <2>4. NothingBeforeSource' /\ SchedulerRests'
    BY <2>1, <2>2 DEF ScheduleInv, NothingBeforeSource, SchedulerRests
  <2> QED
    BY <2>2, <2>3, <2>4 DEF ScheduleInv
<1>4. ASSUME NEW w \in Workers, Work(w) \/ StoreError(w) \/ Crash(w)
      PROVE  ScheduleInv' /\ (source.scheduled => source'.scheduled)
  <2>1. /\ client' = client
        /\ \A v \in Workers \ {w} : worker'[v] = worker[v]
        /\ HoldsCopy(w)' => OfSource(worker'[w].copy)
        /\ worker'[w].pc \in SchedulerPCs => source.scheduled
        /\ source.status = "absent" =>
             worker'[w].pc \in {"schedule", "poll"} /\ source' = source /\ jobs' = jobs
        /\ source.status # "absent" => OfSource(source')
    BY <1>4, WorkerKeepsSchedule
  <2>2. /\ source'.scheduled = source.scheduled
        /\ source.status # "absent" => source'.status # "absent"
    BY <2>1 DEF OfSource
  <2>3. CopiesOfSource'
    <3>1. ASSUME NEW v \in Workers, HoldsCopy(v)'
          PROVE  OfSource(worker[v].copy)'
      <4>1. CASE v = w
        BY <2>1, <2>2, <3>1, <4>1 DEF OfSource
      <4>2. CASE v # w
        BY <2>1, <2>2, <3>1, <4>2 DEF ScheduleInv, CopiesOfSource, HoldsCopy, OfSource
      <4> QED
        BY <4>1, <4>2
    <3>2. ASSUME NEW b \in Clients, client'[b].pc \in CopyPCs
          PROVE  OfSource(client[b].copy)'
      BY <2>1, <2>2, <3>2 DEF ScheduleInv, CopiesOfSource, OfSource
    <3> QED
      BY <3>1, <3>2 DEF CopiesOfSource
  <2>4. NothingBeforeSource'
    BY <2>1, <2>2 DEF ScheduleInv, NothingBeforeSource
  <2>5. SchedulerRests'
    BY <2>1, <2>2 DEF ScheduleInv, SchedulerRests
  <2> QED
    BY <2>2, <2>3, <2>4, <2>5 DEF ScheduleInv
<1>5. CASE UNCHANGED vars
  BY <1>5 DEF vars, ScheduleInv, NothingBeforeSource, CopiesOfSource, OfSource,
     SchedulerRests, HoldsCopy
<1> QED
  BY <1>1, <1>2, <1>3, <1>4, <1>5 DEF Next

\* A source without a schedule is scanned on request only, so that turns of the
\* requests are all it takes.
ManualScans == ~source.scheduled => SingleScan

LEMMA ManualScansStep ==
  ASSUME "update" \notin Operations, FullLists = FALSE, IInv, ScheduleInv,
         ScanRequestsTakeTurns, ManualScans, [Next]_vars
  PROVE  ManualScans'
<1> SUFFICES ASSUME ~source'.scheduled
             PROVE  SingleScan'
  BY DEF ManualScans
<1>1. ~source.scheduled
  BY ScheduleStep
<1>2. \A w \in Workers : worker[w].pc # "queueScan"
  BY <1>1 DEF ScheduleInv, SchedulerRests, SchedulerPCs
<1>3. ScanStartsTakeTurns
  BY <1>2 DEF ScanStartsTakeTurns
<1> QED
  BY <1>1, <1>3, SingleScanStep DEF ManualScans

LEMMA ScheduleInit ==
  ASSUME Init
  PROVE  ScheduleInv /\ ManualScans
<1>1. NothingBeforeSource /\ CopiesOfSource /\ SchedulerRests
  BY DEF Init, NothingBeforeSource, CopiesOfSource, SchedulerRests, NoSource, Looping,
         IdleClient, HoldsCopy, CopyPCs, SchedulerPCs
<1> QED
  BY <1>1, SingleScanInit DEF ScheduleInv, ManualScans

\* The check of RequestScan (app/data_sources.go) keeps a source without a
\* schedule to one active scan, as long as no active job is pushed off the job
\* list, nobody gives the source a schedule later, and scan requests take turns:
\* the scheduler stays out of it, and cancels, archives, failures and crashes
\* make no second scan active.
THEOREM TurnsKeepOneManualScan ==
  ASSUME "update" \notin Operations, FullLists = FALSE
  PROVE  Spec /\ []ScanRequestsTakeTurns => []OneActiveManualScan
<1>1. Init => ScheduleInv /\ ManualScans
  BY ScheduleInit
<1>2. IInv /\ ScheduleInv /\ [Next]_vars => ScheduleInv'
  BY ScheduleStep
<1>3. IInv /\ ScheduleInv /\ ScanRequestsTakeTurns /\ ManualScans /\ [Next]_vars
      => ManualScans'
  BY ManualScansStep
<1>4. ManualScans => OneActiveManualScan
  BY DEF ManualScans, SingleScan, OneActiveScan, OneActiveManualScan
<1> QED
  BY <1>1, <1>2, <1>3, <1>4, Invariance, PTL DEF Spec

-----------------------------------------------------------------------------
(***************************************************************************)
(* A source in scanning is being scanned                                   *)
(***************************************************************************)

\* The calls of a scan between its first save and its last one.
ScanningPCs == {"walk", "readComplete", "saveComplete", "readFailed", "saveFailed",
                "readCanceled", "saveCanceled"}

\* Only the scan itself holds a copy that says so, and only before its first save.
NoScanningCopies ==
    /\ \A w \in Workers :
         HoldsCopy(w) /\ worker[w].pc # "markScanning"
         => worker[w].copy.status # "scanning"
    /\ \A c \in Clients :
         client[c].pc = "saveSource" => client[c].copy.status # "scanning"

ScanningInv == NoScanningCopies /\ ScanningIsScanned

\* A request that does not update saves no such copy and makes none.
LEMMA RequestKeepsScanning ==
  ASSUME "update" \notin Operations, IInv, NoScanningCopies, NEW c \in Clients,
         StartRequest(c) \/ ContinueRequest(c) \/ Abort(c)
  PROVE  /\ worker' = worker
         /\ \A b \in Clients \ {c} : client'[b] = client[b]
         /\ source'.status = "scanning" => source.status = "scanning"
         /\ client'[c].pc = "saveSource" => client'[c].copy.status # "scanning"
<1> USE DEF IInv, TypeOK
<1>1. source \in SourceRows /\ client[c].copy \in SourceRows
  OBVIOUS
<1> DEFINE Goal == /\ \A b \in Clients \ {c} : client'[b] = client[b]
                   /\ client'[c].pc = "saveSource" => client'[c].copy.status # "scanning"
<1>2. ASSUME NEW pc, NEW copy, Open(c, pc, copy),
             pc = "saveSource" => copy.status # "scanning"
      PROVE  Goal
  BY <1>2 DEF Open
<1>3. ASSUME Return(c)
      PROVE  Goal
  BY <1>3 DEF Return, IdleClient, Looping
<1>4. ASSUME NEW pc \in {"saveJob", "saveCancel"}, NEW job,
             client' = [client EXCEPT ![c].pc = pc, ![c].job = job]
      PROVE  Goal
  BY <1>4
<1> HIDE DEF Goal
<1>5. worker' = worker
  BY DEF StartRequest, ContinueRequest, Abort, UpdateSource, ArchiveSource, RequestScan,
     CancelScan, ArchiveListJobs, ScanListJobs, SaveScanJob, CancelListJobs, SaveCancel,
     SaveSource
<1>6. source'.status = "scanning" => source.status = "scanning"
  <2>1. CASE SaveSource(c)
    BY <2>1 DEF SaveSource, NoScanningCopies
  <2>2. CASE ~SaveSource(c)
    BY <2>2 DEF StartRequest, ContinueRequest, Abort, UpdateSource, ArchiveSource,
       RequestScan, CancelScan, ArchiveListJobs, ScanListJobs, SaveScanJob, CancelListJobs,
       SaveCancel
  <2> QED
    BY <2>1, <2>2
<1>7. ASSUME StartRequest(c)
      PROVE  Goal
  <2>1. ~UpdateSource(c)
    BY DEF UpdateSource, Starts
  <2>2. ArchivedRow(source).status # "scanning"
    BY <1>1, DerivedRows
  <2> QED
    BY <1>2, <1>7, <2>1, <2>2 DEF StartRequest, ArchiveSource, RequestScan, CancelScan
<1>8. ASSUME Abort(c)
      PROVE  Goal
  BY <1>3, <1>8 DEF Abort
<1>9. ASSUME ContinueRequest(c)
      PROVE  Goal
  <2>1. ASSUME ArchiveListJobs(c)
        PROVE  Goal
    <3>1. client[c].copy.status = "archived"
      BY <2>1 DEF ArchiveListJobs, ArchiveCopies
    <3>2. ASSUME client' = [client EXCEPT ![c].pc = "saveSource"]
          PROVE  Goal
      BY <3>1, <3>2 DEF Goal
    <3> QED
      BY <1>3, <2>1, <3>2 DEF ArchiveListJobs
  <2>2. ASSUME ScanListJobs(c)
        PROVE  Goal
    <3>1. PICK n : n = nextJob
      OBVIOUS
    <3>2. Return(c) \/ client' = [client EXCEPT ![c].pc = "saveJob", ![c].job = n]
      BY <2>2, <3>1 DEF ScanListJobs
    <3> QED
      BY <1>3, <1>4, <3>2
  <2>3. ASSUME CancelListJobs(c)
        PROVE  Goal
    BY <1>3, <1>4, <2>3 DEF CancelListJobs
  <2>4. ASSUME SaveCancel(c)
        PROVE  Goal
    <3>1. EndScan(client[c].copy, "active").status # "scanning"
      BY <1>1, DerivedRows
    <3> QED
      BY <1>2, <1>3, <2>4, <3>1 DEF SaveCancel
  <2>5. ASSUME SaveScanJob(c) \/ SaveSource(c)
        PROVE  Goal
    BY <1>3, <2>5 DEF SaveScanJob, SaveSource
  <2> QED
    BY <1>9, <2>1, <2>2, <2>3, <2>4, <2>5 DEF ContinueRequest
<1> QED
  BY <1>5, <1>6, <1>7, <1>8, <1>9 DEF Goal

\* A scan marks the source before it walks, and unmarks it before it ends.
LEMMA WorkerKeepsScanning ==
  ASSUME "store" \notin Faults, "crash" \notin Faults, IInv, NoScanningCopies,
         NEW w \in Workers, Work(w) \/ StoreError(w) \/ Crash(w)
  PROVE  /\ client' = client
         /\ \A v \in Workers \ {w} : worker'[v] = worker[v]
         /\ HoldsCopy(w)' /\ worker'[w].pc # "markScanning"
              => worker'[w].copy.status # "scanning"
         /\ source'.status = "scanning" =>
              \/ worker'[w].pc \in ScanningPCs
              \/ source.status = "scanning" /\ worker[w].pc \notin ScanningPCs
<1> USE DEF IInv, TypeOK
<1>1. source \in SourceRows /\ worker[w].copy \in SourceRows
  OBVIOUS
<1> DEFINE Goal == /\ \A v \in Workers \ {w} : worker'[v] = worker[v]
                   /\ HoldsCopy(w)' /\ worker'[w].pc # "markScanning"
                        => worker'[w].copy.status # "scanning"
<1>2. ASSUME NEW pc \in {"schedule", "poll"}, Loop(w, pc)
      PROVE  Goal
  BY <1>2 DEF Loop, Looping, HoldsCopy
<1>3. ASSUME NEW pc, NEW next, Step(w, pc, next), next \in ScanPCs,
             next \notin {"markScanning", "saveComplete", "saveFailed", "saveCanceled"}
      PROVE  Goal /\ worker[w].pc = pc /\ worker'[w].pc = next
  BY <1>3 DEF Step, HoldsCopy, ScanPCs
<1>4. ASSUME NEW pc, NEW next, NEW copy, StepWithCopy(w, pc, next, copy),
             next = "markScanning" \/ copy.status # "scanning"
      PROVE  Goal /\ worker[w].pc = pc /\ worker'[w].pc = next
  BY <1>4 DEF StepWithCopy
<1>5. ASSUME HoldsCopy(w), worker[w].pc # "markScanning"
      PROVE  worker[w].copy.status # "scanning"
  BY <1>5 DEF NoScanningCopies
<1> HIDE DEF Goal
<1>6. CASE ScheduleScan(w)
  <2>1. worker[w].pc \notin ScanningPCs /\ UNCHANGED <<source, client>>
    BY <1>6 DEF ScheduleScan, ScanningPCs
  <2>2. Due(source) => source.status # "scanning"
    BY DEF Due
  <2>3. Goal
    BY <1>2, <1>4, <1>6, <2>2 DEF ScheduleScan
  <2> QED
    BY <2>1, <2>3 DEF Goal
<1>7. CASE ScheduleListJobs(w)
  <2>1. worker[w].pc = "listJobs" /\ UNCHANGED <<source, client>>
    BY <1>7 DEF ScheduleListJobs
  <2>2. worker[w].copy.status # "scanning"
    BY <1>5, <2>1 DEF HoldsCopy
  <2>3. PICK n : n = nextJob
    OBVIOUS
  <2>4. \/ Loop(w, "poll")
        \/ worker' = [worker EXCEPT ![w].pc = "queueScan", ![w].job = n]
    BY <1>7, <2>3 DEF ScheduleListJobs
  <2>5. ASSUME worker' = [worker EXCEPT ![w].pc = "queueScan", ![w].job = n]
        PROVE  Goal
    BY <2>2, <2>5 DEF Goal
  <2>6. Goal
    BY <1>2, <2>4, <2>5
  <2> QED
    BY <2>1, <2>6 DEF Goal, ScanningPCs
<1>8. CASE QueueScan(w)
  <2>1. /\ StepWithCopy(w, "queueScan", "saveSchedule", ScheduleNextScan(worker[w].copy))
        /\ worker[w].pc = "queueScan" /\ UNCHANGED <<source, client>>
    BY <1>8 DEF QueueScan, StepWithCopy
  <2>2. ScheduleNextScan(worker[w].copy).status # "scanning"
    BY <1>1, <1>5, <2>1, DerivedRows DEF HoldsCopy
  <2>3. Goal
    BY <1>4, <2>1, <2>2
  <2> QED
    BY <2>1, <2>3 DEF Goal, ScanningPCs
<1>9. CASE SaveSchedule(w)
  <2>1. worker[w].pc = "saveSchedule" /\ source' = worker[w].copy /\ UNCHANGED client
    BY <1>9 DEF SaveSchedule
  <2>2. source'.status # "scanning"
    BY <1>5, <2>1 DEF HoldsCopy
  <2>3. Goal
    BY <1>2, <1>9 DEF SaveSchedule
  <2> QED
    BY <2>1, <2>2, <2>3 DEF Goal
<1>10. CASE ClaimScan(w)
  <2>1. worker[w].pc = "poll" /\ UNCHANGED <<source, client>>
    BY <1>10 DEF ClaimScan
  <2>2. ASSUME NEW j, worker' = [worker EXCEPT ![w].pc = "load", ![w].job = j]
        PROVE  Goal
    BY <2>2 DEF Goal, HoldsCopy
  <2>3. Goal
    BY <1>2, <1>10, <2>2 DEF ClaimScan
  <2> QED
    BY <2>1, <2>3 DEF Goal, ScanningPCs
<1>11. CASE LoadSource(w) \/ Walk(w)
  <2>1. /\ worker[w].pc \in {"load", "walk"} /\ UNCHANGED <<source, client>>
        /\ worker[w].pc = "walk" => worker'[w].pc \in ScanningPCs
    BY <1>11 DEF LoadSource, Walk, Step, StepWithCopy, ScanningPCs
  <2>2. Goal
    BY <1>3, <1>4, <1>11 DEF LoadSource, Walk, ScanPCs
  <2> QED
    BY <2>1, <2>2 DEF Goal, ScanningPCs
<1>12. CASE MarkScanning(w)
  <2>1. StepWithCopy(w, "markScanning", "walk", NoSource) /\ UNCHANGED client
    BY <1>12 DEF MarkScanning, SaveCopy
  <2>2. Goal /\ worker'[w].pc = "walk"
    BY <1>4, <2>1 DEF NoSource
  <2> QED
    BY <2>1, <2>2 DEF Goal, ScanningPCs
<1>13. CASE ReadComplete(w) \/ ReadFailed(w) \/ ReadCanceled(w)
  <2>1. /\ UNCHANGED <<source, client>>
        /\ source.status = "scanning" => worker'[w].pc \in ScanningPCs
    BY <1>13 DEF ReadComplete, ReadFailed, ReadCanceled, Step, StepWithCopy, ScanningPCs
  <2>2. /\ EndScan(source, "active").status # "scanning"
        /\ EndScan(source, "failed").status # "scanning"
    BY <1>1, DerivedRows
  <2>3. Goal
    BY <1>3, <1>4, <1>13, <2>2 DEF ReadComplete, ReadFailed, ReadCanceled, ScanPCs
  <2> QED
    BY <2>1, <2>3 DEF Goal
<1>14. CASE SaveComplete(w) \/ SaveFailed(w) \/ SaveCanceled(w)
  <2>1. PICK pc \in {"saveComplete", "saveFailed", "saveCanceled"},
             next \in {"succeeded", "failed", "canceled"} : SaveCopy(w, pc, next)
    BY <1>14 DEF SaveComplete, SaveFailed, SaveCanceled
  <2>2. /\ worker[w].pc = pc /\ source' = worker[w].copy /\ UNCHANGED client
        /\ StepWithCopy(w, pc, next, NoSource)
    BY <2>1 DEF SaveCopy, StepWithCopy
  <2>3. source'.status # "scanning"
    BY <1>5, <2>2 DEF HoldsCopy
  <2>4. Goal
    BY <1>4, <2>2 DEF NoSource
  <2> QED
    BY <2>2, <2>3, <2>4 DEF Goal
<1>15. CASE SettleScan(w)
  <2>1. worker[w].pc \notin ScanningPCs /\ UNCHANGED <<source, client>>
    BY <1>15 DEF SettleScan, TerminalJobStates, ScanningPCs
  <2>2. Goal
    BY <1>2, <1>15 DEF SettleScan
  <2> QED
    BY <2>1, <2>2 DEF Goal
<1>16. ~StoreError(w) /\ ~Crash(w)
  BY DEF StoreError, Crash
<1> QED
  BY <1>6, <1>7, <1>8, <1>9, <1>10, <1>11, <1>12, <1>13, <1>14, <1>15, <1>16 DEF Work

LEMMA ScanningStep ==
  ASSUME "update" \notin Operations, "store" \notin Faults, "crash" \notin Faults,
         IInv, ScanningInv, [Next]_vars
  PROVE  ScanningInv'
<1> USE DEF IInv, TypeOK
<1>1. ASSUME NEW c \in Clients, StartRequest(c) \/ ContinueRequest(c) \/ Abort(c)
      PROVE  ScanningInv'
  <2>1. /\ worker' = worker
        /\ \A b \in Clients \ {c} : client'[b] = client[b]
        /\ source'.status = "scanning" => source.status = "scanning"
        /\ client'[c].pc = "saveSource" => client'[c].copy.status # "scanning"
    BY <1>1, RequestKeepsScanning DEF ScanningInv
  <2>2. NoScanningCopies'
    BY <2>1 DEF ScanningInv, NoScanningCopies, HoldsCopy
  <2>3. ScanningIsScanned'
    BY <2>1 DEF ScanningInv, ScanningIsScanned
  <2> QED
    BY <2>2, <2>3 DEF ScanningInv
<1>2. ASSUME NEW w \in Workers, Work(w) \/ StoreError(w) \/ Crash(w)
      PROVE  ScanningInv'
  <2>1. /\ client' = client
        /\ \A v \in Workers \ {w} : worker'[v] = worker[v]
        /\ HoldsCopy(w)' /\ worker'[w].pc # "markScanning"
             => worker'[w].copy.status # "scanning"
        /\ source'.status = "scanning" =>
             \/ worker'[w].pc \in ScanningPCs
             \/ source.status = "scanning" /\ worker[w].pc \notin ScanningPCs
    BY <1>2, WorkerKeepsScanning DEF ScanningInv
  <2>2. NoScanningCopies'
    <3>1. ASSUME NEW v \in Workers, HoldsCopy(v)', worker'[v].pc # "markScanning"
          PROVE  worker'[v].copy.status # "scanning"
      <4>1. CASE v = w
        BY <2>1, <3>1, <4>1
      <4>2. CASE v # w
        BY <2>1, <3>1, <4>2 DEF ScanningInv, NoScanningCopies, HoldsCopy
      <4> QED
        BY <4>1, <4>2
    <3> QED
      BY <2>1, <3>1 DEF ScanningInv, NoScanningCopies
  <2>3. ScanningIsScanned'
    BY <2>1 DEF ScanningInv, ScanningIsScanned, ScanningPCs
  <2> QED
    BY <2>2, <2>3 DEF ScanningInv
<1>3. CASE CreateSource
  BY <1>3 DEF CreateSource, ScanningInv, NoScanningCopies, ScanningIsScanned, HoldsCopy
<1>4. CASE TimePasses
  <2>1. source'.status = source.status /\ UNCHANGED <<worker, client>>
    BY <1>4 DEF TimePasses, SourceRows
  <2> QED
    BY <2>1 DEF ScanningInv, NoScanningCopies, ScanningIsScanned, HoldsCopy
<1>5. CASE UNCHANGED vars
  BY <1>5 DEF vars, ScanningInv, NoScanningCopies, ScanningIsScanned, HoldsCopy
<1> QED
  BY <1>1, <1>2, <1>3, <1>4, <1>5 DEF Next

\* While nobody updates the source, no repository call fails and no process
\* stops, a source that says "scanning" is being scanned, whoever schedules,
\* cancels, archives or gives up at the same time: scanSource and its three
\* endings (worker/source_scan.go) save another status before the scan ends, and
\* no stale copy of a request or of the scheduler says "scanning".
THEOREM ScanningBelongsToAScan ==
  ASSUME "update" \notin Operations, "store" \notin Faults, "crash" \notin Faults
  PROVE  Spec => []ScanningIsScanned
<1>1. Init => ScanningInv
  BY DEF Init, ScanningInv, NoScanningCopies, ScanningIsScanned, HoldsCopy, Looping,
         IdleClient, NoSource
<1>2. IInv /\ ScanningInv /\ [Next]_vars => ScanningInv'
  BY ScanningStep
<1>3. ScanningInv => ScanningIsScanned
  BY DEF ScanningInv
<1> QED
  BY <1>1, <1>2, <1>3, Invariance, PTL DEF Spec
=============================================================================
