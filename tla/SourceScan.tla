----------------------------- MODULE SourceScan -----------------------------
(***************************************************************************)
(* The life of one source: the requests of app/data_sources.go that create *)
(* it, update, archive and scan it or cancel a scan, the scheduler of      *)
(* worker/source_scheduler.go and the scans of worker/source_scan.go.      *)
(*                                                                         *)
(* As everywhere in this system, every repository call is a step of its    *)
(* own, and SaveDataSource writes the caller's whole copy of the row: the  *)
(* copy is part of a worker's or request's state here, for it decides      *)
(* which changes of others are lost.  Sources share nothing but the order  *)
(* of their jobs, so one is enough; what a scan does to documents is not   *)
(* part of this module, and the row locks of a claim are modelled in       *)
(* DocumentIngestion.                                                      *)
(***************************************************************************)
EXTENDS Naturals, Domain

CONSTANTS
    MaxJobs,     \* bound: how many scan jobs a behaviour may create
    Workers,     \* worker processes, each with one polling loop
    Clients,     \* requests that run at the same time
    Operations,  \* what clients may ask for, a subset of AllOperations
    Schedules,   \* whether a source may have a scan interval, or may have none
    FullLists,   \* whether other jobs may push a scan job off a job list
    Faults       \* what may go wrong, a subset of AllFaults

AllOperations == {"update", "archive", "scan", "cancel"}

AllFaults == {"abort", "store", "crash"}

ASSUME ScanAssumption ==
    /\ MaxJobs \in Nat
    /\ Operations \subseteq AllOperations
    /\ Schedules \subseteq BOOLEAN
    /\ FullLists \in BOOLEAN
    /\ Faults \subseteq AllFaults

VARIABLES
    source,   \* the data source row
    jobs,     \* source_scan job row -> its state
    nextJob,  \* the creation time of the next job
    worker,   \* worker -> its next call, job and copy of the source
    client    \* request -> its next call, job and copy of the source

vars == <<source, jobs, nextJob, worker, client>>

Jobs == 1 .. MaxJobs
NoJob == 0

\* The row: ScanIntervalMinutes > 0, and whether NextScanAt is nil, in the
\* future or reached.
SourceRows == [status : DataSourceStatuses \cup {"absent"},
               scheduled : BOOLEAN,
               next : {"none", "later", "due"}]

NoSource == [status |-> "absent", scheduled |-> FALSE, next |-> "none"]

SchedulerPCs == {"listJobs", "queueScan", "saveSchedule"}
ScanPCs == {"load", "markScanning", "walk", "readComplete", "saveComplete",
            "readFailed", "saveFailed", "readCanceled", "saveCanceled",
            "succeeded", "failed", "canceled"}
WorkerPCs == {"schedule", "poll"} \cup SchedulerPCs \cup ScanPCs
ClientPCs == {"idle", "archiveJobs", "scanJobs", "cancelJobs", "saveJob",
              "saveCancel", "saveSource"}

Looping(pc) == [pc |-> pc, job |-> NoJob, copy |-> NoSource]
IdleClient == Looping("idle")

TypeOK ==
    /\ source \in SourceRows
    /\ jobs \in [Jobs -> JobStates \cup {"absent"}]
    /\ nextJob \in 1 .. MaxJobs + 1
    /\ worker \in [Workers ->
         [pc : WorkerPCs, job : Jobs \cup {NoJob}, copy : SourceRows]]
    /\ client \in [Clients ->
         [pc : ClientPCs, job : Jobs \cup {NoJob}, copy : SourceRows]]

Init ==
    /\ source = NoSource
    /\ jobs = [j \in Jobs |-> "absent"]
    /\ nextJob = 1
    /\ worker = [w \in Workers |-> Looping("schedule")]
    /\ client = [c \in Clients |-> IdleClient]

-----------------------------------------------------------------------------
(***************************************************************************)
(* The methods of a source row and the job list                            *)
(***************************************************************************)

ScheduleNextScan(s) ==
    [s EXCEPT !.next =
        IF s.scheduled /\ s.status # "archived" THEN "later" ELSE "none"]

\* CompleteScan, FailScan and CancelScan leave the row in this status.
EndScan(s, status) == ScheduleNextScan([s EXCEPT !.status = status])

\* Update: another interval computes NextScanAt from the last scan, the same
\* one keeps it, and no interval clears it.
UpdateRows(s) ==
    {[s EXCEPT !.scheduled = n # "none", !.next = n] :
        n \in {m \in {"none", "later", "due"} : (m # "none") \in Schedules}}

\* Mutant of ArchivedRow: the schedule of an archived source is kept.
ArchivedRowScheduled(s) == [s EXCEPT !.status = "archived"]

ArchivedRow(s) == [s EXCEPT !.status = "archived", !.next = "none"]

\* ListJobs returns the 100 jobs of the workspace that changed last, those of
\* the documents a scan imports among them: an active scan job may be missing.
Listed == IF FullLists THEN SUBSET Jobs ELSE {Jobs}

\* Mutants of ActiveIn: a job is active while it is running, or once it exists.
RunningIn(list) == {j \in list : jobs[j] = "running"}
ExistingIn(list) == {j \in list : jobs[j] # "absent"}

ActiveIn(list) == {j \in list : jobs[j] \in ActiveJobStates}

-----------------------------------------------------------------------------
(***************************************************************************)
(* Requests                                                                *)
(***************************************************************************)

Starts(c, op) == op \in Operations /\ client[c].pc = "idle"

\* The request holds this copy of the row; its next call is pc.
Open(c, pc, copy) ==
    client' = [client EXCEPT ![c] = [pc |-> pc, job |-> NoJob, copy |-> copy]]

Return(c) == client' = [client EXCEPT ![c] = IdleClient]

CreateSource ==
    /\ source.status = "absent"
    /\ \E i \in Schedules :
         source' = [status |-> "active", scheduled |-> i,
                    next |-> IF i THEN "due" ELSE "none"]
    /\ UNCHANGED <<jobs, nextJob, worker, client>>

UpdateSource(c) ==
    /\ Starts(c, "update")
    /\ source.status \notin {"absent", "archived"}
    /\ \E copy \in UpdateRows(source) : Open(c, "saveSource", copy)
    /\ UNCHANGED <<source, jobs, nextJob, worker>>

\* Archive, with its documents or without: only the former looks at the jobs.
ArchiveSource(c) ==
    /\ Starts(c, "archive")
    /\ DataSourceCanTransition(source.status, "archived")
    /\ \E pc \in {"archiveJobs", "saveSource"} : Open(c, pc, ArchivedRow(source))
    /\ UNCHANGED <<source, jobs, nextJob, worker>>

ArchiveListJobs(c) ==
    /\ client[c].pc = "archiveJobs"
    /\ \E list \in Listed :
         IF ActiveIn(list) # {}
         THEN Return(c)
         ELSE client' = [client EXCEPT ![c].pc = "saveSource"]
    /\ UNCHANGED <<source, jobs, nextJob, worker>>

RequestScan(c) ==
    /\ Starts(c, "scan")
    /\ source.status \notin {"absent", "archived"}
    /\ Open(c, "scanJobs", NoSource)
    /\ UNCHANGED <<source, jobs, nextJob, worker>>

\* An active scan refuses another one; so may a path check or an import plan
\* that is active or has failed, neither of which is modelled.
ScanListJobs(c) ==
    /\ client[c].pc = "scanJobs"
    /\ \E list \in Listed :
         \/ Return(c) /\ UNCHANGED nextJob
         \/ /\ ActiveIn(list) = {}
            /\ nextJob <= MaxJobs
            /\ nextJob' = nextJob + 1
            /\ client' = [client EXCEPT ![c].pc = "saveJob", ![c].job = nextJob]
    /\ UNCHANGED <<source, jobs, worker>>

SaveScanJob(c) ==
    /\ client[c].pc = "saveJob"
    /\ jobs' = [jobs EXCEPT ![client[c].job] = "queued"]
    /\ Return(c)
    /\ UNCHANGED <<source, nextJob, worker>>

CancelScan(c) ==
    /\ Starts(c, "cancel")
    /\ source.status # "absent"
    /\ Open(c, "cancelJobs", source)
    /\ UNCHANGED <<source, jobs, nextJob, worker>>

CancelListJobs(c) ==
    /\ client[c].pc = "cancelJobs"
    /\ \E list \in Listed :
         \/ ActiveIn(list) = {} /\ Return(c)
         \/ \E j \in ActiveIn(list) :
              client' = [client EXCEPT ![c].pc = "saveCancel", ![c].job = j]
    /\ UNCHANGED <<source, jobs, nextJob, worker>>

\* The copy of the job, canceled, whatever has become of the row meanwhile; the
\* source follows if its copy is scanning.
SaveCancel(c) ==
    /\ client[c].pc = "saveCancel"
    /\ jobs' = [jobs EXCEPT ![client[c].job] = "canceled"]
    /\ IF client[c].copy.status = "scanning"
       THEN Open(c, "saveSource", EndScan(client[c].copy, "active"))
       ELSE Return(c)
    /\ UNCHANGED <<source, nextJob, worker>>

\* The last call of an update, an archive and a cancel.
SaveSource(c) ==
    /\ client[c].pc = "saveSource"
    /\ source' = client[c].copy
    /\ Return(c)
    /\ UNCHANGED <<jobs, nextJob, worker>>

\* A call of the request fails, its client has gone, or the process dies.
Abort(c) ==
    /\ "abort" \in Faults
    /\ client[c].pc # "idle"
    /\ Return(c)
    /\ UNCHANGED <<source, jobs, nextJob, worker>>

StartRequest(c) ==
    UpdateSource(c) \/ ArchiveSource(c) \/ RequestScan(c) \/ CancelScan(c)

ContinueRequest(c) ==
    \/ ArchiveListJobs(c)
    \/ ScanListJobs(c)
    \/ SaveScanJob(c)
    \/ CancelListJobs(c)
    \/ SaveCancel(c)
    \/ SaveSource(c)

-----------------------------------------------------------------------------
(***************************************************************************)
(* Workers                                                                 *)
(***************************************************************************)

Step(w, pc, next) ==
    /\ worker[w].pc = pc
    /\ worker' = [worker EXCEPT ![w].pc = next]

StepWithCopy(w, pc, next, copy) ==
    /\ worker[w].pc = pc
    /\ worker' = [worker EXCEPT ![w].pc = next, ![w].copy = copy]

\* The loop goes on: to the claim of a job, or to its next iteration.
Loop(w, pc) == worker' = [worker EXCEPT ![w] = Looping(pc)]

\* ListDueDataSources, and dataSourceDueForScan on the row that is read again.
Due(s) == s.scheduled /\ s.next = "due" /\ s.status \in {"active", "failed"}

ScheduleScan(w) ==
    /\ worker[w].pc = "schedule"
    /\ IF Due(source)
       THEN StepWithCopy(w, "schedule", "listJobs", source)
       ELSE Loop(w, "poll")
    /\ UNCHANGED <<source, jobs, nextJob, client>>

\* The source is skipped if a scan of it is active, and at the bound of jobs.
ScheduleListJobs(w) ==
    /\ worker[w].pc = "listJobs"
    /\ \E list \in Listed :
         \/ /\ ActiveIn(list) # {} \/ nextJob > MaxJobs
            /\ Loop(w, "poll")
            /\ UNCHANGED nextJob
         \/ /\ ActiveIn(list) = {}
            /\ nextJob <= MaxJobs
            /\ nextJob' = nextJob + 1
            /\ worker' = [worker EXCEPT ![w].pc = "queueScan", ![w].job = nextJob]
    /\ UNCHANGED <<source, jobs, client>>

QueueScan(w) ==
    /\ StepWithCopy(w, "queueScan", "saveSchedule",
                    ScheduleNextScan(worker[w].copy))
    /\ jobs' = [jobs EXCEPT ![worker[w].job] = "queued"]
    /\ UNCHANGED <<source, nextJob, client>>

SaveSchedule(w) ==
    /\ worker[w].pc = "saveSchedule"
    /\ source' = worker[w].copy
    /\ Loop(w, "poll")
    /\ UNCHANGED <<jobs, nextJob, client>>

\* Mutant of ClaimScan: the claimed row is not marked.
ClaimScanUnmarked(w) ==
    /\ worker[w].pc = "poll"
    /\ IF \E j \in Jobs : jobs[j] = "queued"
       THEN \E j \in Jobs :
              /\ jobs[j] = "queued"
              /\ worker' = [worker EXCEPT ![w].pc = "load", ![w].job = j]
       ELSE Loop(w, "schedule")
    /\ UNCHANGED <<source, jobs, nextJob, client>>

\* ClaimNextQueuedJob, in one step.
ClaimScan(w) ==
    /\ worker[w].pc = "poll"
    /\ IF \E j \in Jobs : jobs[j] = "queued"
       THEN \E j \in Jobs :
              /\ jobs[j] = "queued"
              /\ \A k \in Jobs : jobs[k] = "queued" => j <= k
              /\ jobs' = [jobs EXCEPT ![j] = "running"]
              /\ worker' = [worker EXCEPT ![w].pc = "load", ![w].job = j]
       ELSE Loop(w, "schedule") /\ UNCHANGED jobs
    /\ UNCHANGED <<source, nextJob, client>>

\* Mutant of LoadSource: an archived source is scanned.
LoadSourceUnchecked(w) ==
    /\ \/ source.status = "scanning" /\ Step(w, "load", "walk")
       \/ /\ source.status # "scanning"
          /\ StepWithCopy(w, "load", "markScanning",
                          [source EXCEPT !.status = "scanning"])
    /\ UNCHANGED <<source, jobs, nextJob, client>>

\* Mutant of LoadSource: the source is given the state of the job.
LoadSourceRunning(w) ==
    /\ StepWithCopy(w, "load", "markScanning", [source EXCEPT !.status = "running"])
    /\ UNCHANGED <<source, jobs, nextJob, client>>

\* processClaimedJob up to its first save.
LoadSource(w) ==
    /\ \/ source.status = "archived" /\ Step(w, "load", "canceled")
       \/ source.status = "scanning" /\ Step(w, "load", "walk")
       \/ /\ source.status \notin {"archived", "scanning"}
          /\ StepWithCopy(w, "load", "markScanning",
                          [source EXCEPT !.status = "scanning"])
    /\ UNCHANGED <<source, jobs, nextJob, client>>

\* SaveDataSource at pc, and what follows.
SaveCopy(w, pc, next) ==
    /\ source' = worker[w].copy
    /\ StepWithCopy(w, pc, next, NoSource)
    /\ UNCHANGED <<jobs, nextJob, client>>

MarkScanning(w) == SaveCopy(w, "markScanning", "walk")

\* scanSource asks before every file, and once after the last, whether its job
\* was canceled.  A root it cannot read and a failed save end it at any time.
Walk(w) ==
    /\ \/ Step(w, "walk", "readCanceled") /\ jobs[worker[w].job] = "canceled"
       \/ Step(w, "walk", "readComplete") /\ jobs[worker[w].job] # "canceled"
       \/ Step(w, "walk", "readFailed")
    /\ UNCHANGED <<source, jobs, nextJob, client>>

\* The row is read again when the scan is over, for it may have changed.
ReadComplete(w) ==
    /\ \/ source.status = "archived" /\ Step(w, "readComplete", "succeeded")
       \/ /\ source.status # "archived"
          /\ StepWithCopy(w, "readComplete", "saveComplete", EndScan(source, "active"))
    /\ UNCHANGED <<source, jobs, nextJob, client>>

SaveComplete(w) == SaveCopy(w, "saveComplete", "succeeded")

\* Mutant of ReadFailed: the source of a failed scan is left as it is.
ReadFailedUnsaved(w) ==
    /\ Step(w, "readFailed", "failed")
    /\ UNCHANGED <<source, jobs, nextJob, client>>

\* markSourceFailed
ReadFailed(w) ==
    /\ \/ source.status = "archived" /\ Step(w, "readFailed", "failed")
       \/ /\ source.status # "archived"
          /\ StepWithCopy(w, "readFailed", "saveFailed", EndScan(source, "failed"))
    /\ UNCHANGED <<source, jobs, nextJob, client>>

SaveFailed(w) == SaveCopy(w, "saveFailed", "failed")

\* Mutant of ReadCanceled: the cancel itself is trusted to save the source.
ReadCanceledUnsaved(w) ==
    /\ Step(w, "readCanceled", "canceled")
    /\ UNCHANGED <<source, jobs, nextJob, client>>

\* markSourceCanceled
ReadCanceled(w) ==
    /\ \/ source.status # "scanning" /\ Step(w, "readCanceled", "canceled")
       \/ /\ source.status = "scanning"
          /\ StepWithCopy(w, "readCanceled", "saveCanceled", EndScan(source, "active"))
    /\ UNCHANGED <<source, jobs, nextJob, client>>

SaveCanceled(w) == SaveCopy(w, "saveCanceled", "canceled")

\* Mutant of SettleScan: a failed scan is queued again.
SettleScanRequeues(w) ==
    /\ worker[w].pc \in TerminalJobStates
    /\ jobs' = [jobs EXCEPT ![worker[w].job] =
                  IF worker[w].pc = "failed" THEN "queued" ELSE worker[w].pc]
    /\ Loop(w, "schedule")
    /\ UNCHANGED <<source, nextJob, client>>

\* Mutant of SettleScan: the job of a failed scan is not saved.
SettleScanForgets(w) ==
    /\ worker[w].pc \in TerminalJobStates
    /\ IF worker[w].pc = "failed"
       THEN UNCHANGED jobs
       ELSE jobs' = [jobs EXCEPT ![worker[w].job] = worker[w].pc]
    /\ Loop(w, "schedule")
    /\ UNCHANGED <<source, nextJob, client>>

\* ProcessNext saves its copy of the job in the state the scan ended in.
SettleScan(w) ==
    /\ worker[w].pc \in TerminalJobStates
    /\ jobs' = [jobs EXCEPT ![worker[w].job] = worker[w].pc]
    /\ Loop(w, "schedule")
    /\ UNCHANGED <<source, nextJob, client>>

\* A repository call fails.  The scheduler's error is logged and the loop goes
\* on; an error of a scan fails its job, the one of a last save is dropped.
StoreError(w) ==
    /\ "store" \in Faults
    /\ \/ worker[w].pc \in SchedulerPCs /\ Loop(w, "poll")
       \/ \E pc \in {"load", "markScanning", "readComplete", "saveComplete",
                     "readFailed", "saveFailed"} :
             StepWithCopy(w, pc, "failed", NoSource)
       \/ \E pc \in {"readCanceled", "saveCanceled"} :
             StepWithCopy(w, pc, "canceled", NoSource)
       \/ worker[w].pc \in TerminalJobStates /\ Loop(w, "schedule")
    /\ UNCHANGED <<source, jobs, nextJob, client>>

\* The worker process dies or is told to stop, and starts again.
Crash(w) ==
    /\ "crash" \in Faults
    /\ worker[w].pc # "schedule"
    /\ Loop(w, "schedule")
    /\ UNCHANGED <<source, jobs, nextJob, client>>

Work(w) ==
    \/ ScheduleScan(w)
    \/ ScheduleListJobs(w)
    \/ QueueScan(w)
    \/ SaveSchedule(w)
    \/ ClaimScan(w)
    \/ LoadSource(w)
    \/ MarkScanning(w)
    \/ Walk(w)
    \/ ReadComplete(w)
    \/ SaveComplete(w)
    \/ ReadFailed(w)
    \/ SaveFailed(w)
    \/ ReadCanceled(w)
    \/ SaveCanceled(w)
    \/ SettleScan(w)

\* The next scan of the source falls due.
TimePasses ==
    /\ source.next = "later"
    /\ source' = [source EXCEPT !.next = "due"]
    /\ UNCHANGED <<jobs, nextJob, worker, client>>

-----------------------------------------------------------------------------
Next ==
    \/ CreateSource
    \/ TimePasses
    \/ \E c \in Clients : StartRequest(c) \/ ContinueRequest(c) \/ Abort(c)
    \/ \E w \in Workers : Work(w) \/ StoreError(w) \/ Crash(w)

Spec == Init /\ [][Next]_vars

\* A started request runs to its end, every worker keeps looping, and time
\* passes; nobody has to make a request, and no fault has to happen.
Fairness ==
    /\ WF_vars(TimePasses)
    /\ \A c \in Clients : WF_vars(ContinueRequest(c))
    /\ \A w \in Workers : WF_vars(Work(w))

FairSpec == Spec /\ Fairness

-----------------------------------------------------------------------------
(***************************************************************************)
(* Properties                                                              *)
(***************************************************************************)

Scanning(w) == worker[w].pc \in ScanPCs

\* A worker that is scanning has the job to itself, however many workers poll:
\* nobody else scans for it, and nobody settles it but a request that cancels it.
ScannedOnce ==
    /\ \A v, w \in Workers :
         Scanning(v) /\ Scanning(w) /\ worker[v].job = worker[w].job => v = w
    /\ \A w \in Workers :
         Scanning(w) => jobs[worker[w].job] \in {"running", "canceled"}

\* No save of a stale copy of a job puts it back into the queue, so that it
\* would be run again.
NeverRequeued ==
    [][\A j \in Jobs :
         jobs[j] \notin {"absent", "queued"}
         => jobs'[j] \notin {"absent", "queued"}]_vars

\* The schedule of a source belongs to its interval and status, whichever whole
\* row was saved last: a scan is due, now or later, if and only if the source
\* has an interval and is not archived.
ScheduleMatchesSource ==
    source.next # "none" <=> source.scheduled /\ source.status # "archived"

\* Workers and requests that hold a copy of the row which they will save.
HoldsCopy(w) ==
    worker[w].pc \in {"listJobs", "queueScan", "saveSchedule", "markScanning",
                      "saveComplete", "saveFailed", "saveCanceled"}
WillRevive(c) ==
    \/ client[c].pc \in {"cancelJobs", "saveCancel"}
       /\ client[c].copy.status = "scanning"
    \/ client[c].pc = "saveSource" /\ client[c].copy.status # "archived"

\* An archive that meets no save in flight is final: the source stays archived
\* and nobody starts to scan, schedule, update or revive it.
Quiet ==
    /\ \A w \in Workers : ~HoldsCopy(w)
    /\ \A c \in Clients : ~WillRevive(c)

QuietArchiveIsFinal ==
    [][source.status = "archived" /\ Quiet
       => source'.status = "archived" /\ Quiet']_vars

\* A source says that it is being scanned only while a worker is scanning it.
ScanningIsScanned ==
    source.status = "scanning" =>
        \E w \in Workers :
            worker[w].pc \in {"walk", "readComplete", "saveComplete", "readFailed",
                              "saveFailed", "readCanceled", "saveCanceled"}

\* Scan requests that have looked for an active scan and found none take turns:
\* each has saved its job, or given up, before another one gets past its check.
ScanRequestsTakeTurns ==
    \A b, c \in Clients :
        client[b].pc = "saveJob" /\ client[c].pc = "saveJob" => b = c

\* The check of a scan request keeps a source to a single active scan job, if
\* requests take turns and the source has no schedule.
OneActiveManualScan ==
    ~source.scheduled =>
        \A i, j \in Jobs :
            jobs[i] \in ActiveJobStates /\ jobs[j] \in ActiveJobStates => i = j

\* A scan job changes its state along the documented machine, unless a cancel
\* is late or is saved over.
OnlyCancelsLeaveTheMachine ==
    [][\A j \in Jobs :
         jobs'[j] # jobs[j] /\ jobs[j] # "absent"
         => \/ JobCanTransition(jobs[j], jobs'[j])
            \/ "canceled" \in {jobs[j], jobs'[j]}]_vars

\* Every queued or running scan ends.
EveryScanEnds ==
    \A j \in Jobs :
        jobs[j] \in {"queued", "running"} ~> jobs[j] \in TerminalJobStates

\* A source does not stay in scanning: docs/workers.md, "Transition source
\* `scanning -> active`", or to failed.
ScanningEnds == source.status = "scanning" ~> source.status # "scanning"

\* A scan that has fallen due is started, or put off because somebody else has
\* just scanned, unless the source is archived, loses its interval or the bound
\* of jobs is reached.
DueScansHappen ==
    Due(source) ~> ~Due(source) \/ nextJob > MaxJobs
=============================================================================
