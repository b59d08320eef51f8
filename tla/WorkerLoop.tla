----------------------------- MODULE WorkerLoop -----------------------------
(***************************************************************************)
(* The loop of each worker process (cmd/worker/main.go): it queues a scan  *)
(* that is due, then runs one path check, else one import plan, else one   *)
(* scan, else a batch of document ingestions, and sleeps only when it      *)
(* found nothing to do.  Requests queue checks, plans and scans and refuse *)
(* what earlier checks of the source forbid (app/data_sources.go,          *)
(* worker/source_preflight.go, source_plan.go, source_scheduler.go,        *)
(* ingestion_batch.go).                                                    *)
(*                                                                         *)
(* A check is outdated when its job's UpdatedAt is before the source row's.*)
(* Both times are readings of the clock taken before the save they are     *)
(* stored by, and a row is saved whole, from a copy read earlier: each     *)
(* call of the repository is a step of its own here, and a save may store  *)
(* any reading of the clock since the call before it.                      *)
(*                                                                         *)
(* What a scan and an ingestion do in detail, cancels of jobs, and what    *)
(* remains when a worker dies, is in SourceScan, SourceImport and          *)
(* DocumentIngestion; here they are claimed and run to their end.  All     *)
(* processes read one clock.  Requests see all jobs: MaxJobs stays far     *)
(* below the 100 of ListJobs.                                              *)
(***************************************************************************)
EXTENDS Integers, Sequences, FiniteSets

CONSTANTS
  Workers,      \* the worker processes
  Concurrency,  \* WORKER_DOCUMENT_CONCURRENCY
  Clients,      \* requests that run at the same time
  Roots,        \* root paths
  MaxJobs,      \* bound on the jobs that are created
  MaxTime,      \* bound on the clock
  Setups        \* what happens, see setup

None == "none"
NoJob == 0
Checks == {"preflight", "plan"}
Types == Checks \cup {"scan", "ingest"}
Routines == Workers \X (1..Concurrency)
Actors == Workers \cup Clients
Changes == {"update", "archive", "cancel", "error"}

ASSUME LoopAssumption ==
  /\ {Concurrency, MaxJobs, MaxTime} \subseteq Nat
  /\ Concurrency >= 1 /\ MaxJobs >= 1
  /\ None \notin Roots
  /\ Workers \cap Clients = {}
  /\ Setups \subseteq [types : SUBSET Types, changes : SUBSET Changes,
                       maxChanges : Nat, maxTime : 0..MaxTime,
                       root : Roots, bad : SUBSET Roots, scheduled : BOOLEAN,
                       queued : Types \cup {None}]

VARIABLES
  setup,    \* which jobs are requested, what changes or fails and how often, the
            \* bound on the clock, the source's first root path, those that
            \* cannot be read, whether the source has a scan interval, and a
            \* job that is queued when the workers start
  clock,    \* the time
  jobs,     \* the job rows in the order of their creation
  source,   \* the source row
  worker,   \* worker -> where its loop is and the job it runs
  routine,  \* goroutine of a batch -> its state and job
  client,   \* request -> its next call and the type of its job
  held,     \* worker or request -> its copy of the source row, when it read
            \* the clock or the row first, and the checks that had ended then
  seen,     \* job -> what its check has read, and whether a save of the source
            \* row was under way while the check was
  changes   \* how often something has changed or failed

vars == <<setup, clock, jobs, source, worker, routine, client, held, seen, changes>>

----------------------------------------------------------------------------
(* Jobs. *)

States == {"queued", "running", "succeeded", "failed", "canceled"}
Job == [type : Types, state : States, updated : 0..MaxTime]

\* Only the times of checks are compared with anything.
Stamp(type, time) == IF type \in Checks THEN time ELSE 0

\* Mutant: a state that jobs do not have.
NewJobUnsaved(type, time) == [type |-> type, state |-> "new", updated |-> Stamp(type, time)]

NewJob(type, time) == [type |-> type, state |-> "queued", updated |-> Stamp(type, time)]

Active(j) == jobs[j].state \in {"queued", "running"}
HasActive(type) == \E j \in DOMAIN jobs : jobs[j].type = type /\ Active(j)

SetJob(j, state, time) ==
  jobs' = [jobs EXCEPT ![j] = [type |-> @.type, state |-> state,
                               updated |-> Stamp(@.type, time)]]

QueueJob(type, time) == jobs' = Append(jobs, NewJob(type, time))

\* Bound: one more job can be created, besides those that are on their way.
HasRoom == Len(jobs) < MaxJobs
OnTheWay ==
  {c \in Clients : client[c].at \in {"list", "save"}} \cup {w \in Workers : worker[w].at = "queue"}
Room == HasRoom /\ Len(jobs) + Cardinality(OnTheWay) < MaxJobs

\* Bound: one more change or failure of this kind.
Change(kind) ==
  /\ kind \in setup.changes
  /\ changes < setup.maxChanges
  /\ changes' = changes + 1

----------------------------------------------------------------------------
(* The source row and the copies of it. *)

Source == [root : Roots, status : {"idle", "scanning", "archived"}, updated : 0..MaxTime]
FirstRow == [root |-> setup.root, status |-> "idle", updated |-> 0]

\* Nobody looks at the row of a copy that has not been read.
NoCopy == [row |-> FirstRow, since |-> 0, ended |-> {}]

\* The checks that have read the source and ended.
Ended == {j \in DOMAIN jobs : ~Active(j) /\ seen[j].root # None}

Read(a) == held' = [held EXCEPT ![a] = [row |-> source, since |-> clock, ended |-> Ended]]
Forget(a) == held' = [held EXCEPT ![a] = NoCopy]

\* The readings of the clock since a's last call.
Readings(a) == held[a].since..clock

\* Mutant: the row keeps its old time.
TouchedNot(row, time) == row

\* The row with its new UpdatedAt.
Touched(row, time) == [row EXCEPT !.updated = time]

\* Actor a saves this row.  It overlaps the checks that had not ended when a
\* began.
SaveSource(a, row, time) ==
  /\ source' = Touched(row, time)
  /\ seen' = [j \in DOMAIN seen |->
       [seen[j] EXCEPT !.raced = @ \/ (seen[j].root # None /\ j \notin held[a].ended)]]

----------------------------------------------------------------------------

Init ==
  /\ setup \in Setups
  /\ clock = 0
  /\ jobs = IF setup.queued = None THEN <<>> ELSE <<NewJob(setup.queued, 0)>>
  /\ source = FirstRow
  /\ worker = [w \in Workers |-> [at |-> "schedule", job |-> NoJob]]
  /\ routine = [g \in Routines |-> [at |-> "off", job |-> NoJob]]
  /\ client = [c \in Clients |-> [at |-> "idle", type |-> None]]
  /\ held = [a \in Actors |-> NoCopy]
  /\ seen = [j \in 1..MaxJobs |-> [root |-> None, raced |-> FALSE]]
  /\ changes = 0

Tick ==
  /\ clock < setup.maxTime
  /\ clock' = clock + 1
  /\ UNCHANGED <<setup, jobs, source, worker, routine, client, held, seen, changes>>

----------------------------------------------------------------------------
(* Requests.  Each loads the source, lists the jobs and saves its own. *)

Call(c, step, type) == client' = [client EXCEPT ![c] = [at |-> step, type |-> type]]
Return(c) == Call(c, "idle", None) /\ Forget(c)

RequestJob(c, type) ==
  /\ client[c].at = "idle"
  /\ type \in setup.types \cap {"preflight", "plan", "scan"}
  /\ Room
  /\ source.status # "archived"
  /\ Read(c)
  /\ Call(c, "list", type)
  /\ UNCHANGED <<setup, clock, jobs, source, worker, routine, seen, changes>>

\* latestRelevantDataSourceJob: of the jobs of the type that were not saved
\* before this row, the one that was saved last, or one of those.
Relevant(type, row) ==
  {j \in DOMAIN jobs : jobs[j].type = type /\ jobs[j].updated >= row.updated}
Latest(type, row) ==
  {j \in Relevant(type, row) : \A i \in Relevant(type, row) : jobs[i].updated <= jobs[j].updated}

MayQueue(type, row) ==
  CASE type = "preflight" -> ~HasActive("preflight")
    [] type = "plan" -> \A other \in {"plan", "scan", "preflight"} : ~HasActive(other)
    [] type = "scan" ->
         /\ ~HasActive("scan")
         /\ \A check \in Checks :
              \/ Relevant(check, row) = {}
              \/ \E j \in Latest(check, row) : jobs[j].state \in {"succeeded", "canceled"}

ListJobs(c) ==
  /\ client[c].at = "list"
  /\ MayQueue(client[c].type, held[c].row)
  /\ Call(c, "save", client[c].type)
  /\ UNCHANGED <<setup, clock, jobs, source, worker, routine, held, seen, changes>>

\* The list forbids the job, no scan is to be canceled, or a call fails.
EndRequest(c) ==
  /\ client[c].at \in {"list", "save", "edit"}
  /\ Return(c)
  /\ UNCHANGED <<setup, clock, jobs, source, worker, routine, seen, changes>>

\* A document is uploaded, retried or reindexed: this does not read the source.
RequestIngestion(c) ==
  /\ client[c].at = "idle"
  /\ "ingest" \in setup.types
  /\ Room
  /\ Call(c, "save", "ingest")
  /\ UNCHANGED <<setup, clock, jobs, source, worker, routine, held, seen, changes>>

SaveRequest(c) ==
  /\ client[c].at = "save"
  /\ HasRoom
  /\ \E time \in Readings(c) : QueueJob(client[c].type, time)
  /\ Return(c)
  /\ UNCHANGED <<setup, clock, source, worker, routine, seen, changes>>

\* The source is to be updated or archived, or its scan canceled.
LoadEdit(c) ==
  /\ client[c].at = "idle"
  /\ \E kind \in {"update", "archive", "cancel"} : Change(kind)
  /\ source.status # "archived"
  /\ Read(c)
  /\ Call(c, "edit", None)
  /\ UNCHANGED <<setup, clock, jobs, source, worker, routine, seen>>

\* What it makes of its copy.
Edited(row) ==
  (IF "update" \in setup.changes THEN {[row EXCEPT !.root = root] : root \in Roots} ELSE {})
  \cup (IF "archive" \in setup.changes THEN {[row EXCEPT !.status = "archived"]} ELSE {})
  \cup (IF "cancel" \in setup.changes /\ row.status = "scanning"
        THEN {[row EXCEPT !.status = "idle"]} ELSE {})

SaveEdit(c) ==
  /\ client[c].at = "edit"
  /\ \E row \in Edited(held[c].row), time \in Readings(c) : SaveSource(c, row, time)
  /\ Return(c)
  /\ UNCHANGED <<setup, clock, jobs, worker, routine, changes>>

----------------------------------------------------------------------------
(* The loop of a worker. *)

At(w, step) == worker[w].at = step
Run(w, step, j) == worker' = [worker EXCEPT ![w] = [at |-> step, job |-> j]]
Goto(w, step) == Run(w, step, NoJob)

\* The scheduler reads the clock and lists the sources that are due.
Schedule(w) ==
  /\ At(w, "schedule")
  /\ \/ setup.scheduled /\ source.status = "idle" /\ Read(w) /\ Goto(w, "due")
     \/ Goto(w, "preflight") /\ UNCHANGED held
  /\ UNCHANGED <<setup, clock, jobs, source, routine, client, seen, changes>>

\* It reads the row again, which may be due no more.
GetDue(w) ==
  /\ At(w, "due")
  /\ \/ /\ source.status = "idle"
        /\ held' = [held EXCEPT ![w].row = source]
        /\ Goto(w, "scans")
     \/ Forget(w) /\ Goto(w, "preflight")
  /\ UNCHANGED <<setup, clock, jobs, source, routine, client, seen, changes>>

\* It lists the jobs.  (Without Room it goes on as if there were a scan.)
CheckScans(w) ==
  /\ At(w, "scans")
  /\ \/ ~HasActive("scan") /\ Room /\ Goto(w, "queue") /\ UNCHANGED held
     \/ (HasActive("scan") \/ ~Room) /\ Forget(w) /\ Goto(w, "preflight")
  /\ UNCHANGED <<setup, clock, jobs, source, routine, client, seen, changes>>

QueueDue(w) ==
  /\ At(w, "queue")
  /\ HasRoom
  /\ QueueJob("scan", held[w].since)
  /\ Goto(w, "advance")
  /\ UNCHANGED <<setup, clock, source, routine, client, held, seen, changes>>

\* ScheduleNextScan: the row is saved with the time at which the scheduler began.
AdvanceSchedule(w) ==
  /\ At(w, "advance")
  /\ SaveSource(w, held[w].row, held[w].since)
  /\ Forget(w)
  /\ Goto(w, "preflight")
  /\ UNCHANGED <<setup, clock, jobs, routine, client, changes>>

\* Mutant: the loop starts again when there is no scan.
AfterLoop(type) ==
  CASE type = "preflight" -> "plan" [] type = "plan" -> "scan" [] OTHER -> "schedule"

\* Where the loop goes on when it finds no job of the type.
After(type) ==
  CASE type = "preflight" -> "plan" [] type = "plan" -> "scan" [] OTHER -> "batch"

\* The first in the order in which jobs were saved.  CreatedAt, by which the code
\* orders them, may have been read in another order: nothing here depends on it.
First(j, type) ==
  /\ jobs[j].type = type /\ jobs[j].state = "queued"
  /\ \A i \in 1..j-1 : ~(jobs[i].type = type /\ jobs[i].state = "queued")

\* The clock is read before the claim; how long before is left open.
Claim(w, type) ==
  /\ type # "ingest"
  /\ At(w, type)
  /\ \/ \E j \in DOMAIN jobs :
          /\ First(j, type)
          /\ \E time \in 0..clock : SetJob(j, "running", time)
          /\ Run(w, "load", j)
     \/ /\ \A j \in DOMAIN jobs : ~First(j, type)
        /\ Goto(w, After(type))
        /\ UNCHANGED jobs
  /\ UNCHANGED <<setup, clock, source, routine, client, held, seen, changes>>

\* The job's source is loaded.  The job of an archived source is canceled; a
\* scan marks the source, unless that says scanning already.
AfterLoad(type) ==
  CASE source.status = "archived" -> "cancel"
    [] source.status # "archived" /\ type \in Checks -> "check"
    [] source.status = "idle" /\ type = "scan" -> "mark"
    [] OTHER -> "walk"

LoadSource(w) ==
  /\ At(w, "load")
  /\ LET j == worker[w].job
         next == AfterLoad(jobs[j].type)
     IN  /\ Run(w, next, j)
         /\ seen' = IF next = "check" THEN [seen EXCEPT ![j].root = source.root] ELSE seen
         /\ IF next = "walk" THEN UNCHANGED held ELSE Read(w)
  /\ UNCHANGED <<setup, clock, jobs, source, routine, client, changes>>

\* The worker saves the end of its job.
EndJob(w, state) ==
  /\ \E time \in Readings(w) : SetJob(worker[w].job, state, time)
  /\ Forget(w)
  /\ Goto(w, "schedule")
  /\ UNCHANGED <<setup, clock, source, routine, client, seen, changes>>

\* The root path is checked, or walked for the plan.
Check(w) ==
  /\ At(w, "check")
  /\ EndJob(w, IF seen[worker[w].job].root \in setup.bad THEN "failed" ELSE "succeeded")

Cancel(w) == At(w, "cancel") /\ EndJob(w, "canceled")
Fail(w) == At(w, "fail") /\ EndJob(w, "failed")
Settle(w) == At(w, "settle") /\ \E state \in {"succeeded", "failed"} : EndJob(w, state)

MarkScanning(w) ==
  /\ At(w, "mark")
  /\ \E time \in Readings(w) : SaveSource(w, [held[w].row EXCEPT !.status = "scanning"], time)
  /\ Forget(w)
  /\ Run(w, "walk", worker[w].job)
  /\ UNCHANGED <<setup, clock, jobs, routine, client, changes>>

\* A file is imported: an ingestion is queued.
ImportFile(w) ==
  /\ At(w, "walk")
  /\ "ingest" \in setup.types
  /\ Room
  /\ QueueJob("ingest", 0)
  /\ UNCHANGED <<setup, clock, source, worker, routine, client, held, seen, changes>>

\* The walk ends, with failures or without, and the row is loaded again.
EndWalk(w) ==
  /\ At(w, "walk")
  /\ \/ source.status = "archived" /\ Run(w, "settle", worker[w].job) /\ UNCHANGED held
     \/ source.status # "archived" /\ Run(w, "end", worker[w].job) /\ Read(w)
  /\ UNCHANGED <<setup, clock, jobs, source, routine, client, seen, changes>>

\* CompleteScan or FailScan.
SaveEnd(w) ==
  /\ At(w, "end")
  /\ \E time \in Readings(w) : SaveSource(w, [held[w].row EXCEPT !.status = "idle"], time)
  /\ Forget(w)
  /\ Run(w, "settle", worker[w].job)
  /\ UNCHANGED <<setup, clock, jobs, routine, client, changes>>

\* A call of the loop fails: the scheduler gives up, a claim makes the loop
\* start again, and a job whose source cannot be loaded or saved fails.
CallFails(w) ==
  /\ Change("error")
  /\ \/ /\ worker[w].at \in {"due", "scans", "queue", "advance"}
        /\ Goto(w, "preflight")
        /\ Forget(w)
     \/ /\ worker[w].at \in {"preflight", "plan", "scan"}
        /\ Goto(w, "schedule")
        /\ UNCHANGED held
     \/ /\ worker[w].at \in {"load", "mark", "end"}
        /\ Run(w, "fail", worker[w].job)
        /\ held' = [held EXCEPT ![w] = [NoCopy EXCEPT !.since = clock]]
  /\ UNCHANGED <<setup, clock, jobs, source, routine, client, seen>>

\* A batch claims and runs up to Concurrency ingestions and waits for all.
StartBatch(w) ==
  /\ At(w, "batch")
  /\ routine' =
       [g \in Routines |-> IF g[1] = w THEN [at |-> "claim", job |-> NoJob] ELSE routine[g]]
  /\ Goto(w, "wait")
  /\ UNCHANGED <<setup, clock, jobs, source, client, held, seen, changes>>

ClaimIngestion(g) ==
  /\ routine[g].at = "claim"
  /\ \/ \E j \in DOMAIN jobs :
          /\ First(j, "ingest")
          /\ SetJob(j, "running", 0)
          /\ routine' = [routine EXCEPT ![g] = [at |-> "run", job |-> j]]
     \/ /\ \A j \in DOMAIN jobs : ~First(j, "ingest")
        /\ routine' = [routine EXCEPT ![g] = [at |-> "unprocessed", job |-> NoJob]]
        /\ UNCHANGED jobs
  /\ UNCHANGED <<setup, clock, source, worker, client, held, seen, changes>>

\* The ingestion succeeds or, which counts the same, is canceled with its
\* document, or it fails: then it does not count as processed.
Ingest(g) ==
  /\ routine[g].at = "run"
  /\ \E state \in {"succeeded", "failed"} :
       /\ SetJob(routine[g].job, state, 0)
       /\ routine' = [routine EXCEPT ![g] =
            [at |-> IF state = "succeeded" THEN "processed" ELSE "unprocessed", job |-> NoJob]]
  /\ UNCHANGED <<setup, clock, source, worker, client, held, seen, changes>>

EndBatch(w) ==
  /\ At(w, "wait")
  /\ \A g \in Routines : g[1] = w => routine[g].at \in {"processed", "unprocessed"}
  /\ Goto(w, IF \E g \in Routines : g[1] = w /\ routine[g].at = "processed"
             THEN "schedule" ELSE "sleep")
  /\ routine' = [g \in Routines |-> IF g[1] = w THEN [at |-> "off", job |-> NoJob] ELSE routine[g]]
  /\ UNCHANGED <<setup, clock, jobs, source, client, held, seen, changes>>

WakeUp(w) ==
  /\ At(w, "sleep")
  /\ Goto(w, "schedule")
  /\ UNCHANGED <<setup, clock, jobs, source, routine, client, held, seen, changes>>

Scheduler(w) ==
  Schedule(w) \/ GetDue(w) \/ CheckScans(w) \/ QueueDue(w) \/ AdvanceSchedule(w)

SourceJob(w) ==
  \/ (\E type \in Types : Claim(w, type)) \/ LoadSource(w) \/ Check(w)
  \/ Cancel(w) \/ Fail(w) \/ Settle(w)

Scan(w) == MarkScanning(w) \/ EndWalk(w) \/ SaveEnd(w)

Loop(w) ==
  Scheduler(w) \/ SourceJob(w) \/ Scan(w) \/ StartBatch(w) \/ EndBatch(w) \/ WakeUp(w)

Batch(g) == ClaimIngestion(g) \/ Ingest(g)

Requests(c) ==
  \/ (\E type \in Types : RequestJob(c, type)) \/ ListJobs(c) \/ EndRequest(c)
  \/ RequestIngestion(c) \/ SaveRequest(c) \/ LoadEdit(c) \/ SaveEdit(c)

Next ==
  \/ \E w \in Workers : Loop(w) \/ ImportFile(w) \/ CallFails(w)
  \/ \E g \in Routines : Batch(g)
  \/ \E c \in Clients : Requests(c)
  \/ Tick

Spec == Init /\ [][Next]_vars

\* A worker process with its goroutines.
Process(w) == Loop(w) \/ \E g \in Routines : g[1] = w /\ Batch(g)
FairSpec == Spec /\ \A w \in Workers : WF_vars(Process(w))

----------------------------------------------------------------------------
(* Properties. *)

\* The variables are of their types.
TypeOK ==
  /\ setup \in Setups
  /\ clock \in 0..MaxTime
  /\ jobs \in Seq(Job) /\ Len(jobs) <= MaxJobs
  /\ source \in Source
  /\ worker \in [Workers -> [at : {"schedule", "due", "scans", "queue", "advance", "preflight",
                                   "plan", "scan", "load", "check", "cancel", "fail", "mark",
                                   "walk", "end", "settle", "batch", "wait", "sleep"},
                             job : DOMAIN jobs \cup {NoJob}]]
  /\ routine \in [Routines -> [at : {"off", "claim", "run", "processed", "unprocessed"},
                               job : DOMAIN jobs \cup {NoJob}]]
  /\ client \in [Clients -> [at : {"list", "save"}, type : Types]
                             \cup [at : {"idle", "edit"}, type : {None}]]
  /\ held \in [Actors -> [row : Source, since : 0..MaxTime,
                          ended : SUBSET (1..MaxJobs)]]
  /\ seen \in [1..MaxJobs -> [root : Roots \cup {None}, raced : BOOLEAN]]
  /\ changes \in 0..setup.maxChanges

\* An ended check or plan that counts as newer than the source row, and so
\* decides whether a scan may be requested (latestRelevantDataSourceJob), has
\* read the root path that the row has now, unless a save of the row, from its
\* first call to the save, overlapped the check.  Times may be old when they are
\* saved, copies stale, and saves out of order.  A job whose time equals the
\* row's counts as newer in the code too: of it nothing is said.
ChecksAreOfTheRow ==
  \A j \in DOMAIN jobs :
    jobs[j].type \in Checks /\ ~Active(j) /\ seen[j].root # None
      /\ jobs[j].updated > source.updated
        => seen[j].root = source.root \/ seen[j].raced

\* Whatever checks, plans and scans are queued before it, whatever changes on
\* the way, and although the scheduler, a claim or a call for the source row
\* fails, every job of every type ends once such failures pause: the loop
\* reaches each type, a batch waits for its own jobs only, and a failed claim is
\* tried again.  (The saves of the jobs succeed here, and no worker dies.)
EveryJobEnds ==
  \A j \in 1..MaxJobs : (j \in DOMAIN jobs) ~> (j \in DOMAIN jobs /\ ~Active(j))
=============================================================================
