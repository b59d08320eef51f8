-------------------------- MODULE WorkerLoopProofs --------------------------
(***************************************************************************)
(* Proofs about WorkerLoop for any number of workers, goroutines, requests *)
(* and root paths and any bounds.                                          *)
(***************************************************************************)
EXTENDS WorkerLoop, SequenceTheorems, TLAPS

-----------------------------------------------------------------------------
(* The parts of the invariant.                                             *)

\* A worker from the claim of a job of the source until it has saved its end.
BusyPlaces == {"load", "check", "cancel", "fail", "mark", "walk", "end", "settle"}
Busy(w) == worker[w].at \in BusyPlaces
WorkersRun ==
  \A w \in Workers : Busy(w) =>
    /\ worker[w].job # NoJob
    /\ jobs[worker[w].job].state = "running"
    /\ jobs[worker[w].job].type # "ingest"

Ingesting(g) == routine[g].at = "run"
RoutinesRun ==
  \A g \in Routines : Ingesting(g) =>
    /\ routine[g].job # NoJob
    /\ jobs[routine[g].job].state = "running"
    /\ jobs[routine[g].job].type = "ingest"

\* Nobody else runs it.
OneRunner ==
  /\ \A v, w \in Workers : Busy(v) /\ Busy(w) /\ v # w => worker[v].job # worker[w].job
  /\ \A f, g \in Routines : Ingesting(f) /\ Ingesting(g) /\ f # g => routine[f].job # routine[g].job

Runners == WorkersRun /\ RoutinesRun /\ OneRunner

\* No time is in the future, and whoever holds a copy of the source row began
\* when the checks it knows as ended had ended.
TimesPassed ==
  /\ \A j \in DOMAIN jobs : jobs[j].updated <= clock
  /\ \A a \in Actors :
       /\ held[a].since <= clock
       /\ \A j \in held[a].ended :
            j \in DOMAIN jobs /\ ~Active(j) /\ jobs[j].updated <= held[a].since

\* A check that has read another root path than the row has now is overlapped
\* by a save, or else it has ended and is not newer than the row.
Fresh(j) == seen[j].root = source.root \/ seen[j].raced
OthersAreOutdated ==
  \A j \in 1..MaxJobs : seen[j].root # None =>
    /\ j \in DOMAIN jobs
    /\ jobs[j].state # "queued"
    /\ jobs[j].state = "running" => Fresh(j)
    /\ Fresh(j) \/ jobs[j].updated <= source.updated

IInv == TypeOK /\ Runners /\ TimesPassed /\ OthersAreOutdated

Places == {"schedule", "due", "scans", "queue", "advance", "preflight", "plan", "scan", "load",
           "check", "cancel", "fail", "mark", "walk", "end", "settle", "batch", "wait", "sleep"}
WorkerRecord == [at : Places, job : DOMAIN jobs \cup {NoJob}]
RoutineRecord == [at : {"off", "claim", "run", "processed", "unprocessed"},
                  job : DOMAIN jobs \cup {NoJob}]
ClientRecord == [at : {"list", "save"}, type : Types] \cup [at : {"idle", "edit"}, type : {None}]
HeldRecord == [row : Source, since : 0..MaxTime, ended : SUBSET (1..MaxJobs)]
SeenRecord == [root : Roots \cup {None}, raced : BOOLEAN]

-----------------------------------------------------------------------------
(***************************************************************************)
(* What is kept.                                                           *)
(***************************************************************************)

\* What the types say, in the names above.
LEMMA Typed ==
  ASSUME IInv
  PROVE  /\ setup \in Setups /\ clock \in 0..MaxTime
         /\ jobs \in Seq(Job) /\ Len(jobs) \in Nat /\ Len(jobs) <= MaxJobs
         /\ DOMAIN jobs = 1..Len(jobs) /\ DOMAIN jobs \subseteq 1..MaxJobs
         /\ NoJob \notin DOMAIN jobs
         /\ source \in Source
         /\ worker \in [Workers -> WorkerRecord] /\ routine \in [Routines -> RoutineRecord]
         /\ client \in [Clients -> ClientRecord] /\ held \in [Actors -> HeldRecord]
         /\ seen \in [1..MaxJobs -> SeenRecord] /\ changes \in 0..setup.maxChanges
         /\ \A j \in DOMAIN jobs : jobs[j] \in Job
<1>1. /\ setup \in Setups /\ clock \in 0..MaxTime /\ source \in Source
      /\ client \in [Clients -> ClientRecord] /\ held \in [Actors -> HeldRecord]
      /\ seen \in [1..MaxJobs -> SeenRecord] /\ changes \in 0..setup.maxChanges
  BY DEF IInv, TypeOK, ClientRecord, HeldRecord, SeenRecord
<1>2. worker \in [Workers -> WorkerRecord] /\ routine \in [Routines -> RoutineRecord]
  BY DEF IInv, TypeOK, WorkerRecord, RoutineRecord, Places
<1>3. jobs \in Seq(Job) /\ Len(jobs) <= MaxJobs
  BY DEF IInv, TypeOK
<1>4. PICK n \in Nat : n = Len(jobs)
  BY <1>3
<1>5. DOMAIN jobs = 1..n /\ n <= MaxJobs /\ MaxJobs \in Nat
  BY <1>3, <1>4, LoopAssumption
<1>6. DOMAIN jobs \subseteq 1..MaxJobs /\ NoJob \notin DOMAIN jobs
  BY <1>5 DEF NoJob
<1>7. \A j \in DOMAIN jobs : jobs[j] \in Job
  BY <1>3
<1>. QED
  BY <1>1, <1>2, <1>3, <1>4, <1>5, <1>6, <1>7

\* The types, while no job is removed.
LEMMA TypesKept ==
  ASSUME IInv, setup' = setup, clock' \in 0..MaxTime,
         jobs' \in Seq(Job), Len(jobs') <= MaxJobs, DOMAIN jobs \subseteq DOMAIN jobs',
         source' \in Source,
         worker' \in [Workers -> WorkerRecord], routine' \in [Routines -> RoutineRecord],
         client' \in [Clients -> ClientRecord], held' \in [Actors -> HeldRecord],
         seen' \in [1..MaxJobs -> SeenRecord], changes' \in 0..setup.maxChanges
  PROVE  TypeOK'
<1>1. worker' \in [Workers -> [at : Places, job : DOMAIN jobs' \cup {NoJob}]]
  BY DEF WorkerRecord
<1>2. routine' \in [Routines -> [at : {"off", "claim", "run", "processed", "unprocessed"},
                                 job : DOMAIN jobs' \cup {NoJob}]]
  BY DEF RoutineRecord
<1>. QED
  BY <1>1, <1>2 DEF IInv, TypeOK, Places, ClientRecord, HeldRecord, SeenRecord

\* Who has a job, and the job.
LEMMA BusyJob ==
  ASSUME IInv, NEW w \in Workers, Busy(w)
  PROVE  /\ worker[w].job \in DOMAIN jobs /\ worker[w].job # NoJob
         /\ jobs[worker[w].job] \in Job
         /\ jobs[worker[w].job].state = "running" /\ jobs[worker[w].job].type # "ingest"
BY Typed DEF IInv, Runners, WorkersRun, WorkerRecord

LEMMA IngestedJob ==
  ASSUME IInv, NEW g \in Routines, Ingesting(g)
  PROVE  /\ routine[g].job \in DOMAIN jobs /\ routine[g].job # NoJob
         /\ jobs[routine[g].job] \in Job
         /\ jobs[routine[g].job].state = "running" /\ jobs[routine[g].job].type = "ingest"
BY Typed DEF IInv, Runners, RoutinesRun, RoutineRecord

\* Jobs in progress stay so, of their type, except job J.
RunningStay(J) ==
  \A i \in DOMAIN jobs : jobs[i].state = "running" /\ i # J =>
    i \in DOMAIN jobs' /\ jobs'[i].state = "running" /\ jobs'[i].type = jobs[i].type

\* Only worker w does something.
LEMMA WorkerActs ==
  ASSUME IInv, NEW w \in Workers, NEW new,
         worker' = [worker EXCEPT ![w] = new],
         \A g \in Routines : Ingesting(g)' => Ingesting(g) /\ routine'[g].job = routine[g].job,
         NEW J, RunningStay(J), J # NoJob => Busy(w) /\ J = worker[w].job,
         new.at \in BusyPlaces =>
           /\ new.job \in DOMAIN jobs /\ new.job # J
           /\ jobs'[new.job].state = "running" /\ jobs'[new.job].type # "ingest"
           /\ jobs[new.job].state = "queued" \/ (Busy(w) /\ new.job = worker[w].job)
  PROVE  Runners'
<1>1. worker'[w] = new /\ \A v \in Workers \ {w} : worker'[v] = worker[v]
  BY Typed
<1>2. NoJob \notin DOMAIN jobs
  BY Typed
<1>3. ASSUME NEW v \in Workers \ {w}, Busy(v)
      PROVE  /\ worker[v].job # J /\ worker[v].job # NoJob
             /\ (new.at \in BusyPlaces => worker[v].job # new.job)
  BY <1>2, <1>3, BusyJob DEF IInv, Runners, OneRunner
<1>4. WorkersRun'
  <2>1. ASSUME NEW v \in Workers \ {w}, Busy(v)'
        PROVE  /\ worker'[v].job # NoJob
               /\ jobs'[worker'[v].job].state = "running"
               /\ jobs'[worker'[v].job].type # "ingest"
    <3>1. Busy(v) /\ worker'[v] = worker[v]
      BY <1>1, <2>1 DEF Busy
    <3>2. /\ jobs'[worker[v].job].state = "running"
          /\ jobs'[worker[v].job].type = jobs[worker[v].job].type
      BY <1>3, <3>1, BusyJob DEF RunningStay
    <3>. QED
      BY <1>3, <3>1, <3>2, BusyJob
  <2>2. new.at \in BusyPlaces => new.job # NoJob
    BY <1>2
  <2>. QED
    BY <1>1, <2>1, <2>2 DEF WorkersRun, Busy
<1>5. RoutinesRun'
  <2>1. ASSUME NEW g \in Routines, Ingesting(g)'
        PROVE  /\ routine'[g].job # NoJob
               /\ jobs'[routine'[g].job].state = "running"
               /\ jobs'[routine'[g].job].type = "ingest"
    <3>1. Ingesting(g) /\ routine'[g].job = routine[g].job
      BY <2>1
    <3>2. routine[g].job # J
      BY <1>2, <3>1, BusyJob, IngestedJob
    <3>. QED
      BY <3>1, <3>2, IngestedJob DEF RunningStay
  <2>. QED
    BY <2>1 DEF RoutinesRun
<1>6. OneRunner'
  <2>1. ASSUME NEW u \in Workers, NEW v \in Workers, Busy(u)', Busy(v)', u # v
        PROVE  worker'[u].job # worker'[v].job
    BY <1>1, <1>3, <2>1 DEF IInv, Runners, OneRunner, Busy
  <2>2. ASSUME NEW f \in Routines, NEW g \in Routines, Ingesting(f)', Ingesting(g)', f # g
        PROVE  routine'[f].job # routine'[g].job
    BY <2>2 DEF IInv, Runners, OneRunner
  <2>. QED
    BY <2>1, <2>2 DEF OneRunner
<1>. QED
  BY <1>4, <1>5, <1>6 DEF Runners

\* Only goroutine g does something.
LEMMA RoutineActs ==
  ASSUME IInv, NEW g \in Routines, NEW new,
         routine' = [routine EXCEPT ![g] = new], worker' = worker,
         NEW J, RunningStay(J), J # NoJob => Ingesting(g) /\ J = routine[g].job,
         new.at = "run" =>
           /\ new.job \in DOMAIN jobs /\ new.job # J
           /\ jobs'[new.job].state = "running" /\ jobs'[new.job].type = "ingest"
           /\ jobs[new.job].state = "queued"
  PROVE  Runners'
<1>1. routine'[g] = new /\ \A f \in Routines \ {g} : routine'[f] = routine[f]
  BY Typed
<1>2. NoJob \notin DOMAIN jobs
  BY Typed
<1>3. ASSUME NEW f \in Routines \ {g}, Ingesting(f)
      PROVE  /\ routine[f].job # J
             /\ new.at = "run" => routine[f].job # new.job
  BY <1>2, <1>3, IngestedJob DEF IInv, Runners, OneRunner
<1>4. WorkersRun'
  <2>1. ASSUME NEW v \in Workers, Busy(v)'
        PROVE  /\ worker'[v].job # NoJob
               /\ jobs'[worker'[v].job].state = "running"
               /\ jobs'[worker'[v].job].type # "ingest"
    <3>1. Busy(v) /\ worker'[v] = worker[v]
      BY <2>1 DEF Busy
    <3>2. worker[v].job # J
      BY <1>2, <3>1, BusyJob, IngestedJob
    <3>. QED
      BY <3>1, <3>2, BusyJob DEF RunningStay
  <2>. QED
    BY <2>1 DEF WorkersRun
<1>5. RoutinesRun'
  <2>1. ASSUME NEW f \in Routines \ {g}, Ingesting(f)'
        PROVE  /\ routine'[f].job # NoJob
               /\ jobs'[routine'[f].job].state = "running"
               /\ jobs'[routine'[f].job].type = "ingest"
    <3>1. Ingesting(f) /\ routine'[f] = routine[f]
      BY <1>1, <2>1 DEF Ingesting
    <3>. QED
      BY <1>3, <3>1, IngestedJob DEF RunningStay
  <2>. QED
    BY <1>1, <1>2, <2>1 DEF RoutinesRun, Ingesting
<1>6. OneRunner'
  <2>1. ASSUME NEW u \in Workers, NEW v \in Workers, Busy(u)', Busy(v)', u # v
        PROVE  worker'[u].job # worker'[v].job
    BY <2>1 DEF IInv, Runners, OneRunner, Busy
  <2>2. ASSUME NEW f \in Routines, NEW h \in Routines, Ingesting(f)', Ingesting(h)', f # h
        PROVE  routine'[f].job # routine'[h].job
    BY <1>1, <1>3, <2>2 DEF IInv, Runners, OneRunner, Ingesting
  <2>. QED
    BY <2>1, <2>2 DEF OneRunner
<1>. QED
  BY <1>4, <1>5, <1>6 DEF Runners

\* No worker does anything.
LEMMA NobodyActs ==
  ASSUME IInv, RunningStay(NoJob), UNCHANGED <<worker, routine>>
  PROVE  Runners'
<1>1. \A v \in Workers : Busy(v)' = Busy(v)
  BY DEF Busy
<1>2. \A g \in Routines : Ingesting(g)' = Ingesting(g)
  BY DEF Ingesting
<1>3. WorkersRun'
  BY <1>1, BusyJob DEF WorkersRun, RunningStay
<1>4. RoutinesRun'
  BY <1>2, IngestedJob DEF RoutinesRun, RunningStay
<1>5. OneRunner'
  BY <1>1, <1>2 DEF IInv, Runners, OneRunner
<1>. QED
  BY <1>3, <1>4, <1>5 DEF Runners

-----------------------------------------------------------------------------
(***************************************************************************)
(* Times and copies.                                                       *)
(***************************************************************************)

\* A copy of the source row stays, is forgotten, or is read now.
HeldNext ==
  \A a \in Actors :
    \/ held'[a].since = held[a].since /\ held'[a].ended = held[a].ended
    \/ held'[a].since \in 0..clock /\ held'[a].ended = {}
    \/ held'[a].since = clock /\ held'[a].ended = Ended

\* Jobs stay, and those that have ended do not change.
JobsStay ==
  \A j \in DOMAIN jobs : j \in DOMAIN jobs' /\ (~Active(j) => jobs'[j] = jobs[j])

LEMMA TimesKept ==
  ASSUME IInv, clock' \in Nat, clock <= clock', HeldNext, JobsStay,
         \A j \in DOMAIN jobs' :
           jobs'[j].updated <= clock' \/ (j \in DOMAIN jobs /\ jobs'[j].updated = jobs[j].updated)
  PROVE  TimesPassed'
<1>1. /\ clock \in Nat
      /\ \A j \in DOMAIN jobs : jobs[j].updated \in Nat /\ jobs[j].updated <= clock
      /\ \A a \in Actors : held[a].since \in Nat /\ held[a].since <= clock
  BY Typed, LoopAssumption DEF IInv, TimesPassed, Job, HeldRecord
<1>2. \A j \in DOMAIN jobs' : jobs'[j].updated <= clock'
  BY <1>1
<1>3. ASSUME NEW a \in Actors
      PROVE  /\ held'[a].since <= clock'
             /\ \A j \in held'[a].ended :
                  j \in DOMAIN jobs /\ ~Active(j) /\ jobs[j].updated <= held'[a].since
  <2>1. CASE held'[a].since = held[a].since /\ held'[a].ended = held[a].ended
    BY <1>1, <2>1 DEF IInv, TimesPassed
  <2>2. CASE held'[a].since \in 0..clock /\ held'[a].ended = {}
    BY <1>1, <2>2
  <2>3. CASE held'[a].since = clock /\ held'[a].ended = Ended
    BY <1>1, <2>3 DEF Ended
  <2>. QED
    BY <2>1, <2>2, <2>3 DEF HeldNext
<1>4. \A j \in DOMAIN jobs : ~Active(j) => j \in DOMAIN jobs' /\ jobs'[j] = jobs[j] /\ ~Active(j)'
  BY DEF JobsStay, Active
<1>5. ASSUME NEW a \in Actors, NEW j \in held'[a].ended
      PROVE  j \in DOMAIN jobs' /\ ~Active(j)' /\ jobs'[j].updated <= held'[a].since
  BY <1>3, <1>4
<1>. QED
  BY <1>2, <1>3, <1>5 DEF TimesPassed

\* Reading or forgetting the row.
LEMMA HeldReads ==
  ASSUME IInv, NEW a \in Actors, Read(a) \/ Forget(a) \/ UNCHANGED held
  PROVE  HeldNext /\ held' \in [Actors -> HeldRecord]
<1>1. /\ held \in [Actors -> HeldRecord] /\ source \in Source
      /\ clock \in 0..MaxTime /\ DOMAIN jobs \subseteq 1..MaxJobs
  BY Typed
<1>2. CASE Read(a)
  <2>1. PICK new : new = [row |-> source, since |-> clock, ended |-> Ended]
    OBVIOUS
  <2>2. new \in HeldRecord /\ new.since = clock /\ new.ended = Ended
    <3>1. Ended \in SUBSET (1..MaxJobs)
      BY <1>1 DEF Ended
    <3>. QED
      BY <1>1, <2>1, <3>1 DEF HeldRecord
  <2>3. held' = [held EXCEPT ![a] = new]
    BY <1>2, <2>1 DEF Read
  <2>. QED
    BY <1>1, <2>2, <2>3 DEF HeldNext
<1>3. CASE Forget(a)
  <2>1. NoCopy \in HeldRecord /\ NoCopy.since = 0 /\ NoCopy.ended = {}
    BY Typed, LoopAssumption DEF NoCopy, FirstRow, HeldRecord, Source
  <2>2. held' = [held EXCEPT ![a] = NoCopy]
    BY <1>3 DEF Forget
  <2>. QED
    BY <1>1, <2>1, <2>2 DEF HeldNext
<1>4. CASE UNCHANGED held
  BY <1>1, <1>4 DEF HeldNext
<1>. QED
  BY <1>2, <1>3, <1>4

\* What the root of a job means, while neither the source row nor what has been
\* read changes.
LEMMA OutdatedKept ==
  ASSUME IInv, JobsStay, UNCHANGED <<source, seen>>,
         \A j \in DOMAIN jobs : jobs'[j].state = "queued" => jobs[j].state = "queued"
  PROVE  OthersAreOutdated'
<1> SUFFICES ASSUME NEW j \in 1..MaxJobs, seen[j].root # None
             PROVE  /\ j \in DOMAIN jobs'
                    /\ jobs'[j].state # "queued"
                    /\ jobs'[j].state = "running" => Fresh(j)
                    /\ Fresh(j) \/ jobs'[j].updated <= source.updated
  BY DEF OthersAreOutdated, Fresh
<1>1. /\ j \in DOMAIN jobs /\ jobs[j].state # "queued"
      /\ jobs[j].state = "running" => Fresh(j)
      /\ Fresh(j) \/ jobs[j].updated <= source.updated
  BY DEF IInv, OthersAreOutdated
<1>2. CASE jobs[j].state = "running"
  BY <1>1, <1>2 DEF JobsStay
<1>3. CASE jobs[j].state # "running"
  BY <1>1, <1>3 DEF JobsStay, Active
<1>. QED
  BY <1>2, <1>3

-----------------------------------------------------------------------------
(***************************************************************************)
(* What the saves do.                                                      *)
(***************************************************************************)

\* Neither a job nor the source row is saved.
LEMMA NothingSaved ==
  ASSUME IInv, UNCHANGED <<jobs, source, seen>>, clock' \in clock..MaxTime, HeldNext
  PROVE  /\ jobs' \in Seq(Job) /\ Len(jobs') <= MaxJobs /\ DOMAIN jobs \subseteq DOMAIN jobs'
         /\ source' \in Source /\ seen' \in [1..MaxJobs -> SeenRecord]
         /\ RunningStay(NoJob) /\ TimesPassed' /\ OthersAreOutdated'
<1>1. JobsStay /\ RunningStay(NoJob)
  BY DEF JobsStay, RunningStay
<1>2. clock' \in Nat /\ clock <= clock'
  BY Typed, LoopAssumption
<1>3. TimesPassed'
  BY <1>1, <1>2, TimesKept
<1>4. OthersAreOutdated'
  BY <1>1, OutdatedKept
<1>. QED
  BY <1>1, <1>3, <1>4, Typed

\* A job is saved in another state.
LEMMA JobSaved ==
  ASSUME IInv, NEW j \in DOMAIN jobs, NEW state \in States, NEW time \in 0..clock,
         SetJob(j, state, time), Active(j), state # "queued",
         UNCHANGED <<clock, source, seen>>, HeldNext
  PROVE  /\ jobs' \in Seq(Job) /\ Len(jobs') <= MaxJobs /\ DOMAIN jobs \subseteq DOMAIN jobs'
         /\ jobs'[j].type = jobs[j].type /\ jobs'[j].state = state
         /\ RunningStay(j)
         /\ jobs[j].state = "queued" => RunningStay(NoJob)
         /\ TimesPassed' /\ OthersAreOutdated'
<1>1. PICK row : row = [type |-> jobs[j].type, state |-> state,
                        updated |-> Stamp(jobs[j].type, time)]
  OBVIOUS
<1>2. /\ row \in Job /\ row.type = jobs[j].type /\ row.state = state
      /\ row.updated <= clock
  BY <1>1, Typed, LoopAssumption DEF Job, Stamp
<1>3. jobs' = [jobs EXCEPT ![j] = row]
  BY <1>1 DEF SetJob
<1>4. /\ jobs \in Seq(Job) /\ DOMAIN jobs = 1..Len(jobs)
      /\ [jobs EXCEPT ![j] = row] \in Seq(Job)
      /\ Len([jobs EXCEPT ![j] = row]) = Len(jobs)
      /\ \A i \in 1..Len(jobs) : [jobs EXCEPT ![j] = row][i] = IF i = j THEN row ELSE jobs[i]
  BY <1>2, Typed, ExceptSeq
<1>5. /\ jobs' \in Seq(Job) /\ Len(jobs') = Len(jobs) /\ DOMAIN jobs' = DOMAIN jobs
      /\ jobs'[j] = row
      /\ \A i \in DOMAIN jobs : i # j => jobs'[i] = jobs[i]
  BY <1>3, <1>4
<1>6. /\ RunningStay(j)
      /\ jobs[j].state = "queued" => RunningStay(NoJob)
  BY <1>5 DEF RunningStay
<1>7. JobsStay
  BY <1>5 DEF JobsStay
<1>8. \A i \in DOMAIN jobs' :
        jobs'[i].updated <= clock' \/ (i \in DOMAIN jobs /\ jobs'[i].updated = jobs[i].updated)
  BY <1>2, <1>5
<1>9. TimesPassed'
  <2>1. clock' \in Nat /\ clock <= clock'
    BY Typed, LoopAssumption
  <2>. QED
    BY <1>7, <1>8, <2>1, TimesKept
<1>10. OthersAreOutdated'
  BY <1>2, <1>5, <1>7, OutdatedKept
<1>. QED
  BY <1>2, <1>5, <1>6, <1>9, <1>10, Typed

\* A job is added.
LEMMA JobAdded ==
  ASSUME IInv, HasRoom, NEW type \in Types, NEW time \in 0..clock, QueueJob(type, time),
         UNCHANGED <<clock, source, seen>>, HeldNext
  PROVE  /\ jobs' \in Seq(Job) /\ Len(jobs') <= MaxJobs /\ DOMAIN jobs \subseteq DOMAIN jobs'
         /\ \A i \in DOMAIN jobs : jobs'[i] = jobs[i]
         /\ RunningStay(NoJob)
         /\ TimesPassed' /\ OthersAreOutdated'
<1>1. PICK row : row = NewJob(type, time)
  OBVIOUS
<1>2. row \in Job /\ row.updated <= clock
  BY <1>1, Typed, LoopAssumption DEF NewJob, Job, States, Stamp
<1>3. PICK n \in Nat : n = Len(jobs)
  BY Typed
<1>4. jobs \in Seq(Job) /\ DOMAIN jobs = 1..n
  BY <1>3, Typed
<1>5. /\ jobs' \in Seq(Job) /\ Len(jobs') = n + 1 /\ DOMAIN jobs' = 1..n+1
      /\ jobs'[n + 1] = row
      /\ \A i \in DOMAIN jobs : i \in DOMAIN jobs' /\ jobs'[i] = jobs[i]
      /\ \A i \in DOMAIN jobs' : i \in DOMAIN jobs \/ i = n + 1
  <2>1. jobs' = Append(jobs, row)
    BY <1>1 DEF QueueJob
  <2>. QED
    BY <1>2, <1>3, <1>4, <2>1, AppendProperties
<1>6. n + 1 <= MaxJobs
  BY <1>3, LoopAssumption DEF HasRoom
<1>7. RunningStay(NoJob) /\ JobsStay
  BY <1>5 DEF RunningStay, JobsStay
<1>8. TimesPassed'
  <2>1. clock' \in Nat /\ clock <= clock'
    BY Typed, LoopAssumption
  <2>2. \A i \in DOMAIN jobs' :
          jobs'[i].updated <= clock' \/ (i \in DOMAIN jobs /\ jobs'[i].updated = jobs[i].updated)
    BY <1>2, <1>5
  <2>. QED
    BY <1>7, <2>1, <2>2, TimesKept
<1>9. OthersAreOutdated'
  BY <1>5, <1>7, OutdatedKept
<1>. QED
  BY <1>5, <1>6, <1>7, <1>8, <1>9

\* The source row is saved by a, with a time since it began.
LEMMA SourceSaved ==
  ASSUME IInv, NEW a \in Actors, NEW row \in Source, NEW time \in held[a].since..clock,
         SaveSource(a, row, time), UNCHANGED <<clock, jobs>>, HeldNext
  PROVE  /\ jobs' \in Seq(Job) /\ Len(jobs') <= MaxJobs /\ DOMAIN jobs \subseteq DOMAIN jobs'
         /\ source' \in Source /\ seen' \in [1..MaxJobs -> SeenRecord]
         /\ RunningStay(NoJob) /\ TimesPassed' /\ OthersAreOutdated'
<1>1. JobsStay /\ RunningStay(NoJob)
  BY DEF JobsStay, RunningStay
<1>2. TimesPassed'
  <2>1. clock' \in Nat /\ clock <= clock'
    BY Typed, LoopAssumption
  <2>. QED
    BY <1>1, <2>1, TimesKept
<1>3. held[a] \in HeldRecord /\ held[a].since \in 0..MaxTime /\ clock \in 0..MaxTime
  BY Typed DEF HeldRecord
<1>4. source' \in Source /\ source'.updated = time
  <2>1. time \in 0..MaxTime
    BY <1>3, LoopAssumption
  <2>. QED
    BY <2>1 DEF SaveSource, Touched, Source
<1>5. \A j \in 1..MaxJobs :
        /\ seen'[j] \in SeenRecord /\ seen'[j].root = seen[j].root
        /\ seen[j].root # None /\ j \notin held[a].ended => seen'[j].raced = TRUE
  <2>1. ASSUME NEW j \in 1..MaxJobs
        PROVE  /\ seen'[j] \in SeenRecord /\ seen'[j].root = seen[j].root
               /\ seen[j].root # None /\ j \notin held[a].ended => seen'[j].raced = TRUE
    <3>1. PICK read \in SeenRecord : read = seen[j]
      BY Typed
    <3>2. PICK overlaps \in BOOLEAN : overlaps = (read.root # None /\ j \notin held[a].ended)
      OBVIOUS
    <3>3. seen'[j] = [read EXCEPT !.raced = read.raced \/ overlaps]
      <4>1. DOMAIN seen = 1..MaxJobs
        BY Typed
      <4>. QED
        BY <3>1, <3>2, <4>1 DEF SaveSource
    <3>. QED
      BY <3>1, <3>2, <3>3 DEF SeenRecord
  <2>. QED
    BY <2>1
<1>6. seen' \in [1..MaxJobs -> SeenRecord]
  <2>1. DOMAIN seen = 1..MaxJobs
    BY Typed
  <2>2. seen' = [j \in 1..MaxJobs |-> seen'[j]]
    BY <2>1 DEF SaveSource
  <2>. QED
    BY <1>5, <2>2
<1>7. OthersAreOutdated'
  <2> SUFFICES ASSUME NEW j \in 1..MaxJobs, seen'[j].root # None
               PROVE  /\ j \in DOMAIN jobs
                      /\ jobs[j].state # "queued"
                      /\ jobs[j].state = "running" => seen'[j].raced
                      /\ seen'[j].raced \/ jobs[j].updated <= source'.updated
    BY DEF OthersAreOutdated, Fresh
  <2>1. seen[j].root # None /\ j \in DOMAIN jobs /\ jobs[j].state # "queued"
    BY <1>5 DEF IInv, OthersAreOutdated
  <2>2. CASE j \notin held[a].ended
    BY <1>5, <2>1, <2>2
  <2>3. CASE j \in held[a].ended
    <3>1. ~Active(j) /\ jobs[j].updated <= held[a].since
      BY <2>3 DEF IInv, TimesPassed
    <3>2. jobs[j].updated \in Nat
      BY <2>1, Typed, LoopAssumption DEF Job
    <3>3. jobs[j].updated <= time
      BY <1>3, <3>1, <3>2, LoopAssumption
    <3>. QED
      BY <1>4, <2>1, <3>1, <3>3 DEF Active
  <2>. QED
    BY <2>2, <2>3
<1>. QED
  BY <1>1, <1>2, <1>4, <1>6, <1>7, Typed

-----------------------------------------------------------------------------
(***************************************************************************)
(* What workers and requests do besides.                                   *)
(***************************************************************************)

LEMMA IsActor ==
  /\ \A w \in Workers : w \in Actors
  /\ \A c \in Clients : c \in Actors
BY DEF Actors

\* A worker goes on without a job; it may have ended its own.
LEMMA GoesOn ==
  ASSUME IInv, NEW w \in Workers, NEW step \in Places \ BusyPlaces, Goto(w, step),
         \A g \in Routines : Ingesting(g)' => Ingesting(g) /\ routine'[g].job = routine[g].job,
         NEW J, RunningStay(J), J # NoJob => Busy(w) /\ J = worker[w].job
  PROVE  Runners' /\ worker' \in [Workers -> WorkerRecord]
<1>1. PICK new : new = [at |-> step, job |-> NoJob]
  OBVIOUS
<1>2. new \in WorkerRecord /\ new.at \notin BusyPlaces
  BY <1>1 DEF WorkerRecord
<1>3. worker' = [worker EXCEPT ![w] = new]
  BY <1>1 DEF Goto, Run
<1>4. Runners'
  BY <1>2, <1>3, WorkerActs
<1>. QED
  BY <1>2, <1>3, <1>4, Typed

\* A worker goes on with its job.
LEMMA KeepsJob ==
  ASSUME IInv, NEW w \in Workers, Busy(w), NEW step \in BusyPlaces, Run(w, step, worker[w].job),
         routine' = routine, RunningStay(NoJob)
  PROVE  Runners' /\ worker' \in [Workers -> WorkerRecord]
<1>1. PICK new : new = [at |-> step, job |-> worker[w].job]
  OBVIOUS
<1>2. new \in WorkerRecord /\ new.job = worker[w].job
  BY <1>1, BusyJob DEF WorkerRecord, Places, BusyPlaces
<1>3. worker' = [worker EXCEPT ![w] = new]
  BY <1>1 DEF Run
<1>4. /\ new.job \in DOMAIN jobs /\ new.job # NoJob
      /\ jobs'[new.job].state = "running" /\ jobs'[new.job].type # "ingest"
  BY <1>2, BusyJob DEF RunningStay
<1>5. Runners'
  BY <1>2, <1>3, <1>4, WorkerActs DEF Ingesting
<1>. QED
  BY <1>2, <1>3, <1>5, Typed

\* A request's next call.
LEMMA Calls ==
  ASSUME IInv, NEW c \in Clients, NEW step, NEW type, Call(c, step, type),
         \/ step \in {"list", "save"} /\ type \in Types
         \/ step \in {"idle", "edit"} /\ type = None
  PROVE  client' \in [Clients -> ClientRecord]
<1>1. PICK new \in ClientRecord : new = [at |-> step, type |-> type]
  BY DEF ClientRecord
<1>2. client' = [client EXCEPT ![c] = new]
  BY <1>1 DEF Call
<1>. QED
  BY <1>1, <1>2, Typed

LEMMA Returns ==
  ASSUME IInv, NEW c \in Clients, Return(c)
  PROVE  /\ client' \in [Clients -> ClientRecord]
         /\ HeldNext /\ held' \in [Actors -> HeldRecord]
<1>1. c \in Actors
  BY IsActor
<1>2. Call(c, "idle", None) /\ Forget(c)
  BY DEF Return
<1>. QED
  BY <1>1, <1>2, Calls, HeldReads

LEMMA Changed ==
  ASSUME IInv, NEW kind, Change(kind) \/ UNCHANGED changes
  PROVE  changes' \in 0..setup.maxChanges
<1>1. setup.maxChanges \in Nat /\ changes \in 0..setup.maxChanges
  BY Typed, LoopAssumption
<1>. QED
  BY <1>1 DEF Change

\* A request that saves nothing.
LEMMA QuietRequest ==
  ASSUME IInv, NEW c \in Clients, UNCHANGED <<setup, clock, jobs, source, worker, routine, seen>>,
         Read(c) \/ Forget(c) \/ UNCHANGED held,
         NEW step, NEW type, Call(c, step, type), changes' \in 0..setup.maxChanges,
         \/ step \in {"list", "save"} /\ type \in Types
         \/ step \in {"idle", "edit"} /\ type = None
  PROVE  IInv'
<1>1. c \in Actors
  BY IsActor
<1>2. HeldNext /\ held' \in [Actors -> HeldRecord]
  BY <1>1, HeldReads
<1>3. client' \in [Clients -> ClientRecord]
  BY Calls
<1>4. /\ jobs' \in Seq(Job) /\ Len(jobs') <= MaxJobs /\ DOMAIN jobs \subseteq DOMAIN jobs'
      /\ source' \in Source /\ seen' \in [1..MaxJobs -> SeenRecord]
      /\ clock' \in 0..MaxTime
      /\ RunningStay(NoJob) /\ TimesPassed' /\ OthersAreOutdated'
  <2>1. clock' \in clock..MaxTime /\ clock' \in 0..MaxTime
    BY Typed, LoopAssumption
  <2>. QED
    BY <1>2, <2>1, NothingSaved
<1>5. TypeOK'
  BY <1>2, <1>3, <1>4, Typed, TypesKept
<1>6. Runners'
  BY <1>4, NobodyActs
<1>. QED
  BY <1>4, <1>5, <1>6 DEF IInv

\* A worker that saves nothing and has no job.
LEMMA QuietWorker ==
  ASSUME IInv, NEW w \in Workers, UNCHANGED <<setup, clock, jobs, source, client, seen>>,
         HeldNext, held' \in [Actors -> HeldRecord], changes' \in 0..setup.maxChanges,
         routine' \in [Routines -> RoutineRecord],
         \A g \in Routines : Ingesting(g)' => Ingesting(g) /\ routine'[g].job = routine[g].job,
         NEW step, \/ step \in Places \ BusyPlaces /\ Goto(w, step)
                   \/ /\ step \in BusyPlaces /\ Busy(w) /\ Run(w, step, worker[w].job)
                      /\ routine' = routine
  PROVE  IInv'
<1>1. /\ jobs' \in Seq(Job) /\ Len(jobs') <= MaxJobs /\ DOMAIN jobs \subseteq DOMAIN jobs'
      /\ source' \in Source /\ seen' \in [1..MaxJobs -> SeenRecord]
      /\ clock' \in 0..MaxTime
      /\ RunningStay(NoJob) /\ TimesPassed' /\ OthersAreOutdated'
  <2>1. clock' \in clock..MaxTime /\ clock' \in 0..MaxTime
    BY Typed, LoopAssumption
  <2>. QED
    BY <2>1, NothingSaved
<1>2. Runners' /\ worker' \in [Workers -> WorkerRecord]
  <2>1. CASE step \in Places \ BusyPlaces /\ Goto(w, step)
    BY <1>1, <2>1, GoesOn
  <2>2. CASE step \in BusyPlaces /\ Busy(w) /\ Run(w, step, worker[w].job) /\ routine' = routine
    BY <1>1, <2>2, KeepsJob
  <2>. QED
    BY <2>1, <2>2
<1>3. client' \in [Clients -> ClientRecord]
  BY Typed
<1>4. TypeOK'
  BY <1>1, <1>2, <1>3, TypesKept
<1>. QED
  BY <1>1, <1>2, <1>4 DEF IInv

-----------------------------------------------------------------------------
(***************************************************************************)
(* One lemma per action.                                                   *)
(***************************************************************************)

LEMMA TickStep ==
  ASSUME IInv, Tick PROVE IInv'
<1>1. /\ UNCHANGED <<setup, jobs, source, worker, routine, client, held, seen, changes>>
      /\ clock' \in clock..MaxTime /\ clock' \in 0..MaxTime
  <2>1. clock \in 0..MaxTime /\ setup.maxTime \in 0..MaxTime
    BY Typed, LoopAssumption
  <2>. QED
    BY <2>1, LoopAssumption DEF Tick
<1>2. HeldNext
  BY <1>1 DEF HeldNext
<1>3. /\ jobs' \in Seq(Job) /\ Len(jobs') <= MaxJobs /\ DOMAIN jobs \subseteq DOMAIN jobs'
      /\ source' \in Source /\ seen' \in [1..MaxJobs -> SeenRecord]
      /\ RunningStay(NoJob) /\ TimesPassed' /\ OthersAreOutdated'
  BY <1>1, <1>2, NothingSaved
<1>4. TypeOK'
  BY <1>1, <1>3, Typed, TypesKept
<1>5. Runners'
  BY <1>1, <1>3, NobodyActs
<1>. QED
  BY <1>3, <1>4, <1>5 DEF IInv

LEMMA QuietRequestStep ==
  ASSUME IInv, NEW c \in Clients,
         \/ \E type \in Types : RequestJob(c, type)
         \/ ListJobs(c) \/ EndRequest(c) \/ RequestIngestion(c) \/ LoadEdit(c)
  PROVE  IInv'
<1>1. /\ UNCHANGED <<setup, clock, jobs, source, worker, routine, seen>>
      /\ Read(c) \/ Forget(c) \/ UNCHANGED held
  BY DEF RequestJob, ListJobs, EndRequest, RequestIngestion, LoadEdit, Return
<1>2. changes' \in 0..setup.maxChanges
  BY Changed DEF RequestJob, ListJobs, EndRequest, RequestIngestion, LoadEdit
<1>3. PICK step, type :
        /\ Call(c, step, type)
        /\ \/ step \in {"list", "save"} /\ type \in Types
           \/ step \in {"idle", "edit"} /\ type = None
  <2>1. client[c].at = "list" => client[c].type \in Types
    BY Typed DEF ClientRecord
  <2>. QED
    BY <2>1 DEF RequestJob, ListJobs, EndRequest, RequestIngestion, LoadEdit, Return, Types
<1>. QED
  BY <1>1, <1>2, <1>3, QuietRequest

\* The clock's readings lie between the last call and now.
LEMMA ReadingsPassed ==
  ASSUME IInv, NEW a \in Actors, NEW time \in Readings(a)
  PROVE  time \in held[a].since..clock /\ time \in 0..clock
<1>1. held[a].since \in 0..MaxTime /\ clock \in 0..MaxTime
  BY Typed DEF HeldRecord
<1>. QED
  BY <1>1, LoopAssumption DEF Readings

LEMMA SaveRequestStep ==
  ASSUME IInv, NEW c \in Clients, SaveRequest(c) PROVE IInv'
<1>1. /\ client[c].at = "save" /\ HasRoom /\ Return(c)
      /\ UNCHANGED <<setup, clock, source, worker, routine, seen, changes>>
  BY DEF SaveRequest
<1>2. /\ client' \in [Clients -> ClientRecord]
      /\ HeldNext /\ held' \in [Actors -> HeldRecord]
  BY <1>1, Returns
<1>3. PICK time \in Readings(c) : QueueJob(client[c].type, time)
  BY DEF SaveRequest
<1>4. time \in 0..clock
  BY <1>3, IsActor, ReadingsPassed
<1>5. PICK type \in Types : type = client[c].type
  BY <1>1, Typed DEF ClientRecord
<1>6. /\ jobs' \in Seq(Job) /\ Len(jobs') <= MaxJobs /\ DOMAIN jobs \subseteq DOMAIN jobs'
      /\ RunningStay(NoJob) /\ TimesPassed' /\ OthersAreOutdated'
  BY <1>1, <1>2, <1>3, <1>4, <1>5, JobAdded
<1>7. TypeOK'
  BY <1>1, <1>2, <1>6, Typed, TypesKept
<1>8. Runners'
  BY <1>1, <1>6, NobodyActs
<1>. QED
  BY <1>6, <1>7, <1>8 DEF IInv

\* An actor that saves the source row.
LEMMA SavesSource ==
  ASSUME IInv, NEW a \in Actors, NEW row \in Source, NEW time \in Readings(a),
         SaveSource(a, row, time), Forget(a), UNCHANGED <<setup, clock, jobs, routine, changes>>,
         client' \in [Clients -> ClientRecord],
         \/ worker' = worker
         \/ /\ a \in Workers /\ Busy(a)
            /\ \E step \in BusyPlaces : Run(a, step, worker[a].job)
         \/ a \in Workers /\ Goto(a, "preflight")
  PROVE  IInv'
<1>1. HeldNext /\ held' \in [Actors -> HeldRecord]
  BY HeldReads
<1>2. time \in held[a].since..clock
  BY ReadingsPassed
<1>3. /\ jobs' \in Seq(Job) /\ Len(jobs') <= MaxJobs /\ DOMAIN jobs \subseteq DOMAIN jobs'
      /\ source' \in Source /\ seen' \in [1..MaxJobs -> SeenRecord]
      /\ RunningStay(NoJob) /\ TimesPassed' /\ OthersAreOutdated'
  BY <1>1, <1>2, SourceSaved
<1>4. Runners' /\ worker' \in [Workers -> WorkerRecord]
  <2>1. CASE worker' = worker
    BY <1>3, <2>1, NobodyActs, Typed
  <2>2. CASE a \in Workers /\ Busy(a) /\ \E step \in BusyPlaces : Run(a, step, worker[a].job)
    BY <1>3, <2>2, KeepsJob
  <2>3. CASE a \in Workers /\ Goto(a, "preflight")
    <3>1. PICK step \in Places \ BusyPlaces : step = "preflight"
      BY DEF Places, BusyPlaces
    <3>. QED
      BY <1>3, <2>3, <3>1, GoesOn DEF Ingesting
  <2>. QED
    BY <2>1, <2>2, <2>3
<1>5. TypeOK'
  BY <1>1, <1>3, <1>4, Typed, TypesKept
<1>. QED
  BY <1>3, <1>4, <1>5 DEF IInv

LEMMA SaveEditStep ==
  ASSUME IInv, NEW c \in Clients, SaveEdit(c) PROVE IInv'
<1>1. /\ UNCHANGED <<setup, clock, jobs, worker, routine, changes>> /\ Return(c)
  BY DEF SaveEdit
<1>2. PICK row \in Edited(held[c].row), time \in Readings(c) : SaveSource(c, row, time)
  BY DEF SaveEdit
<1>3. row \in Source
  <2>1. PICK copy \in Source : copy = held[c].row
    BY Typed, IsActor DEF HeldRecord
  <2>. QED
    BY <1>2, <2>1 DEF Edited, Source
<1>4. Forget(c) /\ client' \in [Clients -> ClientRecord]
  BY <1>1, Returns DEF Return
<1>. QED
  BY <1>1, <1>2, <1>3, <1>4, IsActor, SavesSource

LEMMA AdvanceScheduleStep ==
  ASSUME IInv, NEW w \in Workers, AdvanceSchedule(w) PROVE IInv'
<1>1. /\ UNCHANGED <<setup, clock, jobs, routine, client, changes>>
      /\ Forget(w) /\ Goto(w, "preflight") /\ SaveSource(w, held[w].row, held[w].since)
  BY DEF AdvanceSchedule
<1>2. PICK row \in Source : row = held[w].row
  BY Typed, IsActor DEF HeldRecord
<1>3. PICK time \in Readings(w) : time = held[w].since
  <2>1. held[w].since \in Nat /\ clock \in Nat /\ held[w].since <= clock
    BY Typed, IsActor, LoopAssumption DEF IInv, TimesPassed, HeldRecord
  <2>. QED
    BY <2>1 DEF Readings
<1>4. client' \in [Clients -> ClientRecord]
  BY <1>1, Typed
<1>. QED
  BY <1>1, <1>2, <1>3, <1>4, IsActor, SavesSource

\* A scan's saves of the source row.
LEMMA ScanSavesStep ==
  ASSUME IInv, NEW w \in Workers, MarkScanning(w) \/ SaveEnd(w) PROVE IInv'
<1>1. /\ UNCHANGED <<setup, clock, jobs, routine, client, changes>> /\ Forget(w) /\ Busy(w)
      /\ \E step \in BusyPlaces : Run(w, step, worker[w].job)
  BY DEF MarkScanning, SaveEnd, Busy, BusyPlaces, At
<1>2. PICK copy \in Source : copy = held[w].row
  BY Typed, IsActor DEF HeldRecord
<1>3. PICK status \in {"scanning", "idle"}, time \in Readings(w) :
        SaveSource(w, [copy EXCEPT !.status = status], time)
  BY <1>2 DEF MarkScanning, SaveEnd
<1>4. PICK row \in Source : row = [copy EXCEPT !.status = status]
  BY DEF Source
<1>5. client' \in [Clients -> ClientRecord]
  BY <1>1, Typed
<1>. QED
  BY <1>1, <1>3, <1>4, <1>5, IsActor, SavesSource

\* The scheduler's reads, and waking up.
LEMMA SchedulerReadsStep ==
  ASSUME IInv, NEW w \in Workers, Schedule(w) \/ GetDue(w) \/ CheckScans(w) \/ WakeUp(w)
  PROVE  IInv'
<1>1. UNCHANGED <<setup, clock, jobs, source, routine, client, seen, changes>>
  BY DEF Schedule, GetDue, CheckScans, WakeUp
<1>2. PICK step \in Places \ BusyPlaces : Goto(w, step)
  BY DEF Schedule, GetDue, CheckScans, WakeUp, Places, BusyPlaces
<1>3. HeldNext /\ held' \in [Actors -> HeldRecord]
  <2>1. CASE held' = [held EXCEPT ![w].row = source]
    <3>1. PICK copy \in HeldRecord : copy = held[w]
      BY Typed, IsActor
    <3>2. PICK new : new = [copy EXCEPT !.row = source]
      OBVIOUS
    <3>3. new \in HeldRecord /\ new.since = copy.since /\ new.ended = copy.ended
      BY <3>1, <3>2, Typed DEF HeldRecord
    <3>4. held' = [held EXCEPT ![w] = new]
      BY <2>1, <3>1, <3>2
    <3>. QED
      BY <3>1, <3>3, <3>4, Typed, IsActor DEF HeldNext
  <2>2. CASE Read(w) \/ Forget(w) \/ UNCHANGED held
    BY <2>2, IsActor, HeldReads
  <2>. QED
    BY <2>1, <2>2 DEF Schedule, GetDue, CheckScans, WakeUp
<1>. QED
  BY <1>1, <1>2, <1>3, Typed, QuietWorker DEF Ingesting

LEMMA EndWalkStep ==
  ASSUME IInv, NEW w \in Workers, EndWalk(w) PROVE IInv'
<1>1. /\ UNCHANGED <<setup, clock, jobs, source, routine, client, seen, changes>>
      /\ Read(w) \/ Forget(w) \/ UNCHANGED held
      /\ Busy(w)
  BY DEF EndWalk, Busy, BusyPlaces, At
<1>2. PICK step \in BusyPlaces : Run(w, step, worker[w].job)
  BY DEF EndWalk, BusyPlaces
<1>3. HeldNext /\ held' \in [Actors -> HeldRecord]
  BY <1>1, IsActor, HeldReads
<1>. QED
  BY <1>1, <1>2, <1>3, Typed, QuietWorker DEF Ingesting

LEMMA CallFailsStep ==
  ASSUME IInv, NEW w \in Workers, CallFails(w) PROVE IInv'
<1>1. UNCHANGED <<setup, clock, jobs, source, routine, client, seen>>
  BY DEF CallFails
<1>2. changes' \in 0..setup.maxChanges
  BY Changed DEF CallFails
<1>3. PICK step : \/ step \in Places \ BusyPlaces /\ Goto(w, step)
                  \/ /\ step \in BusyPlaces /\ Busy(w) /\ Run(w, step, worker[w].job)
                     /\ routine' = routine
  BY <1>1 DEF CallFails, Places, BusyPlaces, Busy
<1>4. HeldNext /\ held' \in [Actors -> HeldRecord]
  <2>1. CASE held' = [held EXCEPT ![w] = [NoCopy EXCEPT !.since = clock]]
    <3>1. PICK new : new = [NoCopy EXCEPT !.since = clock]
      OBVIOUS
    <3>2. NoCopy \in HeldRecord /\ NoCopy.ended = {}
      BY Typed, LoopAssumption DEF NoCopy, FirstRow, HeldRecord, Source
    <3>3. new \in HeldRecord /\ new.since = clock /\ new.ended = {}
      BY <3>1, <3>2, Typed DEF HeldRecord
    <3>4. held' = [held EXCEPT ![w] = new] /\ clock \in 0..clock
      BY <2>1, <3>1, Typed, LoopAssumption
    <3>. QED
      BY <3>3, <3>4, Typed, IsActor DEF HeldNext
  <2>2. CASE Forget(w) \/ UNCHANGED held
    BY <2>2, IsActor, HeldReads
  <2>. QED
    BY <2>1, <2>2 DEF CallFails
<1>. QED
  BY <1>1, <1>2, <1>3, <1>4, Typed, QuietWorker DEF Ingesting

\* A batch starts or ends.
LEMMA BatchStep ==
  ASSUME IInv, NEW w \in Workers, StartBatch(w) \/ EndBatch(w) PROVE IInv'
<1>1. UNCHANGED <<setup, clock, jobs, source, client, held, seen, changes>>
  BY DEF StartBatch, EndBatch
<1>2. PICK step \in Places \ BusyPlaces : Goto(w, step)
  BY DEF StartBatch, EndBatch, Places, BusyPlaces
<1>3. PICK new \in RoutineRecord :
        /\ new.at # "run"
        /\ routine' = [g \in Routines |-> IF g[1] = w THEN new ELSE routine[g]]
  BY DEF StartBatch, EndBatch, RoutineRecord
<1>4. /\ routine' \in [Routines -> RoutineRecord]
      /\ \A g \in Routines : Ingesting(g)' => Ingesting(g) /\ routine'[g].job = routine[g].job
  <2>1. \A g \in Routines : routine'[g] = IF g[1] = w THEN new ELSE routine[g]
    BY <1>3
  <2>. QED
    BY <1>3, <2>1, Typed DEF Ingesting
<1>5. HeldNext /\ held' \in [Actors -> HeldRecord]
  BY <1>1, IsActor, HeldReads
<1>. QED
  BY <1>1, <1>2, <1>4, <1>5, Typed, QuietWorker

LEMMA QueueDueStep ==
  ASSUME IInv, NEW w \in Workers, QueueDue(w) PROVE IInv'
<1>1. /\ UNCHANGED <<setup, clock, source, routine, client, held, seen, changes>>
      /\ HasRoom /\ QueueJob("scan", held[w].since)
  BY DEF QueueDue
<1>2. PICK step \in Places \ BusyPlaces : Goto(w, step)
  BY DEF QueueDue, Places, BusyPlaces
<1>3. held[w].since \in 0..clock
  BY Typed, IsActor, LoopAssumption DEF IInv, TimesPassed, HeldRecord
<1>4. HeldNext
  BY <1>1, IsActor, HeldReads
<1>5. /\ jobs' \in Seq(Job) /\ Len(jobs') <= MaxJobs /\ DOMAIN jobs \subseteq DOMAIN jobs'
      /\ RunningStay(NoJob) /\ TimesPassed' /\ OthersAreOutdated'
  BY <1>1, <1>3, <1>4, JobAdded DEF Types
<1>6. Runners' /\ worker' \in [Workers -> WorkerRecord]
  BY <1>1, <1>2, <1>5, GoesOn DEF Ingesting
<1>7. TypeOK'
  BY <1>1, <1>5, <1>6, Typed, TypesKept
<1>. QED
  BY <1>5, <1>6, <1>7 DEF IInv

LEMMA ImportFileStep ==
  ASSUME IInv, NEW w \in Workers, ImportFile(w) PROVE IInv'
<1>1. /\ UNCHANGED <<setup, clock, source, worker, routine, client, held, seen, changes>>
      /\ HasRoom /\ QueueJob("ingest", 0)
  BY DEF ImportFile, Room
<1>2. 0 \in 0..clock
  BY Typed, LoopAssumption
<1>3. HeldNext
  BY <1>1, IsActor, HeldReads
<1>4. /\ jobs' \in Seq(Job) /\ Len(jobs') <= MaxJobs /\ DOMAIN jobs \subseteq DOMAIN jobs'
      /\ RunningStay(NoJob) /\ TimesPassed' /\ OthersAreOutdated'
  BY <1>1, <1>2, <1>3, JobAdded DEF Types
<1>5. Runners'
  BY <1>1, <1>4, NobodyActs
<1>6. TypeOK'
  BY <1>1, <1>4, Typed, TypesKept
<1>. QED
  BY <1>4, <1>5, <1>6 DEF IInv

LEMMA ClaimStep ==
  ASSUME IInv, NEW w \in Workers, NEW type \in Types, Claim(w, type) PROVE IInv'
<1>1. UNCHANGED <<setup, clock, source, routine, client, held, seen, changes>> /\ type # "ingest"
  BY DEF Claim
<1>2. HeldNext /\ held' \in [Actors -> HeldRecord]
  BY <1>1, IsActor, HeldReads
<1>3. CASE Goto(w, After(type)) /\ UNCHANGED jobs
  <2>1. PICK step \in Places \ BusyPlaces : step = After(type)
    BY DEF After, Places, BusyPlaces
  <2>. QED
    BY <1>1, <1>2, <1>3, <2>1, Typed, QuietWorker DEF Ingesting
<1>4. ASSUME NEW j \in DOMAIN jobs, First(j, type), NEW time \in 0..clock,
             SetJob(j, "running", time), Run(w, "load", j)
      PROVE  IInv'
  <2>1. Active(j) /\ jobs[j].type # "ingest" /\ jobs[j].state = "queued"
    BY <1>1, <1>4 DEF First, Active
  <2>2. /\ jobs' \in Seq(Job) /\ Len(jobs') <= MaxJobs /\ DOMAIN jobs \subseteq DOMAIN jobs'
        /\ jobs'[j].type = jobs[j].type /\ jobs'[j].state = "running"
        /\ RunningStay(NoJob) /\ TimesPassed' /\ OthersAreOutdated'
    BY <1>1, <1>2, <1>4, <2>1, JobSaved DEF States
  <2>3. PICK new : new = [at |-> "load", job |-> j]
    OBVIOUS
  <2>4. new \in WorkerRecord /\ new.job = j
    BY <2>3 DEF WorkerRecord, Places
  <2>5. worker' = [worker EXCEPT ![w] = new]
    BY <1>4, <2>3 DEF Run
  <2>6. j # NoJob
    BY Typed
  <2>7. Runners'
    BY <1>1, <2>1, <2>2, <2>4, <2>5, <2>6, WorkerActs DEF Ingesting
  <2>8. worker' \in [Workers -> WorkerRecord]
    BY <2>4, <2>5, Typed
  <2>9. TypeOK'
    BY <1>1, <2>2, <2>8, Typed, TypesKept
  <2>. QED
    BY <2>2, <2>7, <2>9 DEF IInv
<1>. QED
  BY <1>3, <1>4 DEF Claim

LEMMA LoadSourceStep ==
  ASSUME IInv, NEW w \in Workers, LoadSource(w) PROVE IInv'
<1>1. /\ UNCHANGED <<setup, clock, jobs, source, routine, client, changes>>
      /\ Busy(w)
      /\ Read(w) \/ Forget(w) \/ UNCHANGED held
  BY DEF LoadSource, Busy, BusyPlaces, At
<1>2. PICK step \in BusyPlaces : Run(w, step, worker[w].job)
  BY DEF LoadSource, AfterLoad, BusyPlaces
<1>3. HeldNext /\ held' \in [Actors -> HeldRecord]
  BY <1>1, IsActor, HeldReads
<1>4. PICK job : job = worker[w].job
  OBVIOUS
<1>5. job \in DOMAIN jobs /\ job \in 1..MaxJobs /\ jobs[job].state = "running"
  BY <1>1, <1>4, BusyJob, Typed
<1>6. CASE seen' = seen
  BY <1>1, <1>2, <1>3, <1>6, Typed, QuietWorker DEF Ingesting
<1>7. CASE seen' = [seen EXCEPT ![job].root = source.root]
  <2>1. PICK read \in SeenRecord : read = seen[job]
    BY <1>5, Typed
  <2>2. PICK new : new = [read EXCEPT !.root = source.root]
    OBVIOUS
  <2>3. new \in SeenRecord /\ new.root = source.root
    BY <2>1, <2>2, Typed DEF SeenRecord, Source
  <2>4. seen' = [seen EXCEPT ![job] = new]
    BY <1>7, <2>1, <2>2
  <2>5. /\ seen' \in [1..MaxJobs -> SeenRecord] /\ seen'[job] = new
        /\ \A j \in 1..MaxJobs : j # job => seen'[j] = seen[j]
    BY <1>5, <2>3, <2>4, Typed
  <2>6. RunningStay(NoJob) /\ JobsStay
    BY <1>1 DEF RunningStay, JobsStay
  <2>7. TimesPassed'
    <3>1. clock' \in Nat /\ clock <= clock'
      BY <1>1, Typed, LoopAssumption
    <3>. QED
      BY <1>1, <1>3, <2>6, <3>1, TimesKept
  <2>8. OthersAreOutdated'
    BY <1>1, <1>5, <2>3, <2>5 DEF IInv, OthersAreOutdated, Fresh
  <2>9. Runners' /\ worker' \in [Workers -> WorkerRecord]
    BY <1>1, <1>2, <2>6, KeepsJob
  <2>10. TypeOK'
    BY <1>1, <1>3, <2>5, <2>9, Typed, TypesKept
  <2>. QED
    BY <2>7, <2>8, <2>9, <2>10 DEF IInv
<1>. QED
  BY <1>4, <1>6, <1>7 DEF LoadSource

\* A worker saves the end of its job.
LEMMA EndJobStep ==
  ASSUME IInv, NEW w \in Workers, Check(w) \/ Cancel(w) \/ Fail(w) \/ Settle(w)
  PROVE  IInv'
<1>1. Busy(w)
  BY DEF Check, Cancel, Fail, Settle, Busy, BusyPlaces, At
<1>2. PICK state \in States \ {"queued"} : EndJob(w, state)
  BY DEF Check, Cancel, Fail, Settle, States
<1>3. /\ Forget(w) /\ Goto(w, "schedule")
      /\ UNCHANGED <<setup, clock, source, routine, client, seen, changes>>
  BY <1>2 DEF EndJob
<1>4. PICK job : job = worker[w].job
  OBVIOUS
<1>5. PICK time \in Readings(w) : SetJob(job, state, time)
  BY <1>2, <1>4 DEF EndJob
<1>6. time \in 0..clock
  BY <1>5, IsActor, ReadingsPassed
<1>7. job \in DOMAIN jobs /\ Active(job)
  BY <1>1, <1>4, BusyJob DEF Active
<1>8. HeldNext /\ held' \in [Actors -> HeldRecord]
  BY <1>3, IsActor, HeldReads
<1>9. /\ jobs' \in Seq(Job) /\ Len(jobs') <= MaxJobs /\ DOMAIN jobs \subseteq DOMAIN jobs'
      /\ RunningStay(job) /\ TimesPassed' /\ OthersAreOutdated'
  BY <1>2, <1>3, <1>5, <1>6, <1>7, <1>8, JobSaved
<1>10. PICK step \in Places \ BusyPlaces : step = "schedule"
  BY DEF Places, BusyPlaces
<1>11. Runners' /\ worker' \in [Workers -> WorkerRecord]
  BY <1>1, <1>3, <1>4, <1>9, <1>10, GoesOn DEF Ingesting
<1>12. TypeOK'
  BY <1>3, <1>8, <1>9, <1>11, Typed, TypesKept
<1>. QED
  BY <1>9, <1>11, <1>12 DEF IInv

LEMMA ClaimIngestionStep ==
  ASSUME IInv, NEW g \in Routines, ClaimIngestion(g) PROVE IInv'
<1>1. UNCHANGED <<setup, clock, source, worker, client, held, seen, changes>>
  BY DEF ClaimIngestion
<1>2. HeldNext /\ held' \in [Actors -> HeldRecord] /\ 0 \in 0..clock
  BY <1>1, Typed, LoopAssumption DEF HeldNext
<1>3. ASSUME NEW new \in RoutineRecord, routine' = [routine EXCEPT ![g] = new],
             jobs' \in Seq(Job) /\ Len(jobs') <= MaxJobs /\ DOMAIN jobs \subseteq DOMAIN jobs',
             RunningStay(NoJob), TimesPassed', OthersAreOutdated',
             new.at = "run" => /\ new.job \in DOMAIN jobs /\ jobs[new.job].state = "queued"
                               /\ jobs'[new.job].state = "running"
                               /\ jobs'[new.job].type = "ingest"
      PROVE  IInv'
  <2>1. Runners'
    BY <1>1, <1>3, Typed, RoutineActs
  <2>2. routine' \in [Routines -> RoutineRecord]
    BY <1>3, Typed
  <2>3. TypeOK'
    BY <1>1, <1>3, <2>2, Typed, TypesKept
  <2>. QED
    BY <1>3, <2>1, <2>3 DEF IInv
<1>4. ASSUME NEW j \in DOMAIN jobs, First(j, "ingest"), SetJob(j, "running", 0),
             routine' = [routine EXCEPT ![g] = [at |-> "run", job |-> j]]
      PROVE  IInv'
  <2>1. Active(j) /\ jobs[j].type = "ingest" /\ jobs[j].state = "queued"
    BY <1>4 DEF First, Active
  <2>2. /\ jobs' \in Seq(Job) /\ Len(jobs') <= MaxJobs /\ DOMAIN jobs \subseteq DOMAIN jobs'
        /\ jobs'[j].type = jobs[j].type /\ jobs'[j].state = "running"
        /\ RunningStay(NoJob) /\ TimesPassed' /\ OthersAreOutdated'
    BY <1>1, <1>2, <1>4, <2>1, JobSaved DEF States
  <2>3. PICK new : new = [at |-> "run", job |-> j]
    OBVIOUS
  <2>4. new \in RoutineRecord /\ new.job = j
    BY <2>3 DEF RoutineRecord
  <2>. QED
    BY <1>3, <1>4, <2>1, <2>2, <2>3, <2>4
<1>5. CASE routine' = [routine EXCEPT ![g] = [at |-> "unprocessed", job |-> NoJob]]
           /\ UNCHANGED jobs
  <2>1. PICK new : new = [at |-> "unprocessed", job |-> NoJob]
    OBVIOUS
  <2>2. new \in RoutineRecord /\ new.at # "run"
    BY <2>1 DEF RoutineRecord
  <2>3. clock' \in clock..MaxTime
    BY <1>1, Typed, LoopAssumption
  <2>4. /\ jobs' \in Seq(Job) /\ Len(jobs') <= MaxJobs /\ DOMAIN jobs \subseteq DOMAIN jobs'
        /\ RunningStay(NoJob) /\ TimesPassed' /\ OthersAreOutdated'
    BY <1>1, <1>2, <1>5, <2>3, NothingSaved
  <2>. QED
    BY <1>3, <1>5, <2>1, <2>2, <2>4
<1>. QED
  BY <1>4, <1>5 DEF ClaimIngestion

LEMMA IngestStep ==
  ASSUME IInv, NEW g \in Routines, Ingest(g) PROVE IInv'
<1>1. UNCHANGED <<setup, clock, source, worker, client, held, seen, changes>> /\ Ingesting(g)
  BY DEF Ingest, Ingesting
<1>2. HeldNext /\ held' \in [Actors -> HeldRecord] /\ 0 \in 0..clock
  BY <1>1, Typed, LoopAssumption DEF HeldNext
<1>3. PICK job : job = routine[g].job
  OBVIOUS
<1>4. PICK state \in {"succeeded", "failed"} :
        /\ SetJob(job, state, 0)
        /\ routine' = [routine EXCEPT ![g] =
             [at |-> IF state = "succeeded" THEN "processed" ELSE "unprocessed", job |-> NoJob]]
  BY <1>3 DEF Ingest
<1>5. job \in DOMAIN jobs /\ Active(job)
  BY <1>1, <1>3, IngestedJob DEF Active
<1>6. /\ jobs' \in Seq(Job) /\ Len(jobs') <= MaxJobs /\ DOMAIN jobs \subseteq DOMAIN jobs'
      /\ RunningStay(job) /\ TimesPassed' /\ OthersAreOutdated'
  BY <1>1, <1>2, <1>4, <1>5, JobSaved DEF States
<1>7. PICK new : new = [at |-> IF state = "succeeded" THEN "processed" ELSE "unprocessed",
                        job |-> NoJob]
  OBVIOUS
<1>8. new \in RoutineRecord /\ new.at # "run"
  BY <1>7 DEF RoutineRecord
<1>9. routine' = [routine EXCEPT ![g] = new]
  BY <1>4, <1>7
<1>10. Runners'
  BY <1>1, <1>3, <1>6, <1>8, <1>9, RoutineActs
<1>11. routine' \in [Routines -> RoutineRecord]
  BY <1>8, <1>9, Typed
<1>12. TypeOK'
  BY <1>1, <1>2, <1>6, <1>11, Typed, TypesKept
<1>. QED
  BY <1>6, <1>10, <1>12 DEF IInv

-----------------------------------------------------------------------------
(***************************************************************************)
(* The invariant and what follows from it.                                 *)
(***************************************************************************)

LEMMA IInvInit ==
  ASSUME Init PROVE IInv
<1>1. setup \in Setups /\ clock = 0 /\ changes = 0 /\ source = FirstRow
  BY DEF Init
<1>2. /\ setup.queued \in Types \cup {None} /\ setup.root \in Roots /\ setup.maxChanges \in Nat
      /\ MaxTime \in Nat /\ MaxJobs \in Nat /\ MaxJobs >= 1
  BY <1>1, LoopAssumption
<1>3. /\ jobs \in Seq(Job) /\ Len(jobs) <= MaxJobs
      /\ \A j \in DOMAIN jobs : jobs[j].updated = 0
  <2>1. CASE setup.queued = None
    BY <1>2, <2>1 DEF Init
  <2>2. CASE setup.queued # None
    <3>1. PICK row : row = NewJob(setup.queued, 0)
      OBVIOUS
    <3>2. row \in Job /\ row.updated = 0
      BY <1>2, <2>2, <3>1 DEF NewJob, Stamp, Job, States
    <3>3. jobs = <<row>>
      BY <2>2, <3>1 DEF Init
    <3>. QED
      BY <1>2, <3>2, <3>3
  <2>. QED
    BY <2>1, <2>2
<1>4. source \in Source /\ NoCopy \in HeldRecord
  BY <1>1, <1>2 DEF FirstRow, Source, NoCopy, HeldRecord
<1>5. /\ \A w \in Workers : worker[w] = [at |-> "schedule", job |-> NoJob]
      /\ \A g \in Routines : routine[g] = [at |-> "off", job |-> NoJob]
      /\ \A a \in Actors : held[a] = NoCopy
      /\ \A j \in 1..MaxJobs : seen[j] = [root |-> None, raced |-> FALSE]
  BY DEF Init
<1>6. TypeOK
  <2>1. /\ worker \in [Workers -> WorkerRecord] /\ routine \in [Routines -> RoutineRecord]
        /\ client \in [Clients -> ClientRecord] /\ seen \in [1..MaxJobs -> SeenRecord]
    BY DEF Init, WorkerRecord, RoutineRecord, ClientRecord, SeenRecord, Places
  <2>2. held \in [Actors -> HeldRecord]
    BY <1>4 DEF Init
  <2>. QED
    BY <1>1, <1>2, <1>3, <1>4, <2>1, <2>2
    DEF TypeOK, WorkerRecord, RoutineRecord, ClientRecord, HeldRecord, SeenRecord, Places
<1>7. Runners
  BY <1>5 DEF Runners, WorkersRun, RoutinesRun, OneRunner, Busy, BusyPlaces, Ingesting
<1>8. TimesPassed
  BY <1>1, <1>3, <1>5 DEF TimesPassed, NoCopy
<1>9. OthersAreOutdated
  BY <1>5 DEF OthersAreOutdated
<1>. QED
  BY <1>6, <1>7, <1>8, <1>9 DEF IInv

LEMMA IInvStep ==
  ASSUME IInv, [Next]_vars PROVE IInv'
<1>1. ASSUME NEW w \in Workers, Loop(w) \/ ImportFile(w) \/ CallFails(w)
      PROVE  IInv'
  <2>1. CASE Scheduler(w)
    BY <2>1, SchedulerReadsStep, QueueDueStep, AdvanceScheduleStep DEF Scheduler
  <2>2. CASE SourceJob(w)
    BY <2>2, ClaimStep, LoadSourceStep, EndJobStep DEF SourceJob
  <2>3. CASE Scan(w)
    BY <2>3, ScanSavesStep, EndWalkStep DEF Scan
  <2>4. CASE StartBatch(w) \/ EndBatch(w)
    BY <2>4, BatchStep
  <2>5. CASE WakeUp(w)
    BY <2>5, SchedulerReadsStep
  <2>6. CASE ImportFile(w) \/ CallFails(w)
    BY <2>6, ImportFileStep, CallFailsStep
  <2>. QED
    BY <1>1, <2>1, <2>2, <2>3, <2>4, <2>5, <2>6 DEF Loop
<1>2. ASSUME NEW g \in Routines, Batch(g)
      PROVE  IInv'
  BY <1>2, ClaimIngestionStep, IngestStep DEF Batch
<1>3. ASSUME NEW c \in Clients, Requests(c)
      PROVE  IInv'
  BY <1>3, QuietRequestStep, SaveRequestStep, SaveEditStep DEF Requests
<1>4. CASE Tick
  BY <1>4, TickStep
<1>5. CASE UNCHANGED vars
  <2>1. /\ TypeOK' = TypeOK /\ TimesPassed' = TimesPassed
        /\ OthersAreOutdated' = OthersAreOutdated
    BY <1>5 DEF vars, TypeOK, TimesPassed, OthersAreOutdated, Fresh, Active
  <2>2. Runners' = Runners
    BY <1>5 DEF vars, Runners, WorkersRun, RoutinesRun, OneRunner, Busy, Ingesting
  <2>. QED
    BY <2>1, <2>2 DEF IInv
<1>. QED
  BY <1>1, <1>2, <1>3, <1>4, <1>5 DEF Next

THEOREM IInvInvariance == Spec => []IInv
BY IInvInit, IInvStep, PTL DEF Spec

\* The variables of the workers' loops, goroutines and requests stay of their
\* types, for any number of each (TypeOK).
THEOREM LoopTypes == Spec => []TypeOK
<1>1. IInv => TypeOK
  BY DEF IInv
<1>. QED
  BY <1>1, IInvInvariance, PTL

\* Which checks still say something about a source (latestRelevantDataSourceJob):
\* an ended check that counts as newer than the source row has read the root path
\* that the row has, or a save of the row overlapped it.  For any number of
\* workers, requests and root paths, with times that are read before the saves
\* that store them, stale copies and saves out of order.
THEOREM ChecksStayOfTheRow == Spec => []ChecksAreOfTheRow
<1>1. ASSUME IInv PROVE ChecksAreOfTheRow
  <2> SUFFICES ASSUME NEW j \in DOMAIN jobs, seen[j].root # None,
                      jobs[j].updated > source.updated
               PROVE  seen[j].root = source.root \/ seen[j].raced
    BY DEF ChecksAreOfTheRow
  <2>1. j \in 1..MaxJobs
    BY <1>1, Typed
  <2>2. Fresh(j) \/ jobs[j].updated <= source.updated
    BY <1>1, <2>1 DEF IInv, OthersAreOutdated
  <2>3. jobs[j].updated \in Nat /\ source.updated \in Nat
    BY <1>1, Typed, LoopAssumption DEF Job, Source
  <2>. QED
    BY <2>2, <2>3 DEF Fresh
<1>. QED
  BY <1>1, IInvInvariance, PTL

\* No job is run by two workers, by two goroutines, or by a goroutine and a
\* worker, whatever is queued and however claims interleave (ProcessNext of the
\* four workers and ProcessDocumentIngestionBatch).
THEOREM JobsHaveOneRunner ==
  Spec => [](/\ OneRunner
             /\ \A w \in Workers, g \in Routines :
                  Busy(w) /\ Ingesting(g) => worker[w].job # routine[g].job)
<1>1. ASSUME IInv, NEW w \in Workers, NEW g \in Routines, Busy(w), Ingesting(g)
      PROVE  worker[w].job # routine[g].job
  BY <1>1, BusyJob, IngestedJob
<1>2. IInv => /\ OneRunner
              /\ \A w \in Workers, g \in Routines :
                   Busy(w) /\ Ingesting(g) => worker[w].job # routine[g].job
  BY <1>1 DEF IInv, Runners
<1>. QED
  BY <1>2, IInvInvariance, PTL
=============================================================================
