------------------------------ MODULE JobQueue ------------------------------
(***************************************************************************)
(* What the repository's job queue promises its users, without documents,  *)
(* stores or requests: a job is submitted once, picked in creation order   *)
(* among those that nobody is claiming, handed to exactly one worker, and  *)
(* finished at most once, by that worker.  A worker may also release a job *)
(* it has not claimed yet, or drop one it has (a crash, a shutdown, a lost *)
(* write); the queue then keeps that one "running" for ever, for nothing   *)
(* re-queues a job.                                                        *)
(*                                                                         *)
(* DocumentIngestion implements this specification.                        *)
(***************************************************************************)
EXTENDS Naturals, Domain

CONSTANTS MaxJobs,  \* bound on the jobs created in a behaviour
          Workers   \* everyone that claims jobs

VARIABLES state,    \* job -> its state, "absent" until it is submitted
          claims,   \* job -> how often it was claimed (Job.Attempts)
          picked,   \* worker -> the job it is claiming
          holds     \* worker -> the job it has claimed and works on

vars == <<state, claims, picked, holds>>

\* Jobs are named by their creation time, so the oldest is the least.
Jobs == 1 .. MaxJobs
NoJob == 0

Init ==
    /\ state = [j \in Jobs |-> "absent"]
    /\ claims = [j \in Jobs |-> 0]
    /\ picked = [w \in Workers |-> NoJob]
    /\ holds = [w \in Workers |-> NoJob]

Submit(j) ==
    /\ state[j] = "absent"
    /\ state' = [state EXCEPT ![j] = "queued"]
    /\ UNCHANGED <<claims, picked, holds>>

Available(j) == state[j] = "queued" /\ \A w \in Workers : picked[w] # j

Pick(w, j) ==
    /\ holds[w] = NoJob
    /\ picked[w] = NoJob
    /\ Available(j)
    /\ \A k \in Jobs : Available(k) => j <= k
    /\ picked' = [picked EXCEPT ![w] = j]
    /\ UNCHANGED <<state, claims, holds>>

Claim(w) ==
    /\ picked[w] # NoJob
    /\ state[picked[w]] = "queued"
    /\ state' = [state EXCEPT ![picked[w]] = "running"]
    /\ claims' = [claims EXCEPT ![picked[w]] = @ + 1]
    /\ holds' = [holds EXCEPT ![w] = picked[w]]
    /\ picked' = [picked EXCEPT ![w] = NoJob]

Release(w) ==
    /\ picked[w] # NoJob
    /\ picked' = [picked EXCEPT ![w] = NoJob]
    /\ UNCHANGED <<state, claims, holds>>

Finish(w, s) ==
    /\ holds[w] # NoJob
    /\ state[holds[w]] = "running"
    /\ state' = [state EXCEPT ![holds[w]] = s]
    /\ holds' = [holds EXCEPT ![w] = NoJob]
    /\ UNCHANGED <<claims, picked>>

Drop(w) ==
    /\ holds[w] # NoJob
    /\ holds' = [holds EXCEPT ![w] = NoJob]
    /\ UNCHANGED <<state, claims, picked>>

Next ==
    \/ \E j \in Jobs : Submit(j)
    \/ \E w \in Workers :
        \/ \E j \in Jobs : Pick(w, j)
        \/ Claim(w)
        \/ Release(w)
        \/ \E s \in TerminalJobStates : Finish(w, s)
        \/ Drop(w)

Spec == Init /\ [][Next]_vars

(***************************************************************************)
(* Properties                                                              *)
(***************************************************************************)

\* No job is handed out twice: two workers never hold the same job, a held job
\* is running, and a job is claimed at most once over its whole life.
HandedOutOnce ==
    /\ \A v, w \in Workers :
         holds[v] = holds[w] /\ holds[v] # NoJob => v = w
    /\ \A w \in Workers : holds[w] # NoJob => state[holds[w]] = "running"
    /\ \A j \in Jobs :
         claims[j] = IF state[j] \in {"absent", "queued"} THEN 0 ELSE 1
=============================================================================
