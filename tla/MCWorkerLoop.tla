---------------------------- MODULE MCWorkerLoop ----------------------------
(* Instances of WorkerLoop. *)
EXTENDS WorkerLoop

CONSTANTS p1, p2

\* Every type of job, a root that changes or a call that fails; no time passes.
Anything ==
  [types |-> Types, changes |-> Changes, maxChanges |-> 1, maxTime |-> 0,
   root |-> p1, bad |-> {p2}, scheduled |-> FALSE, queued |-> None]

\* Path checks and scheduled scans while the source is updated and time passes.
Times ==
  [types |-> {"preflight", "scan"}, changes |-> Changes, maxChanges |-> 1, maxTime |-> 1,
   root |-> p1, bad |-> {}, scheduled |-> TRUE, queued |-> "preflight"]

TheSetups == {Anything, Times}
=============================================================================
