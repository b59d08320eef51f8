------------------------------- MODULE Domain -------------------------------
(***************************************************************************)
(* The state machines of internal/domain, which every service, worker and  *)
(* store of the system shares: jobs, documents and data sources.  A row    *)
(* that has not been saved yet is in the pseudo state "absent".            *)
(***************************************************************************)

\* domain.JobState.  No code path writes "retrying", but claims, guards and the
\* transition table all know it.
JobStates ==
    {"queued", "running", "retrying", "succeeded", "failed", "canceled"}

\* JobState.CanTransition: the four states without successors are terminal.
JobCanTransition(s, t) ==
    \/ s = "queued"   /\ t \in {"running", "canceled"}
    \/ s = "running"  /\ t \in {"succeeded", "failed", "retrying", "canceled"}
    \/ s = "retrying" /\ t \in {"queued", "running", "failed", "canceled"}

TerminalJobStates == {"succeeded", "failed", "canceled"}

\* isActiveJobState and isActiveDocumentIngestionJob: a job that still may run.
ActiveJobStates == {"queued", "running", "retrying"}

\* domain.DocumentStatus
DocumentStatuses == {"uploaded", "processing", "ready", "failed", "deleted"}

\* DocumentStatus.CanTransition.  A ready document has no way back to
\* "processing"; "deleted" has no successor.
DocumentCanTransition(s, t) ==
    \/ s = "uploaded"   /\ t \in {"processing", "deleted", "failed"}
    \/ s = "processing" /\ t \in {"ready", "failed", "deleted"}
    \/ s = "ready"      /\ t = "deleted"
    \/ s = "failed"     /\ t \in {"processing", "deleted"}

\* domain.DataSourceStatus
DataSourceStatuses == {"active", "scanning", "failed", "archived"}

\* DataSourceStatus.CanTransition: "archived" has no successor.
DataSourceCanTransition(s, t) ==
    \/ s = "active"   /\ t \in {"scanning", "failed", "archived"}
    \/ s = "scanning" /\ t \in {"active", "failed", "archived"}
    \/ s = "failed"   /\ t \in {"scanning", "active", "archived"}
=============================================================================
