\* Requests about a document take turns after their job check, nobody deletes,
\* every fault may happen.
SPECIFICATION Spec
CONSTANTS
    d1 = d1
    d2 = d2
    w1 = w1
    w2 = w2
    c1 = c1
    c2 = c2
    NoDocument = NoDocument
    Documents = {d1, d2}
    MaxJobs = 4
    Workers = {w1, w2}
    Clients = {c1, c2}
    Operations = {"upload", "register", "retry", "retryFailed", "reindex"}
    Outcomes = {"text", "error"}
    Faults = {"abort", "provider", "store", "crash"}
SYMMETRY Interchangeable
CONSTRAINT RequestsTakeTurns
INVARIANTS
    OneActiveJobPerDocument
    SucceededJobsPublished
PROPERTY
    ImplementsLife
CHECK_DEADLOCK FALSE
