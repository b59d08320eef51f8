\* Every fault, every request, two workers and two concurrent requests.
SPECIFICATION Spec
CONSTANTS
    d1 = d1
    w1 = w1
    w2 = w2
    c1 = c1
    c2 = c2
    NoDocument = NoDocument
    Documents = {d1}
    MaxJobs = 3
    Workers = {w1, w2}
    Clients = {c1, c2}
    Operations = {"upload", "register", "retry", "retryFailed", "reindex", "delete"}
    Outcomes = {"text", "eof", "error"}
    Faults = {"abort", "provider", "store", "crash"}
SYMMETRY Interchangeable
INVARIANTS
    TypeOK
    HandedOutOnce
PROPERTIES
    ImplementsQueue
    JobsFollowTheirMachine
    QuietDeletionIsFinal
CHECK_DEADLOCK FALSE
