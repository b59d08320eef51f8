\* Fair requests and workers; the vector index may fail, nothing stops.
SPECIFICATION FairSpec
CONSTANTS
    d1 = d1
    w1 = w1
    w2 = w2
    c1 = c1
    c2 = c2
    NoDocument = NoDocument
    Documents = {d1}
    MaxJobs = 2
    Workers = {w1, w2}
    Clients = {c1, c2}
    Operations = {"upload", "register", "retry", "retryFailed", "reindex", "delete"}
    Outcomes = {"text", "eof", "error"}
    Faults = {"provider"}
INVARIANTS
    UnsettledDocumentsAreCarried
PROPERTIES
    EveryUploadSettles
    EveryQueuedJobFinishes
CHECK_DEADLOCK FALSE
