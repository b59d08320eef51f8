\* One upload, one re-index, one worker, no fault, no overlap.
SPECIFICATION Spec
CONSTANTS
    d1 = d1
    w1 = w1
    c1 = c1
    NoDocument = NoDocument
    Documents = {d1}
    MaxJobs = 2
    Workers = {w1}
    Clients = {c1}
    Operations = {"upload", "reindex"}
    Outcomes = {"text"}
    Faults = {}
PROPERTIES
    FailedJobsFailTheirDocument
CHECK_DEADLOCK FALSE
