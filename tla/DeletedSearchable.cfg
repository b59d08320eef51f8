\* A deletion that overlaps the ingestion of the document.
SPECIFICATION Spec
CONSTANTS
    d1 = d1
    w1 = w1
    c1 = c1
    NoDocument = NoDocument
    Documents = {d1}
    MaxJobs = 1
    Workers = {w1}
    Clients = {c1}
    Operations = {"upload", "delete"}
    Outcomes = {"text"}
    Faults = {}
INVARIANTS
    DeletedDocumentsLeaveTheIndex
CHECK_DEADLOCK FALSE
