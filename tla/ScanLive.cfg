\* Fair requests and workers, nobody updates the source.
SPECIFICATION FairSpec
CONSTANTS
    w1 = w1
    w2 = w2
    c1 = c1
    MaxJobs = 2
    Workers = {w1, w2}
    Clients = {c1}
    Operations = {"archive", "scan", "cancel"}
    Schedules = {TRUE, FALSE}
    FullLists = FALSE
    Faults = {}
INVARIANTS
    ScanningIsScanned
    OneActiveManualScan
PROPERTIES
    EveryScanEnds
    ScanningEnds
    DueScansHappen
CHECK_DEADLOCK FALSE
