\* Every request, schedule and fault; job lists may be cut off.
SPECIFICATION Spec
CONSTANTS
    w1 = w1
    w2 = w2
    c1 = c1
    MaxJobs = 2
    Workers = {w1, w2}
    Clients = {c1}
    Operations = {"update", "archive", "scan", "cancel"}
    Schedules = {TRUE, FALSE}
    FullLists = TRUE
    Faults = {"abort", "store", "crash"}
SYMMETRY Interchangeable
INVARIANTS
    TypeOK
    ScannedOnce
    ScheduleMatchesSource
PROPERTIES
    NeverRequeued
    QuietArchiveIsFinal
    OnlyCancelsLeaveTheMachine
CHECK_DEADLOCK FALSE
