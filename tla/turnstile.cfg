\* Two payloads, answers lost, saves that fail, a restart, an edited state file.
SPECIFICATION FairSpec
CONSTANTS
    Payloads = {p1, p2}
    NotJson = NotJson
    Timestamps = {0, 1}
    MaxRetries = 1
    LogOrphans = TRUE
    MaxAppends = 2
    MaxAttempts = 2
    MaxFaults = 2
INVARIANTS
    TypeOK
    LedgerRooted
    CommittedOnce
    EventsResolve
    TicketsKept
    AcknowledgedStay
    RetryBudget
PROPERTIES
    ParkingLotEmpties
CHECK_DEADLOCK FALSE
