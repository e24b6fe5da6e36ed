\* A leaf older than the active parent page.
SPECIFICATION Spec
CONSTANTS
    Top = 2
    Duration <- MCDuration
    MaxItems <- MCMaxItems
    MaxAge <- MCAgeOfWindow
    ContentType <- MCHashes
    Objects = {}
    None = None
    Appenders = {a1}
    Times <- MCTimes
    Payloads = {None}
    Lateness = 8
    OpLag = 0
    MaxLeaves = 4
    MaxStoreFailures = 0
    MaxRestarts = 0
INVARIANTS
    EveryPageRolledUp
CHECK_DEADLOCK FALSE
