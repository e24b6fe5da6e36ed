\* A restart between two leaves: page ids start again at 0.
SPECIFICATION Spec
CONSTANTS
    Top = 2
    Duration <- MCDuration
    MaxItems <- MCMaxItems
    MaxAge <- MCAgeOfWindow
    ContentType <- MCHashes
    Objects = {}
    None = None
    Appenders = {a1}
    Times <- MCRestartTimes
    Payloads = {None}
    Lateness = 0
    OpLag = 0
    MaxLeaves = 4
    MaxStoreFailures = 0
    MaxRestarts = 1
PROPERTIES
    StoredLeavesStay
CHECK_DEADLOCK FALSE
