\* Queries between the steps of add_leaf; a read fails, a page is deleted, or the process restarts.
SPECIFICATION DSpec
CONSTANTS
    Top = 1
    Duration <- MCDuration
    MaxItems <- MCMaxItems
    MaxAge <- MCAgeOfWindow
    ContentType <- MCHashes
    Objects = {o1}
    None = None
    Appenders = {a1}
    Times <- MCTimes
    Payloads = {o1, None}
    Lateness = 0
    OpLag = 0
    MaxLeaves = 3
    MaxStoreFailures = 0
    MaxRestarts = 1
    Queries <- MCQueries
    ContainerOf <- MCContainerOf
    DirectoryOrder = TRUE
    MaxQueries = 1
    MaxFaults = 1
INVARIANTS
    ReaderTypeOK
    ReportHasStoredLeaves
    QuietReportExact
    StateFollowsStore
    StoredLeafProved
CHECK_DEADLOCK FALSE
