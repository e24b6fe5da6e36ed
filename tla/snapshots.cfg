\* Snapshots and integrity checks between the steps of add_leaf; a page is deleted.
SPECIFICATION DSpec
CONSTANTS
    Top = 1
    Duration <- MCShortDuration
    MaxItems <- MCTwoItems
    MaxAge <- MCShortAge
    ContentType <- MCPatches
    Objects = {o1}
    None = None
    Appenders = {a1}
    Times <- MCEdgeTimes
    Payloads = {o1}
    Lateness = 0
    OpLag = 0
    MaxLeaves = 4
    MaxStoreFailures = 0
    MaxRestarts = 0
    Queries <- MCWholeQueries
    ContainerOf <- MCContainerOf
    DirectoryOrder = TRUE
    MaxQueries = 1
    MaxFaults = 1
INVARIANTS
    ChainChecked
    SnapshotFollowsStore
CHECK_DEADLOCK FALSE
