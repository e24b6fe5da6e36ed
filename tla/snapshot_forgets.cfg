\* A page of patches does not have what the snapshot takes it to have.
SPECIFICATION DSpec
CONSTANTS
    Top = 1
    Duration <- MCShortDuration
    MaxItems <- MCTwoItems
    MaxAge <- MCShortAge
    ContentType <- MCPatches
    Objects = {o1}
    None = None
    Appenders = {a1}
    Times <- MCShortTimes
    Payloads = {o1, None}
    Lateness = 0
    OpLag = 0
    MaxLeaves = 3
    MaxStoreFailures = 0
    MaxRestarts = 0
    Queries <- MCWholeQueries
    ContainerOf <- MCContainerOf
    DirectoryOrder = TRUE
    MaxQueries = 1
    MaxFaults = 0
INVARIANT SnapshotReflectsState
CHECK_DEADLOCK FALSE
