\* From init to the leaves of one journal: appends under the lock, reads of pages beside them, a failed write.
SPECIFICATION JSpec
CONSTANTS
    Top = 1
    Duration <- MCDuration
    MaxItems <- MCMaxItems
    MaxAge <- MCAge
    ContentType <- MCHashes
    Objects = {}
    None = None
    Appenders = {a1, a2}
    Times <- MCTimes
    Payloads = {None}
    Lateness = 0
    OpLag = 0
    MaxLeaves = 4
    MaxStoreFailures = 1
    MaxRestarts = 0
    ConfigFiles <- MCFiles
    Names = {"day", "week", "month", "year", "fine", "coarse"}
    Environments = {"unset", "bad", "debug"}
    AgeLimit <- MCAgeLimit
    Features = {"Zstd", "Lz4"}
    DefaultPath = "directory"
    Parents = {h1}
    PageIds = {0, 1}
    MaxResets = 1
    MaxReads = 1
INVARIANTS
    ConfigInForce
    AckedLeavesChain
    GotPageHoldsItsLeaves
PROPERTIES
    ImplementsLog
CHECK_DEADLOCK FALSE
