\* Leaves in time order, one appender (Journal::append_leaf), stores may fail.
SPECIFICATION FairSpec
CONSTANTS
    Top = 2
    Duration <- MCDuration
    MaxItems <- MCMaxItems
    MaxAge <- MCAgeOfWindow
    ContentType <- MCHashes
    Objects = {}
    None = None
    Appenders = {a1}
    Times <- MCTimes
    Payloads = {None}
    Lateness = 0
    OpLag = 0
    MaxLeaves = 5
    MaxStoreFailures = 1
    MaxRestarts = 0
INVARIANTS
    EveryPageRolledUp
    ChildHashesResolve
    PageChains
PROPERTIES
    FinalizedPagesReadOnly
    CallsReturn
CHECK_DEADLOCK FALSE
