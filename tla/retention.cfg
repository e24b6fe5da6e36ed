\* Sweeps of apply_retention_policies between the steps of add_leaf.
SPECIFICATION RSpec
CONSTANTS
    Top = 1
    Duration <- MCDuration
    MaxItems <- MCMaxItems
    MaxAge <- MCAgeOfWindow
    ContentType <- MCHashes
    Objects = {}
    None = None
    Appenders = {a1}
    Times <- MCTimes
    Payloads = {None}
    Lateness = 0
    OpLag = 0
    MaxLeaves = 4
    MaxStoreFailures = 0
    MaxRestarts = 1
    RetentionConfigs <- MCConfigs
    Clock <- MCClock
    MaxSweeps = 2
    MaxSweepFailures = 1
INVARIANTS
    RetentionTypeOK
    KeptLeavesHeldOnce
    DeletesOldEnd
PROPERTIES
    OnlyPolicyDeletes
    KeptLevelsStay
CHECK_DEADLOCK FALSE
