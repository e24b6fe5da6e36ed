\* Leaves in any order, operation times apart from leaf times, every trigger.
SPECIFICATION Spec
CONSTANTS
    Top = 2
    Duration <- MCDuration
    MaxItems <- MCThreeLeaves
    MaxAge <- MCShortAges
    ContentType <- MCMixedContent
    Objects = {o1}
    None = None
    Appenders = {a1}
    Times <- MCShortTimes
    Payloads = {o1, None}
    Lateness = 5
    OpLag = 1
    MaxLeaves = 3
    MaxStoreFailures = 0
    MaxRestarts = 0
INVARIANTS
    AcceptedLeafHeldOnce
    LeafPageChain
    NetPatchesFollowChildren
PROPERTIES
    StoredLeavesStay
CHECK_DEADLOCK FALSE
