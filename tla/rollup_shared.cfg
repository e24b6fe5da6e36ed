\* Two overlapping calls of add_leaf, leaves in any order, a failing call of the storage, a restart.
SPECIFICATION Spec
CONSTANTS
    Top = 1
    Duration <- MCDuration2
    MaxItems <- MCMaxItems2
    MaxAge <- MCAges2
    ContentType <- MCHashes2
    Objects = {}
    None = None
    Appenders = {a1, a2}
    Times <- MCTimes2
    Payloads = {None}
    Lateness = 3
    OpLag = 1
    MaxLeaves = 3
    MaxStoreFailures = 1
    MaxRestarts = 1
INVARIANTS
    TypeOK
    PageBounds
    RecursionBounded
    LeafNeverDuplicated
SYMMETRY AppenderSymmetry
CHECK_DEADLOCK FALSE
