\* Stores, deletes, backups beside them and a restore; full disks and crashes between any two steps.
SPECIFICATION FSpec
CONSTANTS
    Keys <- MCKeys
    Contents = {c1, c2}
    Settings <- MCSettings
    None = None
    Failure = Failure
    MaxStores = 3
    MaxDeletes = 1
    MaxBackups = 2
    MaxRestores = 1
    MaxFaults = 1
SYMMETRY ContentSymmetry
INVARIANTS
    KeptPageReadBack
    BackupHoldsKeptPages
    RestoredFilesExact
CHECK_DEADLOCK FALSE
