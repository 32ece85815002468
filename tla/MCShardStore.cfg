SPECIFICATION FairSpec
CONSTANTS
    Keys = {k1, k2}
    Values = {v1, v2}
    Missing = Missing
    Keep = Keep
    Down = Down
    SyncAlways = FALSE
    Mapped = TRUE
    CheckpointEvery = 2
    SnapshotSeqs <- MCSnapshotSeqs
    SnapshotViews <- MCSnapshotViews
    CrashPoints <- SafeCrashPoints
    FailPoints <- SafeFailPoints
    MaxLSN = 3
    MaxCrashes = 2
INVARIANTS
    Recoverable
    CheckpointComplete
    RetriesHonest
    ResumesAfterCheckpoint
PROPERTIES
    SyncedNeverRegresses
    DurableSpec
    RecoveryTerminates
CHECK_DEADLOCK FALSE
