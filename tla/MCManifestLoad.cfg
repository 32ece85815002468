SPECIFICATION Spec
CONSTANTS
    Keys = {k1, k2}
    Values = {v1}
    Missing = Missing
    Keep = Keep
    Down = Down
    SyncAlways = TRUE
    Mapped = TRUE
    CheckpointEvery = 2
    SnapshotSeqs <- NoSnapshots
    SnapshotViews <- MCSnapshotViews
    CrashPoints <- SafeCrashPoints
    FailPoints <- NoFailPoints
    MaxLSN = 4
    MaxCrashes = 1
INVARIANT RecoverySucceeds
CHECK_DEADLOCK FALSE
