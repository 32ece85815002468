SPECIFICATION Spec
CONSTANTS
    Nodes = {n1, n2, n3}
    Views = {v1}
    NoView = NoView
    Nobody = Nobody
    NoEntry = NoEntry
    NoProposal = NoProposal
    StepDownWindow = TRUE
    SnapshotThreshold = 1
    MaxTerm = 2
    MaxLog = 1
    MaxMsgs = 1
    MaxRestarts = 1
SYMMETRY Symmetry
INVARIANTS
    ElectionSafety
