SPECIFICATION Spec
CONSTANTS
    Nodes = {n1, n2, n3}
    Views = {v1, v2}
    NoView = NoView
    Nobody = Nobody
    NoEntry = NoEntry
    NoProposal = NoProposal
    StepDownWindow = FALSE
    SnapshotThreshold = 2
    MaxTerm = 2
    MaxLog = 2
    MaxMsgs = 1
    MaxRestarts = 0
SYMMETRY Symmetry
INVARIANTS
    
    
    
    Restartable
PROPERTIES
    EpochNeverRegresses
