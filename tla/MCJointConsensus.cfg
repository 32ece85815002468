SPECIFICATION Spec
CONSTANTS
    Nodes = {n1, n2, n3}
    InitialVoters = {n1, n2}
    Nobody = Nobody
    NoChange = NoChange
    MaxTerm = 2
    MaxLog = 3
SYMMETRY Symmetry
INVARIANTS
    OneLeaderPerTerm
    
    ChangeRestartable
CHECK_DEADLOCK FALSE
