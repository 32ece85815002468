CONSTANTS
    Nodes = {1, 2, 3}
    InitialVoters = {1, 3}
    Serving = {1, 3}
    Shards = {1}
    Capacities = {1, 2}
    Score <- MCScore
    RF = 2
    Configured <- MCConfigured
    Changes <- MCChanges
    NoNode = 0
    NoPlan = NoPlan
    NoWork = NoWork
    Unset = Unset
    Faults = {}
    MaxEpoch = 3
    MaxWrites = 2
    MaxDisruptions = 1
SPECIFICATION Spec
INVARIANTS
    
    
    OwnershipHolds
PROPERTY MinimalMovement
CHECK_DEADLOCK FALSE
