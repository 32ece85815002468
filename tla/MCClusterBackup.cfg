CONSTANTS
    Nodes = {1, 2}
    Coordinator = 1
    Shards = {1}
    Replicas <- MCReplicas
    Writes = {1, 2}
    Deletes = {1}
    Shard <- MCShard
    Entries <- MCEntries
    Level <- MCLevel
    Backups = {1, 2}
    Operation <- MCOperation
    Kind <- MCKind
    NoOp = "none"
    MaxRestarts = 1
SPECIFICATION FairSpec
INVARIANTS
    BackupIsCut
    
    
PROPERTIES
    BarriersReleased
CHECK_DEADLOCK FALSE
