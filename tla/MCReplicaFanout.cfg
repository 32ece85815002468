SPECIFICATION Spec
CONSTANTS
    Leader = n1
    Followers = {n2, n3}
    Upserts = {u1}
    Deletes = {d1}
    Levels = {"quorum", "all"}
    NoFanout = NoFanout
    MaxSeq = 2
    MaxRounds = 3
    MaxCalls = 3
SYMMETRY Symmetry
INVARIANTS
    ReplicasPrefix
    AckedDurable
PROPERTIES
    NoRollback
