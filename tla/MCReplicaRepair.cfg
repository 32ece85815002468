SPECIFICATION FairSpec
CONSTANTS
    Leader = n1
    Followers = {n2}
    Upserts = {u1}
    Deletes = {d1}
    Levels = {"quorum", "all"}
    NoFanout = NoFanout
    MaxSeq = 3
    MaxRounds = 3
    MaxCalls = 3
PROPERTY
    Converges
