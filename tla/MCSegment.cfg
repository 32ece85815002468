CONSTANTS
    Fields = {"year", "tag"}
    NoValue = NoValue
    NoExpr = NoExpr
    DeltaLimit = 2
    DenseAt = 2
    M = 2
    EFConstruction = 4
    EFSearch = 8
    Level <- MCLevel
    Keys <- MCKeys
    NamespaceOf <- MCNamespaceOf
    RecordValues <- MCRecords
    Tokens = {"a"}
    NoVector = NoVector
    NoRecord = NoRecord
    Configs <- MCConfigs
    Readers = {r1, r2}
    FanIn = 2
    SizeRatio = 2
    MaxInput = 4
    MaxSegments = 3
    MaxLSN = 4
    MaxGen = 2
    Filters <- MCFilters
    Queries = {3}
    Ks = {1}
SYMMETRY Symmetry
SPECIFICATION Spec
INVARIANTS
    SegmentInv
    FilterExact
    SearchExact
    ShardExact
    ManifestResolves
    PinsSafe
CHECK_DEADLOCK FALSE
