SPECIFICATION Spec
CONSTANTS
    Keys = {k1, k2}
    Batches = {b1, b2}
    NoKey = NoKey
    NoEntry = NoEntry
    CrashPoints <- AllSteps
    IOErrors = TRUE
    MaxWal = 4
    MaxVersion = 3
SYMMETRY Symmetry
INVARIANTS
    AnswersInWal
    OncePerStart
PROPERTIES
    CompletedIsFinal
