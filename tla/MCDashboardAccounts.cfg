SPECIFICATION Spec
CONSTANTS
    Names = {"admin", "first"}
    Passwords = {"default", "own"}
    Roles = {"admin", "reader"}
    Settings = {8, 9}
    BootstrapName = "admin"
    BootstrapPassword = "default"
    LegacyName = "first"
    LegacyPassword = "own"
    HasLegacy = TRUE
    None = None
    MaxTokens = 3
    MaxPending = 2
    MaxCrashes = 1
INVARIANTS
    RestartKeepsAccounts
    SessionsCurrent
PROPERTIES
    MigrationKeepsVerifier
CHECK_DEADLOCK FALSE
