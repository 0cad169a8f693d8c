SPECIFICATION Spec
CONSTANTS
    InitialProfiles <- MCInitialProfiles
    MaxOps = 3
    MaxCrashes = 1
INVARIANTS
    SettledIsDurable
    ConnectUsesShownSecret
    DeletedIsErased
    KillSwitchAgrees
PROPERTY SecretsOnlyDeleted
CHECK_DEADLOCK FALSE
