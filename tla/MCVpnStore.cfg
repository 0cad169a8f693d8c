SPECIFICATION FairSpec
CONSTANTS
    Profiles = {1, 2, 3}
    PasswordMode <- MCPasswordMode
    AutoConnect = TRUE
    MaxActs = 1
    MaxFaults = 1
    MaxQueue = 1
    MaxCalls = 2
INVARIANTS
    DisconnectingIsAwaited
    PasswordGoesToItsProfile
PROPERTIES
    UiFollowsDaemon
    NoGhostTunnel
    DisconnectingEnds
CHECK_DEADLOCK FALSE
