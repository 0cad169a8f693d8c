SPECIFICATION Spec
CONSTANTS
    Clients = {c1}
    Disconnectors = {c1}
    MaxSessions = 1
    Kinds = {"wireguard"}
    KillSwitches = {TRUE}
    Toggles = {FALSE}
    MaxRemotes = 1
    Faults = {}
    NoSession = NoSession
INVARIANT DisconnectRollsBack
