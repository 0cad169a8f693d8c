SPECIFICATION Spec
CONSTANTS
    Clients = {c1, c2}
    Disconnectors = {c1}
    MaxSessions = 2
    Kinds = {"openvpn"}
    KillSwitches = {FALSE}
    Toggles = {FALSE}
    MaxRemotes = 1
    Faults = {}
    NoSession = NoSession
INVARIANTS NoOrphanedSession SessionsAccountedFor DisconnectingHasOwner
