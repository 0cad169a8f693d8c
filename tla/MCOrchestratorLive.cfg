SPECIFICATION FairSpec
CONSTANTS
    Clients = {c1, c2}
    Disconnectors = {c1, c2}
    MaxSessions = 1
    Kinds <- BothDrivers
    KillSwitches = {TRUE}
    Toggles = {FALSE}
    MaxRemotes = 1
    Faults <- AnyFailure
    NoSession = NoSession
PROPERTIES FailClosed StoppedSessionEnds RequestsAnswered
