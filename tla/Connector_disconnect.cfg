SPECIFICATION Spec
CONSTANTS
    Clients = {c1}
    MaxCalls = 2
    MaxSessions = 3
    MaxVersion = 2
    StackLimit = 2
    RefuseLogins = FALSE
    Lossy = FALSE
INVARIANT
    DisconnectIgnoresErrors
CHECK_DEADLOCK FALSE
