SPECIFICATION Spec
CONSTANTS
    Clients = {c1}
    MaxCalls = 1
    MaxSessions = 3
    MaxVersion = 2
    StackLimit = 2
    RefuseLogins = TRUE
    Lossy = FALSE
INVARIANT
    HttpErrorsAreTyped
CHECK_DEADLOCK FALSE
