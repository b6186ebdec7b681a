SPECIFICATION FairSpec
CONSTANTS
    Clients = {c1}
    MaxCalls = 2
    MaxSessions = 3
    MaxVersion = 2
    StackLimit = 2
    RefuseLogins = TRUE
    Lossy = TRUE
INVARIANTS
    TypeOK
    AtMostOnce
    OkMeansPerformed
    RefusedMeansNothing
    NoLostUpdate
    TrafficBounded
    NoStraySession
PROPERTIES
    KeepsPromise
    CallsReturn
CHECK_DEADLOCK FALSE
