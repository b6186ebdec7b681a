SPECIFICATION Spec
CONSTANTS
    c1 = c1
    c2 = c2
    Controllers <- MCControllers
    Manageable <- MCManageable
    Old <- MCOld
    Drives = {1, 2}
    HotSpares = {{}, {1, 2}}
    Names <- MCNames
    Levels <- MCLevels
    Requests <- MCRequests
    MaxOperations = 3
    MaxTroubles = 1
INVARIANTS
    TypeOK
    DeletedMeansGone
    AppliedMeansAll
    InvalidChangesNothing
    RefusedMeansDisturbed
    NoDisksMeansNone
PROPERTY
    OperationsEnd
CHECK_DEADLOCK FALSE
