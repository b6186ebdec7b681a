SPECIFICATION Spec
CONSTANTS
    Drives = {d1, d2}
    OldVolumes = {d1}
    OldSpares = {d2}
    MaxCalls = 3
    MaxChanges = 2
    MaxFaults = 1
INVARIANTS
    TypeOK
    VolumesAsOfCall
    CachesAreWhole
    SparesAreGone
    RefusedMeansUnseen
    DeletedAreGone
PROPERTY
    OperationsEnd
CHECK_DEADLOCK FALSE
