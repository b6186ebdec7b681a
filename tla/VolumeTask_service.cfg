SPECIFICATION Spec
CONSTANTS
    Programs = {p1}
    MaxTasks = 2
    Busy = {"Running", "Service"}
    OldVolumes = {v0}
PROPERTY
    WaitEnds
CHECK_DEADLOCK FALSE
