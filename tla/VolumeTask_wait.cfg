SPECIFICATION Spec
CONSTANTS
    Programs = {p1, p2}
    MaxTasks = 2
    Busy = {"Running", "Stopping"}
    OldVolumes = {v0}
INVARIANTS
    TypeOK
    CreatedMeansThere
    BootableWhenAsked
    FailedMeansUnchanged
PROPERTIES
    KeepsPromise
    WaitEnds
CHECK_DEADLOCK FALSE
