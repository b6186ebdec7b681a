SPECIFICATION Spec
CONSTANTS
    Disks <- MCDisks
    Hardware <- MCHardware
    Requests <- MCRequests
INVARIANTS
    TypeOK
    DisksUsedOnce
    PlansFit
    AllOrNothing
    DoneMeansAll
CHECK_DEADLOCK FALSE
