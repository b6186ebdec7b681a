SPECIFICATION Spec
CONSTANTS
    Disks <- MCDisks
    Hardware <- MCHardware
    Requests <- MCRequests
INVARIANT
    CriteriaAreMet
CHECK_DEADLOCK FALSE
