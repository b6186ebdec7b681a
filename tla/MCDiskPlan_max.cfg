SPECIFICATION Spec
CONSTANTS
    Disks <- MCDisks
    Hardware <- MCHardware
    Requests <- MCRequests
INVARIANT
    GroupsHaveRoom
CHECK_DEADLOCK FALSE
