SPECIFICATION Spec
CONSTANTS
    Hardware <- MCHardware
    Levels <- MCLevels
    Targets <- MCTargets
    Counts <- MCCounts
    Python = 2
INVARIANT
    LargeEnough
CHECK_DEADLOCK FALSE
