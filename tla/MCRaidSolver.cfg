SPECIFICATION Spec
CONSTANTS
    Hardware <- MCHardware
    Levels <- MCLevels
    Targets <- MCTargets
    Counts <- MCCounts
    Python = 3
INVARIANTS
    TypeOK
    FindsTheBest
    InvalidNumberIsInvalid
CHECK_DEADLOCK FALSE
