SPECIFICATION Spec
CONSTANTS
    MaxTurns = 2
    MaxEntries = 3
    Scenarios <- AllScenarios
INVARIANTS WindowHolds
PROPERTIES ReadsHold
CHECK_DEADLOCK FALSE
