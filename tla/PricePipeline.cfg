\* Five days, a lookback of two.
CONSTANTS
    LastDay = 5
    Lookback = 2
SPECIFICATION Spec
INVARIANTS
    RepairHolds
PROPERTIES
    ServedStaysServed
CHECK_DEADLOCK FALSE
