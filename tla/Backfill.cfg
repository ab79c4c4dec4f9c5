\* Days 1 to 5, which is today; prices are quarter-hourly from day 2 on.
CONSTANTS
    LookbackDays = 1
    Publications <- Gaps
    Flawed = {3, 4}
    MonthEnds = {2, 4}
    Transition = 2
    LastDay = 5
    Today = 5
    Lookback = 2
    Commands <- SomeCommands
    MaxRuns = 2
SPECIFICATION Spec
INVARIANTS
    RatesReconciled
    ChunksHold
    CleanRunServes
    ExitZeroServes
PROPERTIES
    RowsStay
CHECK_DEADLOCK FALSE
