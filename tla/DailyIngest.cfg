\* A window that reaches one day back and one ahead; the year ends after day 1.
CONSTANTS
    Locations <- TwoPlaces
    Lookback = 1
    Ahead = 1
    YearEnd = 1
    MaxRetries = 2
    LastDay = 2
    MaxRevisions = 1
    MaxKills = 1
SPECIFICATION Spec
INVARIANTS
    DeliveryHolds
    SourceUrlTrue
PROPERTIES
    FilesStayTrue
    EveryRunEnds
CHECK_DEADLOCK FALSE
