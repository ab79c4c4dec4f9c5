\* Days of three hours of two intervals; the clock changes between the first two.
CONSTANTS
    INTERVALS_PER_HOUR = 2
    DayHours = 3
    Load = "load"
    Canonical = {"solar", "nuclear"}
    Discovered = {"storage"}
    Locations = {"town"}
    Unconfigured = {"village"}
    Zones <- SomeZones
    MaxPrice = 2
    MaxMissing = 2
    Slots <- SomeSlots
    Gaps <- SomeGaps
    PeakStart = 2
    PeakEnd = 3
    LastDay = 2
    MaxRuns = 2
SPECIFICATION Spec
INVARIANT SourcesAddUp
CHECK_DEADLOCK FALSE
