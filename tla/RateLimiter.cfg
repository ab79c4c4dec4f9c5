\* One thread at a time, or two: then both may be between the clock and the lock.
CONSTANTS
    a1 = a1
    a2 = a2
    a3 = a3
    a4 = a4
    a5 = a5
    Attempts = {a1, a2, a3, a4, a5}
    ThreadPool = 2
    RateLimit = 2
    Window = 4
    TicksPerSecond = 2
    Horizon = 9
SYMMETRY Interchangeable
SPECIFICATION LimiterSpec
INVARIANTS
    WindowHolds
PROPERTIES
    DeniedOnlyWhenFull
    RetryAfterSuffices
CHECK_DEADLOCK FALSE
