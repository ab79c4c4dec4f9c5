\* The scheduled job and a backfill append to a table that does not exist yet.
CONSTANTS
    job = job
    backfill = backfill
    k1 = k1
    k2 = k2
    v1 = v1
    v2 = v2
    Writers = {job, backfill}
    Keys = {k1, k2}
    Values = {v1, v2}
    NoValue = NoValue
    MaxRuns = 3
SYMMETRY Interchangeable
SPECIFICATION Spec
INVARIANTS
    NoDuplicateObservations
    ReadIsDeterministic
PROPERTIES
    HistoryPreserved
    BatchRecorded
    NewRevisionBecomesCurrent
    ImplementsHistory
