\* A source publishes a value, corrects it, and takes the correction back.
CONSTANTS
    job = job
    backfill = backfill
    k1 = k1
    k2 = k2
    v1 = v1
    v2 = v2
    Writers = {job, backfill}
    Keys = {k1}
    Values = {v1, v2}
    NoValue = NoValue
    MaxRuns = 3
SYMMETRY Interchangeable
SPECIFICATION Spec
PROPERTIES
    ReaderRecoversCurrentState
