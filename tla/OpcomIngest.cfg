\* Two days, one correction, pages without rows; daily and backfill runs that may
\* be cut short, and leave files that pass for a short day or do not.
CONSTANTS
    LastDay = 2
    MaxVersion = 2
    LookbackDays = 1
    Bodies = {0, 96}
    Truncations = {60, 93}
    NoFile = NoFile
SPECIFICATION Spec
INVARIANTS
    ReportHolds
PROPERTIES
    ResumeKeepsFiles
    RefetchRepairs
    
