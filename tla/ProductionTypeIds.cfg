\* The scheduler and a backfill run the Silver step, in turn or overlapping.
CONSTANTS
    scheduler = scheduler
    backfill = backfill
    Processors = {scheduler, backfill}
    Types <- MCTypes
    Canonical <- MCCanonical
    CanonicalId <- MCCanonicalId
SYMMETRY Interchangeable
SPECIFICATION Spec
INVARIANTS
    IdsUnique
    FactsKeepTheirType
    CanonicalFactsHold
PROPERTIES
    IdsStayInTurn
