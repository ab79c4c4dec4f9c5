\* Requests race each other, key management, faults of SQLite and a restart.
CONSTANTS
    k1 = k1
    k2 = k2
    m1 = m1
    Requests = {r1, r2}
    Keys = {k1, k2}
    Markets = {m1}
    Entitled <- MCEntitled
    Limit = 1
    NoKey = NoKey
    NoMarket = NoMarket
    Unrouted = Unrouted
    Anonymous = Anonymous
SPECIFICATION FairSpec
INVARIANTS
    EventsHold
    RevocationHolds
    AnswersMetered
    AdmissionsAccounted
PROPERTIES
    EveryRequestAnswered
CHECK_DEADLOCK FALSE
