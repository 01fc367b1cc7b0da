SPECIFICATION FairSpec
CONSTANTS
    None = None
    p1 = p1
    p2 = p2
    m1 = m1
    m2 = m2
    Callers = {p1, p2}
    MeasurementIds = {m1, m2}
    Activations <- MCActivations
    Requests <- MCRequests
    Observations <- MCObservations
    Outcomes <- MCOutcomes
    MinReplay = 1
    MinExpansion = 1
    MaxBuilds = 2
    MaxDeaths = 1
INVARIANT
    BudgetHolds
PROPERTIES
    ReservedOnEvidence
    RollbackReaches
CHECK_DEADLOCK FALSE
