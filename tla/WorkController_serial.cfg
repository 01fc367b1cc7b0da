SPECIFICATION Spec
CONSTANTS
    h1 = h1
    h2 = h2
    wa = wa
    wb = wb
    None = None
    Workstreams = {wa}
    Procs = {p1}
    Reconcilers = {p1}
    Events <- RoundEvents
    Issues = {1, 2}
    Heads = {h1, h2}
    MaxAttempts = 2
    EnforceIdentity = TRUE
    CyclePort = TRUE
    InitialRecords <- FoundRecords
    MaxCrashes = 2
    MaxSends = 2
INVARIANTS
    TypeOK
    DecisionsStand
    RecordMatchesPackets
PROPERTIES
    ImplementsLedger
