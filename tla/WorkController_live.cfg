SPECIFICATION FairSpec
CONSTANTS
    h1 = h1
    h2 = h2
    wa = wa
    wb = wb
    None = None
    Workstreams = {wa}
    Procs = {p1, p2}
    Reconcilers = {p1}
    Events <- OneEvent
    Issues = {1}
    Heads = {h1}
    MaxAttempts = 2
    EnforceIdentity = FALSE
    CyclePort = TRUE
    InitialRecords <- Registered
    MaxCrashes = 1
    MaxSends = 2
INVARIANT OneFilePerDrain
PROPERTY EverythingIsDecided
