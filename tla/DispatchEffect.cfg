SPECIFICATION EffectSpec
CONSTANTS
    r1 = r1
    None = None
    Issues = {1, 2, 3}
    Repositories = {r1}
    RepositoryOf <- OneRepository
    MaxWip <- TwoActive
    After <- NoPredecessors
    Snapshots <- Plans
    Calls <- Rivals
    Requests = {}
    Procs = {p1, p2}
    InitialPackets <- AllQueued
    OwnerEdits = {"requeue"}
    MaxSnapshots = 2
    MaxCalls = 2
    MaxEdits = 1
CHECK_DEADLOCK FALSE
SYMMETRY Symmetry
INVARIANTS
    HandedOnce
    ReceiptsAreTrue
    HandedWithinLimit
PROPERTIES
    ReservedFirst
