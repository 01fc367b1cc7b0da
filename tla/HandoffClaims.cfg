SPECIFICATION Spec
CONSTANTS
    r1 = r1
    r2 = r2
    None = None
    Issues = {1, 2, 3}
    Repositories = {r1, r2}
    RepositoryOf <- Repos
    MaxWip <- Limits
    After <- Predecessors
    Snapshots <- Plans
    Calls <- One
    Requests <- One
    Procs = {p1}
    Claimers = {q1, q2}
    Ids = {k1, k2}
    InitialPackets <- Found
    OwnerEdits = {"complete", "requeue", "activate", "text"}
    MaxSnapshots = 1
    MaxCalls = 2
    MaxEdits = 1
CHECK_DEADLOCK FALSE
SYMMETRY Symmetry
INVARIANTS
    HandoffsAreFollowed
PROPERTIES
    ImplementsOneShot
