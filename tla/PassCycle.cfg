SPECIFICATION FairSpec
CONSTANTS
    wa = wa
    wb = wb
    ba = ba
    bb = bb
    None = None
    Issues = {1, 2, 3, 4, 5, 6}
    WorkstreamOf <- Loops
    BranchOf <- Branches
    Trusted = {1, 2, 3, 4, 5}
    Readable = {1, 2, 3, 5, 6}
    Transitions <- Chain
    Procs = {p1}
    InitialPackets <- Neighbours
    OwnerEdits = {"queue", "unqueue", "pause", "close"}
    MaxEdits = 1
    MaxCrashes = 1
CHECK_DEADLOCK FALSE
INVARIANTS
    HandoverIsTrue
PROPERTIES
    ActivatesAlone
    HandoverEnds
    ImplementsHandover
