SPECIFICATION FairSpec
CONSTANTS
    i1 = i1
    i2 = i2
    h1 = h1
    h2 = h2
    ua = ua
    ub = ub
    None = None
    Procs = {i1, i2}
    Steady = {i1}
    Heads = {h1, h2}
    Queue <- TwoUnits
    MaxFaults = 2
    MaxMoves = 1
INVARIANT PacketIsEarned
PROPERTIES
    ClaimsAreRespected
    HeadGetsVerdict
