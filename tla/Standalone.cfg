SPECIFICATION StandaloneSpec
CONSTANTS
    a = a
    b = b
    Operators = {a, b}
    MaxFaults = 3
    None = None
    Callers = {a, b}
    Routes <- ThreeRoutes
    Strategies <- TwoStrategies
    Preference <- Ranks
    Lists <- AllOrSome
    InitialRoute = 1
    MaxAge = 1
    MaxAttempts = 3
    MaxEpoch = 3
    MaxNow = 2
    MaxChanges = 2
    MaxTroubles = 1
    Writers = {a, b}
    Canonical = {"guide"}
    Personal = {"notes"}
    Contents = {"one", "two"}
    Dests = {"first", "second"}
    Absent = Absent
    MaxDeaths = 1
    MaxTasks = 3
    Coordinators = {a, b}
    Heads = {1, 2}
    InitialHead = 1
    MaxEvaluations = 2
    CanaryIds = {1, 2}
    MaxDispositions = 1
    MaxRecords = 2
    MaxMoves = 2
    Ceiling = 2
    PreflightCost = 1
    RunSoft = NoLimit
    NoLimit = NoLimit
    RunHard = 2
    MonthSoft = 3
    MonthHard = 3
    CreateRetries = 1
    MaxEvents = 2
    MaxAudits = 2
SYMMETRY Twins
INVARIANTS
    CutoverIsTrue
    EpisodesAreTrue
    RootIsWhole
    VerdictsAreTrue
PROPERTIES
    MovesAreEarned
    RequestsAreEarned
CHECK_DEADLOCK FALSE
