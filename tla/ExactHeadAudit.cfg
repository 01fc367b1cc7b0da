SPECIFICATION FairSpec
CONSTANTS
    None = None
    Hosts = {h1, h2}
    Steady = {h1}
    Keys = {1, 2, 3}
    IssueOf <- IssueOfHead
    Ceiling = 2
    Costs = {1}
    MonthlyHard = 3
    RequireIdentity = FALSE
    InitialPackets <- Queue
    Answers = {"PASS", "REWORK"}
    MaxMonth = 2
    MaxTroubles = 1
CHECK_DEADLOCK FALSE
INVARIANTS
    OnePaidCall
    LedgersAreTrue
    BudgetAddsUp
PROPERTIES
    HeadIsJudged
    ImplementsAuditOnce
