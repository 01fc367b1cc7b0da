SPECIFICATION FairSpec
CONSTANTS
    None = None
    p1 = p1
    p2 = p2
    Procs = {p1, p2}
    MaxIssues = 4
    MaxFaults = 2
    MaxLate = 2
INVARIANTS
    AnswersAreTheClaims
    SpareIssueNeedsLateOwner
PROPERTY HandoffAnswers
