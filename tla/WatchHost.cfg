SPECIFICATION FairWatchSpec
CONSTANTS
    Nothing = Nothing
    Torn = Torn
    p1 = p1
    p2 = p2
    d1 = d1
    d2 = d2
    Hosts = {p1, p2}
    Dispatches = {d1, d2}
    Scenes <- MCScenes
    MaxChanges = 1
    MaxFaults = 2
INVARIANT EffectsAreTrue
PROPERTY DecisionIsDelivered
