SPECIFICATION ActivationSpec
CONSTANTS
    Nothing = Nothing
    c1 = c1
    c2 = c2
    Controllers = {c1, c2}
    Packets = {1, 2, 3}
    Files <- MCFiles
    Drafts <- MCDrafts
    Done = {1}
    Edits <- MCEdits
    MaxEdits = 1
    MaxFaults = 1
INVARIANTS
    PlansAreSound
    OneHandoffStands
SYMMETRY Symmetry
CHECK_DEADLOCK FALSE
