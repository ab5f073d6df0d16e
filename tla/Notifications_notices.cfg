CONSTANTS
    j1 = j1
    j2 = j2
    p1 = p1
    p2 = p2
    Jobs = {j1, j2}
    Prompts = {p1, p2}
    UnreadLimit = 1
    MaxFaults = 3
    MaxEnds = 1
SPECIFICATION FairSpec
INVARIANTS
    RepeatedOnlyAfterLapse
PROPERTIES
    EndIsAnnounced
