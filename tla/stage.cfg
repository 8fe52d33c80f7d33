SPECIFICATION FairSpec
CONSTANTS
    Key = {k1, k2}
    None = None
    Content = {c1, c2}
    Contexts = {p1, p2}
    Workers = 2
    HistoryLimit = 1
    MaxEdits = 2
    MaxFaults = 1
INVARIANTS
    StageInv
PROPERTIES
    UnchangedKept
    EventuallyComplete
