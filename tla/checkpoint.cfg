SPECIFICATION FairSnapshots
CONSTANTS
    Path = {f1, f2}
    MaxWrites = 3
    MaxCommits = 3
    MaxLosses = 2
    Absent = Absent
INVARIANTS
    SnapshotInv
PROPERTIES
    StoreSpec
    Recovers
CHECK_DEADLOCK FALSE
