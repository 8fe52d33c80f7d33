SPECIFICATION FairSpec
CONSTANTS
    Plan <- LegacyPlan
    Finals <- LegacyFinals
    MaxFaults = 2
INVARIANTS
    GpuExclusive
    StagesInOrder
PROPERTIES
    ForgetsOnlyInWindow
    Completes
CHECK_DEADLOCK FALSE
