SPECIFICATION GroundersSpec
CONSTANTS
    Task = {t, u}
    Service = {a, b}
    Settings = {"c", "d"}
    TaskSettings <- SameSettings
    Image = {"i", "j", "k"}
    Batches <- OneOrTwo
    Capacity = 1
    MaxCalls = 2
    MaxFaults = 2
    Nobody = Nobody
    Id = {1, 2, 3}
    Query = {"old phrase", "old category", "new phrase"}
    Manifests <- Requests
    Sizes <- TwoSizes
    NumGrounders = 2
    Contexts = {"c", "d"}
    BatchSize = 2
    MaxRuns = 4
    MaxCacheFaults = 1
    None = None
SYMMETRY Symmetry
INVARIANTS
    CacheInv
    CallsAreRight
    GivesUpForCause
    PoisonIsBounded
PROPERTIES
    ResumeKeepsWork
CHECK_DEADLOCK FALSE
