SPECIFICATION TargetsSpec
CONSTANTS
    Count = 3
    Category = {dog, puppy}
    Texts <- ThreeTexts
    Rankings <- OtherRanking
    MayDiffer = FALSE
    MaxPerSourceImage = 2
    Contexts = {p1, p2}
    MaxMishaps = 2
    e1 = e1
    ImageId = {1, 2}
    Entities <- OneEntity
    Pool = pool
    Raws <- Grounded
    Masks <- TightMasks
    Supports = {1, 2}
    Sizes = {3, 4}
    Responses <- Answered
    MaxRegionEdits = 1
    MaxRegionFaults = 1
SYMMETRY Symmetry
INVARIANTS
    DecisionsSuffice
    DeliveredAreDistinct
    AggregateIsCurrent
    ConsensusIsExact
PROPERTIES
    DeliveryIsStable
