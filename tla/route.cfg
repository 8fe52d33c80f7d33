SPECIFICATION RouteBSpec
CONSTANTS
    v1 = v1
    v2 = v2
    car = car
    dog = dog
    Source = {v1, v2}
    MaxFaults = 1
    Image = {i1, i2}
    Entity = {car}
    Found <- DogFound
    SizePass <- CarShrinks
    Same <- CarIsDog
    Proposals <- OneOrNone
    Answers <- Mixed
    MaxEdits = 1
    Base = {b1, b2}
    First = {"weak1"}
    Words = {"x"}
    MaxRounds = 2
    MaxRefineEdits = 2
    MaxRefineFaults = 1
SYMMETRY Symmetry
INVARIANTS
    PassInv
    RefineInv
PROPERTIES
    UnrelatedKept
