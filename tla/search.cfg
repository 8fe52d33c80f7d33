SPECIFICATION ImageSpec
CONSTANTS
    NumCategories = 2
    Places = {p1, p2}
    Locator = {l1, l2}
    LocatorsOf <- TwoLocators
    l1 = l1
    l2 = l2
    SearchLimit = 2
    Rounds = 0
    MaxCrashes = 2
    Full = Full
    Queries = {q1, q2}
    Blank = Blank
    Pages = 2
    MaxProposals = 2
    MaxSceneCrashes = 1
    left = left
    right = right
    small = small
    car = car
    bus = bus
    full = full
    part = part
    Finds <- Street
    Overlap <- StreetOverlap
    SizePass = {left, right}
    Refinements = 1
    MaxFinds = 3
    MaxDeaths = 1
SYMMETRY Symmetry
INVARIANTS
    SlotsInv
    NothingIsLost
    InventoryIsUninterrupted
    ObjectsInv
PROPERTIES
    SweepsAreFair
    BudgetSpec
    ObjectsOnlyImprove
CHECK_DEADLOCK FALSE
