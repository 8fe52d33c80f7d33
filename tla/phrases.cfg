SPECIFICATION Spec
CONSTANTS
    MaxObjects = 2
    Texts = {t1, t2}
    Rounds = 1
    MaxCrashes = 1
    Absent = Absent
    MaxBox = 2
    Looks = {l1, l2}
    Shapes = {"good", "cueless"}
SYMMETRY Symmetry
INVARIANTS
    Certified
    DeliveryInv
PROPERTIES
    VerdictsHold
