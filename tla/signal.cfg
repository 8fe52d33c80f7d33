SPECIFICATION Spec
CONSTANTS
    Plan <- RolePlan
    Finals <- NoFinals
    MaxFaults = 1
INVARIANTS
    SignalStopsWork
CHECK_DEADLOCK FALSE
