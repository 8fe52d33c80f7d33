SPECIFICATION FairSpec
CONSTANTS
    t1 = t1
    t2 = t2
    p1 = p1
    p2 = p2
    Thread = {t1, t2}
    Process = {p1, p2}
    ProcessOf <- Apart
    Endpoint = {e1, e2}
    Fallback = e2
    Reply = {"valid", "unavailable", "lost", "malformed"}
    MaxAttempts = 2
    MaxScans = 2
    MaxCalls = 1
    MaxFaults = 2
    None = None
INVARIANTS
    PoolInv
PROPERTIES
    GateSpec
    CallsEnd
CHECK_DEADLOCK FALSE
