SPECIFICATION Spec
CONSTANTS
    AGVs = {a1}
    NChans = 2
    Callers = {c1, c2}
    Restorers = {r1}
    Calls = {"track", "untrack", "stop"}
    Faults = {"reject"}
    MaxCalls = 5
    MaxReconnects = 1
    None = None
INVARIANTS
    NoLeakedSubscription
SYMMETRY ProcSymmetry
CHECK_DEADLOCK FALSE
