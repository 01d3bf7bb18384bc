SPECIFICATION Spec
CONSTANTS
    AGVs = {a1, a2}
    NChans = 2
    Callers = {c1, c2}
    Restorers = {r1}
    Calls = {"track", "untrack", "stop"}
    Faults = {}
    MaxCalls = 6
    MaxReconnects = 2
    None = None
INVARIANTS
    TrackedSubscribed
    ConnectionSubscribed
    HooksAgree
    UntrackSticks
    TrackSticks
    StopUntracksAll
CONSTRAINT Apart
CHECK_DEADLOCK FALSE
