SPECIFICATION AutoSpec
CONSTANTS
    AGVs = {a1}
    NChans = 2
    Callers = {c1, w}
    Restorers = {}
    AutoWorker = w
    QueueSize = 2
    Calls = {"track", "untrack", "stop"}
    Faults = {"reject", "timeout", "unsub"}
    MaxCalls = 5
    MaxReconnects = 0
    None = None
INVARIANTS
    AutoTypeOK
    UncontestedSubscribed
    HooksAgree
    StopUntracksAll
    LatestStateWins
CHECK_DEADLOCK FALSE
