SPECIFICATION Spec
CONSTANTS
    Handlers = {h1, h2}
    Buses = {b1}
    Workers = {w1}
    AGVs = {a1}
    Channels = {"state"}
    StrictIdentity = TRUE
    Policy = TRUE
    Failing = {}
    Calls = {"On", "Subscribe", "Emit"}
    MaxMsgs = 3
    MaxStarts = 1
    None = None
    a1 = a1
    Inputs <- MCMessages
INVARIANTS
    NobodyMissed
    CalledInOrder
    RemovedIsSilent
    TypeOK
    ForeignIgnored
    DispositionSound
SYMMETRY HandlerSymmetry
CHECK_DEADLOCK FALSE
