SPECIFICATION Spec
CONSTANTS
    Publishers = {p1}
    Drafts <- MCGood
    Checks <- MCChecks
    QoS = 1
    AutoReconnect = TRUE
    SendTimeouts = FALSE
    Drains = FALSE
    MaxAttempts = 2
    MaxStarts = 2
    None = None
INVARIANTS
    NotStartedNeverSent
CHECK_DEADLOCK FALSE
