SPECIFICATION Spec
CONSTANTS
    Publishers = {p1, p2}
    Drafts <- MCDrafts
    Checks <- MCChecks
    QoS = 1
    AutoReconnect = TRUE
    SendTimeouts = FALSE
    Drains = TRUE
    MaxAttempts = 3
    MaxStarts = 2
    None = None
INVARIANTS
    TypeOK
    NotStartedNeverSent
    NoIdDeliveredTwice
SYMMETRY PublisherSymmetry
CHECK_DEADLOCK FALSE
