SPECIFICATION FairSpec
CONSTANTS
    Publishers = {p1}
    Drafts <- MCDrafts
    Checks <- MCChecks
    QoS = 1
    AutoReconnect = FALSE
    SendTimeouts = TRUE
    Drains = FALSE
    MaxAttempts = 3
    MaxStarts = 2
    None = None
INVARIANTS
    AcceptedDelivered
    IdentityOnWire
PROPERTIES
    PublishReturns
CHECK_DEADLOCK FALSE
