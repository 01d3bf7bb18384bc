SPECIFICATION FairSpec
CONSTANTS
    AGVs = {a1}
    Routes = {r1, r2}
    RouteChannels <- MCTyped
    TopicQ = TopicQ
    Conn = Conn
    None = None
    QSize = 1
    MaxMsgs = 2
PROPERTIES
    EveryMessageSettles
    StopReturns
    QueuedLanesIsolated
    CallbackReturns
