SPECIFICATION Spec
CONSTANTS
    AGVs = {a1, a2}
    Routes = {r1}
    RouteChannels <- MCTyped
    TopicQ = TopicQ
    Conn = Conn
    None = None
    QSize = 1
    MaxMsgs = 3
INVARIANTS
    TypeOK
    NoOvertaking
    CoalesceKeepsNewest
    NoLostWakeup
PROPERTIES
    LosesOnlyDroppable
    ImplementsLanes
SYMMETRY AGVSymmetry
