SPECIFICATION Spec
CONSTANTS
    Interface <- MCInterface
    Version <- MCVersion
    None = None
    AGVs <- MCAGVs
    Channels = {"state", "visualization"}
    States <- MCStates
    StrayTopics <- MCStray
    Scope <- MCEverybody
INVARIANTS
    PictureFollows
    ShardIsVehicle
