CONSTANTS
    Child <- TwoChildren
    Pipe = {1, 2, 3, 4}
    Parent = "parent"
    Capacity = 1
    MaxOut = 2
    SyncAlone = TRUE
    SpawnsBare = TRUE
SPECIFICATION FairSpec
INVARIANTS
    TypeOK
    OwnStatus
    EndsAccounted
    OnlyTheClientFeeds
PROPERTIES
    WaitsReturn
    OutputsEnd
