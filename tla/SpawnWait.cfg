CONSTANTS
    Child <- TwoChildren
    Pipe = {1, 2, 3, 4}
    Parent = "parent"
    Capacity = 1
    MaxOut = 2
    SyncAlone = FALSE
    SpawnsBare = TRUE
SPECIFICATION Spec
INVARIANT OwnStatus
