CONSTANTS
    Byte = {0, 1}
    Junk = 2
    Payload <- SmallPayload
    TypedSizes = {1}
    ZeroedSizes = {0, 2}
    UnsetSizes = {1}
    Alignments = {2}
    InitSizes = {1}
    MinSP = 1
    SizeRounding = 3
    GrowStep = 2
    MaxU32 = 7
    CanRealloc = TRUE
    ForceRealloc = TRUE
    MaxStaged = 2
SPECIFICATION Spec
INVARIANT StagedBytesFit
