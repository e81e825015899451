CONSTANTS
    Inputs <- LongEscapes
    Byte <- MCByte
    Clients <- MCClients
    Rooms = {9}
    ArenaSizes = {128}
    PackWithAlignment = FALSE
    ArenaBegin = 16
    TokenSize = 16
    GrowStep = 32768
    StagingMax = 16
SPECIFICATION Spec
INVARIANT StagingHasRoom
