CONSTANTS
    Inputs <- MCInputs
    Byte <- MCByte
    Clients <- MCClients
    Rooms = {0, 3, 12}
    ArenaSizes = {6, 60}
    PackWithAlignment = FALSE
    ArenaBegin = 1
    TokenSize = 2
    GrowStep = 1
    StagingMax = 8
SPECIFICATION FairSpec
INVARIANTS
    TypeOK
    EachByteOnce
    StagingHasRoom
    TextIsSource
    WalkMeetsTokens
    PositionExact
    StopsAtEnd
    StringDecodes
PROPERTIES
    RefinesTokenStream
    InputEnds
