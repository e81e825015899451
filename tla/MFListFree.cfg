CONSTANTS
    Chunk <- ThreeChunks
    CategSize <- OneCategory
    ChunkHeader = 4
    BlockHeader = 3
    NextChunkAt = 1
    Page = 23
    Share = 1
    LeastPart = 3
    KeepLimit = 23
    Length = {1, 7, 16}
    Data = {1}
    Junk = 2
    ClearsLarge = FALSE
    MaxUsage = 24
SPECIFICATION Spec
PROPERTY FreedIsAvailable
