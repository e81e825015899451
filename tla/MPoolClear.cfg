CONSTANTS
    Chunk <- TwoChunks
    ChunkWords = 8
    HeaderWords = 2
    BlockWords = 2
    OnDemand = TRUE
    Data = {1}
    MaxStale = 2
SPECIFICATION Spec
INVARIANT MappedChunksStayLinked
