CONSTANTS
    File <- SmallFiles
    Handle = {3, 4}
    CacheSize = 2
SPECIFICATION FairSpec
INVARIANTS
    TypeOK
    NothingRepeatedOrSkipped
    ClosesOnlyOpenFiles
    FalseOnlyAtEnd
PROPERTY WholeFileDelivered
