SPECIFICATION ClientsSpec
CONSTANTS
    b1 = b1
    b2 = b2
    b3 = b3
    b4 = b4
    Block = {b1, b2, b3, b4}
    ChunksPerBlock = 2
    MaxBlocks = 3
    Null = Null
    DataSize = 3
    Loops = 4
    Word = 8
    Request <- Sizes
INVARIANTS
    FreeListExact
    DeallocateAsserts
    NothingLeaked
    StopsOnlyWhenExhausted
    ChunksSound
    BenchmarkFewestBlocks
PROPERTIES
    ImplementsChunkPool
SYMMETRY
    Symmetry
CHECK_DEADLOCK FALSE
