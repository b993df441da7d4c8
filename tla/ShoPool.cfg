SPECIFICATION Spec
CONSTANTS
    b1 = b1
    b2 = b2
    Block = {b1, b2}
    ChunksPerBlock = 2
    Null = Null
    Data = Data
INVARIANTS
    FreeListExact
PROPERTIES
    ImplementsChunkPool
SYMMETRY
    Symmetry
CHECK_DEADLOCK FALSE
