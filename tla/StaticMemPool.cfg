SPECIFICATION Spec
CONSTANTS
    t1 = t1
    t2 = t2
    p1 = p1
    p2 = p2
    b1 = b1
    b2 = b2
    b3 = b3
    Thread = {t1, t2}
    Pool = {p1, p2}
    Locked = {p1, p2}
    Block = {b1, b2, b3}
    Users <- OneShared
    Reentrant = TRUE
    None = None
SYMMETRY
    Symmetry
INVARIANTS
    EachBlockOnce
    RecyclesHalf
    PoolsRegistered
PROPERTIES
    RecyclingUndisturbed
CHECK_DEADLOCK FALSE
