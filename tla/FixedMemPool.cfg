SPECIFICATION FairSpec
CONSTANTS
    t1 = t1
    t2 = t2
    t3 = t3
    Thread = {t1, t2, t3}
    MaxSize = 3
    Reentrant = TRUE
    Reclaims = TRUE
    Null = Null
    Data = Data
INVARIANTS
    FreeListExact
    CountsOutstanding
PROPERTIES
    CallsReturn
