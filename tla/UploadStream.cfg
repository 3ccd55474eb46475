SPECIFICATION FairSpec
CONSTANTS
    Threads = {t1, t2, t3}
    Size = 4
    Capacity = 1
    ChunkSizes = {1, 2}
INVARIANTS
    TypeOK
    FinishIsComplete
    BytesAccounted
PROPERTIES
    CallsReturn
CHECK_DEADLOCK FALSE
