SPECIFICATION FairSpec
CONSTANTS
    s1 = s1
    s2 = s2
    a = a
    b = b
    Root = Root
    Null = Null
    Sessions = {s1, s2}
    Names = {a, b}
    OpsOf <- PurgerAndMaker
    MaxEntries = 3
    MaxRequests = 3
    MaxActive = 2
    MaxBatch = 1
CHECK_DEADLOCK FALSE
INVARIANTS TypeOK
PROPERTIES PurgesRecycled PurgeEnds
