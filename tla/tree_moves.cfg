SPECIFICATION FairSpec
CONSTANTS
    s1 = s1
    s2 = s2
    a = a
    b = b
    Root = Root
    Null = Null
    Sessions = {s1, s2}
    Names = {a, b}
    OpsOf <- MoverAndMaker
    MaxEntries = 4
    MaxRequests = 4
    MaxActive = 2
    MaxBatch = 2
CHECK_DEADLOCK FALSE
INVARIANTS Forest
PROPERTIES WalkEnds
