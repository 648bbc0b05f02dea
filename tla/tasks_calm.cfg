SPECIFICATION FairSpec
CONSTANTS
    t1 = t1
    t2 = t2
    w1 = w1
    w2 = w2
    Null = Null
    Tasks = {t1, t2}
    Workers = {w1, w2}
    MaxRetry = 1
    Faults = {"http", "publish", "status"}
    MaxMishaps = 2
CHECK_DEADLOCK FALSE
INVARIANTS OneActor
PROPERTIES EventuallyDecided
