SPECIFICATION Spec
CONSTANTS
    t1 = t1
    t2 = t2
    w1 = w1
    w2 = w2
    Null = Null
    Tasks = {t1, t2}
    Workers = {w1, w2}
    MaxRetry = 1
    Faults = {"http", "timeout", "db", "publish", "api", "stop"}
    MaxMishaps = 2
CHECK_DEADLOCK FALSE
SYMMETRY Symmetric
INVARIANTS TypeOK OneRunner FileOnce 
PROPERTIES FollowsLifecycle
