SPECIFICATION Spec
CONSTANTS
    e1 = e1
    e2 = e2
    w1 = w1
    w2 = w2
    monday = monday
    tuesday = tuesday
    Null = Null
    Events = {e1, e2}
    Workers = {w1, w2}
    DayOf <- SameDay
    Faults = {"publish", "maybe", "unconfirmed", "sql", "sql_maybe", "redis", "day_lost", "key_lost", "stop"}
    MaxMishaps = 3
CHECK_DEADLOCK FALSE
INVARIANTS TypeOK CountedOnce CountedAtRest SummaryTruthful
PROPERTIES QueuedIsCounted
