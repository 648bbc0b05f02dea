SPECIFICATION Spec
CONSTANTS
    t1 = t1
    t2 = t2
    five = five
    eight = eight
    Null = Null
    Tabs = {t1, t2}
    Cuts = {five}
    PiecesOf <- NineMB
    Faults = {"abort"}
    PurgeRaces = FALSE
    MaxSessions = 3
    MaxAttempts = 5
SYMMETRY Devices
CHECK_DEADLOCK FALSE
INVARIANTS TypeOK MergeWhole  ResumeTruthful
