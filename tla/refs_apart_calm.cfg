SPECIFICATION ApartSpec
CONSTANTS
    s1 = s1
    s2 = s2
    s3 = s3
    alice = alice
    bob = bob
    h1 = h1
    h2 = h2
    Null = Null
    Sessions = {s1, s2}
    Users = {alice, bob}
    UserOf <- TwoUsers
    Hashes = {h1, h2}
    Ops = {"fast", "complete", "copy", "purge"}
    Faults = {"conflict", "insert"}
    MaxActive = 2
    MaxRequests = 5
CHECK_DEADLOCK FALSE
INVARIANTS CountsExactAtRest NoGhostUsed NoOrphansAtRest
SYMMETRY Renamings
