SPECIFICATION PurgesApartSpec
CONSTANTS
    s1 = s1
    s2 = s2
    s3 = s3
    alice = alice
    bob = bob
    h1 = h1
    h2 = h2
    Null = Null
    Sessions = {s1, s2, s3}
    Users = {alice, bob}
    UserOf <- TabsAndBob
    Hashes = {h1}
    Ops = {"fast", "complete", "copy", "purge"}
    Faults = {"conflict", "insert"}
    MaxActive = 3
    MaxRequests = 5
CHECK_DEADLOCK FALSE
INVARIANTS EntriesStored CountsExactAtRest NoOrphansAtRest
