SPECIFICATION Spec
CONSTANTS
    s1 = s1
    s2 = s2
    s3 = s3
    alice = alice
    bob = bob
    h1 = h1
    h2 = h2
    Null = Null
    Sessions = {s1, s2}
    Users = {alice, bob}
    UserOf <- TwoUsers
    Hashes = {h1}
    Ops = {"fast", "complete", "copy", "purge"}
    Faults = {"conflict", "new_conflict", "insert", "minio", "abort", "lease"}
    MaxActive = 2
    MaxRequests = 4
CHECK_DEADLOCK FALSE
INVARIANTS TypeOK RefCovers
 
