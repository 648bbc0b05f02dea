SPECIFICATION Spec
CONSTANTS
    c1 = c1
    c2 = c2
    ann = ann
    bea = bea
    work = work
    home = home
    Null = Null
    Clients = {c1, c2}
    Names = {ann, bea}
    Emails = {work, home}
    Faults = {"stop", "expired"}
    MaxTokens = 2
    MaxRequests = 5
SYMMETRY Alike
CHECK_DEADLOCK FALSE
INVARIANTS TypeOK AccountOnce  ProfileExplained
