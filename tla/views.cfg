SPECIFICATION Spec
CONSTANTS
    s1 = s1
    s2 = s2
    c1 = c1
    c2 = c2
    f1 = f1
    f2 = f2
    root = root
    docs = docs
    Null = Null
    Sessions = {s1, s2}
    Folders = {root, docs}
    MaxRequests = 3
    Clients = {c1, c2}
    MaxShares = 2
    MaxCalls = 3
    CreateRaces = FALSE
    Files = {f1, f2}
CONSTRAINT FewRequests
SYMMETRY Alike
CHECK_DEADLOCK FALSE
INVARIANTS TypeOK  LateNotServed OneOpenShare
