SPECIFICATION LiveSpec
CONSTANTS
    b1 = b1
    b2 = b2
    k1 = k1
    p1 = p1
    c1 = c1
    c2 = c2
    i1 = i1
    s1 = s1
    s2 = s2
    Blobs = {b1, b2}
    Keys = {k1}
    Paths = {p1}
    Stores = {s1}
    Clients = {c1, c2}
    Instances = {i1}
    StoreOf <- OneStore
    Expiring = {}
    Collisions = {}
    Requests = {}
    MaxCandidates = 2
    MaxRetries = 1
    MaxFaults = 1
    None = None
INVARIANT OwnUploadKept
PROPERTY OrphansReclaimed
