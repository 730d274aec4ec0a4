SPECIFICATION FairSpec
CONSTANTS
    dirRoot = dirRoot
    dirA = dirA
    dirB = dirB
    p1 = p1
    p2 = p2
    p3 = p3
    i1 = i1
    i2 = i2
    c1 = c1
    c2 = c2
    Dirs = {dirRoot, dirA, dirB}
    Root = dirRoot
    Parent <- MCParent
    Above <- MCAbove
    Paths = {p1, p2, p3}
    DirOf <- MCDirOf
    Sizes = {1, 2}
    Instances = {i1, i2}
    Clients = {c1, c2}
    Workloads <- MCWorkloads
    None = None
    Unread = Unread
CHECK_DEADLOCK FALSE
INVARIANT TypeOK
INVARIANT Conserved
INVARIANT RebuildReconciles
PROPERTY Converges
