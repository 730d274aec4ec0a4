SPECIFICATION FairSpec
CONSTANTS
    d1 = d1
    p1 = p1
    Deleters = {d1}
    Local = {d1}
    Reapers = {p1}
    MayLeave = TRUE
    Workloads <- MCWorkloads
    MaxFaults = 1
    None = None
CHECK_DEADLOCK FALSE
INVARIANT TypeOK
PROPERTY OutcomeKept
PROPERTY OrphanSettles
PROPERTY DeletionFinishes
