SPECIFICATION LiveSpec
CONSTANTS
    g1 = g1
    g2 = g2
    k1 = k1
    i1 = i1
    i2 = i2
    Gcs = {g1, g2}
    Checks = {k1}
    InstanceOf <- OnInstances
    Ttl <- Terms
    GcTtl = 2
    CheckTtl = 1
    MaxVersion = 4
    MaxFaults = 2
    Gone = Gone
    None = None
INVARIANT TypeOK
INVARIANT MutualExclusion
PROPERTY TakesOverOnlyExpired
PROPERTY LeaseRecovered
