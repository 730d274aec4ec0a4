SPECIFICATION FairSpec
CONSTANTS
    g1 = g1
    g2 = g2
    h1 = h1
    i1 = i1
    Gets = {g1, g2}
    Heads = {h1}
    Instances = {i1}
    InstanceOf <- OneInstance
    Ttl = 60
    MaxVersion = 2
    MaxFaults = 1
    None = None
INVARIANT TypeOK
INVARIANT CacheInv
PROPERTY NeverGoesBack
PROPERTY KeyReleased
