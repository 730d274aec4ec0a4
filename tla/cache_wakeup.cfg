SPECIFICATION FairSpec
CONSTANTS
    g1 = g1
    g2 = g2
    h1 = h1
    i1 = i1
    Gets = {g1, g2}
    Heads = {}
    Instances = {i1}
    InstanceOf <- OneInstance
    Ttl = 60
    MaxVersion = 1
    MaxFaults = 0
    None = None
PROPERTY Answered
