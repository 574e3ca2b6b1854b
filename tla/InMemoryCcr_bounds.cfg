SPECIFICATION FairSpec
CONSTANTS
    t1 = t1
    t2 = t2
    k1 = k1
    k2 = k2
    k3 = k3
    None = None
    Threads <- TwoThreads
    Keys <- ThreeKeys
    Payloads = {1}
    Shards <- TwoShards
    Capacity = 1
    Ttl = 0
    MaxTime = 1
    MaxGeneration = 3
INVARIANTS
    CapacityBound
PROPERTIES
    CallsReturn
