SPECIFICATION Spec
CONSTANTS
    t1 = t1
    t2 = t2
    k1 = k1
    k2 = k2
    k3 = k3
    None = None
    Threads <- TwoThreads
    Keys <- TwoKeys
    Payloads = {1, 2}
    Shards <- ShardPerKey
    Capacity = 1
    Ttl = 0
    MaxTime = 2
    MaxGeneration = 3
SYMMETRY Symmetric
INVARIANTS
    TypeOK
    EveryEntryEvictable
PROPERTIES
    ImplementsContract
    LossOnlyByEviction
