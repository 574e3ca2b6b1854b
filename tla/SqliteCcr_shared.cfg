SPECIFICATION Spec
CONSTANTS
    t1 = t1
    t2 = t2
    t3 = t3
    p1 = p1
    p2 = p2
    Procs = {p1, p2}
    Threads <- ThreeThreads
    ProcOf <- TwoInOne
    Keys = {k1}
    Payloads = {v1, v2}
    None = None
    Ttl = 2
    MaxWait = 1
    MaxTime = 4
SYMMETRY Symmetry
INVARIANTS
    TypeOK
    LiveUntilPromised
PROPERTIES
    ImplementsContract
