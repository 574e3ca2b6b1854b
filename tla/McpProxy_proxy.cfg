SPECIFICATION FairSpec
CONSTANTS
    None = None
    Ids = {a, b}
    MayStall = TRUE
INVARIANTS
    ProxyInv
    MarkersResolve
PROPERTIES
    CrashIsReported
    ProxyExits
CHECK_DEADLOCK FALSE
