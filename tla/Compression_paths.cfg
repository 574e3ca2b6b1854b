SPECIFICATION MCSpec
CONSTANTS
    Types <- MCTypes
    Reformats <- MCReformats
    Offloads <- MCOffloads
    Facts = {f1, f2}
    Failures = {f1}
    MaxSize = 4
    Questions = {q1, q2}
    MaxTurns = 3
    MaxLosses = 1
    None = None
SYMMETRY Symmetric
INVARIANTS
    ReportInv
    SavingIsExact
    InformationKept
    FailuresShown
    ZoneInv
    CachedPrefixKept
    SourceKept
CHECK_DEADLOCK FALSE
