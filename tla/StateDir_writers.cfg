SPECIFICATION Spec
CONSTANTS
    Procs = {p1, p2}
    Chunks = 2
    None = None
    Newline = Newline
SYMMETRY Symmetry
INVARIANTS
    ArchiveInv
    DamageIsLocal
CHECK_DEADLOCK FALSE
