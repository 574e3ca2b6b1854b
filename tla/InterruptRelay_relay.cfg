SPECIFICATION PartsSpec
CONSTANTS
    Captures = {c1, c2}
    Arrivals = {s1, s2}
    Slots = 2
    None = None
    MaxEvents = 3
SYMMETRY Symmetry
INVARIANTS
    RelayInv
    LostInTwoWaysOnly
    NoOrphanedProducer
    ConsoleInv
CHECK_DEADLOCK FALSE
