SPECIFICATION MCSpec
CONSTANTS
    p1 = p1
    p2 = p2
    Processes <- TwoProcesses
    MaxEdits = 3
    MaxChanges = 2
SYMMETRY Symmetric
INVARIANTS
    TrustInv
    SaysWhatWasAsked
    LinesMeanTheSame
