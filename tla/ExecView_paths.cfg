SPECIFICATION MCSpec
CONSTANTS
    Raws <- MCRaws
    Budgets = {0, 1, 2}
INVARIANTS
    ViewInv
    FailuresShown
    LeftOutIsKept
    PromisedIsShown
    SelectionsKeep
CHECK_DEADLOCK FALSE
