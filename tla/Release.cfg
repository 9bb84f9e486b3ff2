SPECIFICATION Spec
INVARIANTS
    OwnedOnce
    CutoverWhole
    Fenced
    PausesKept
    FailureUndone
    CarriedOver
PROPERTIES
    NothingCut
CHECK_DEADLOCK FALSE
