SPECIFICATION Spec
CONSTANTS
    r1 = r1  r2 = r2  x1 = x1  x2 = x2  x3 = x3  k1 = k1  k2 = k2
SYMMETRY Symmetry
INVARIANTS
    UsedOnce
    WithinRate
    WithinLimit
    TermKept
CHECK_DEADLOCK FALSE
