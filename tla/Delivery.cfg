SPECIFICATION Spec
CONSTANTS
    m1 = m1  m2 = m2
SYMMETRY Symmetry
INVARIANTS
    IngestSound
    VerdictTrue
    LimitsKept
    SentOnce
    PhoneOwned
PROPERTIES
    LateIsHarmless
    KeepsContract
CHECK_DEADLOCK FALSE
