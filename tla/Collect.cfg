SPECIFICATION Spec
INVARIANTS
    AlertsExact
    CoverExact
    AnnouncedOnce
    FetchSound
    ScrapeTrue
PROPERTIES
    PartialIsKeptApart
CHECK_DEADLOCK FALSE
