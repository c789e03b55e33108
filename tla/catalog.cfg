\* Two changes, a request that overlaps another, a request that fails half-way, under fairness.
SPECIFICATION FairSpec
CONSTANTS
    Requests <- TwoRequests
    MaxChanges = 2
    MaxFailures = 1
    MaxOverlaps = 1
INVARIANTS
    CatalogIsCurrent
PROPERTIES
    OnlyWhatWasAsked
    StaleEntriesDie
CHECK_DEADLOCK FALSE
