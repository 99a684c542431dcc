SPECIFICATION RoutesSpec

CONSTANTS
    NumNodes = 5
    Jobs <- MCJobs
    Priorities = {0, 1}
    Hash <- MCHash
    IntMax = 99
    Queries <- MCQueries
    ViaQueries <- MCViaQueries
    TableQueries <- MCTableQueries
    AlternativeQueries <- MCAlternativeQueries

INVARIANTS
    DistanceExact
    PathIsDrive
    ViaSound
    TableExact
    AlternativeSound

PROPERTY
    SettledFinal
