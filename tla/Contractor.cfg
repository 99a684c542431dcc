SPECIFICATION Spec

CONSTANTS
    NumNodes = 6
    Jobs <- MCJobs
    Priorities = {0, 1}
    Hash <- MCHash
    IntMax = 99

INVARIANTS
    RoundContracts
    NoSharedNeighbour
    RemainingDistances
    HierarchySound
