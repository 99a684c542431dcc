SPECIFICATION TourSpec
CONSTANTS
  Tables <- MCTables
  BF_MAX_FEASABLE = 4
  Far = 99
INVARIANTS ShortestSelected
CHECK_DEADLOCK FALSE
