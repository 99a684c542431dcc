SPECIFICATION LibrarySpec
CONSTANTS
  Inputs <- MCInputs
  Distance <- MCDistance
  TurnPenalty <- MCTurnPenalty
  Special = 1000
  SignalPenalty = 20
  UTurnPenalty = 40
  FreeListChunk = 2
  SmallComponentSize = 3
  c1 = c1
  c2 = c2
  Conns = {c1, c2}
  Clients <- MCClients
  MaxRead = 4
  Tables <- MCTables
  BF_MAX_FEASABLE = 4
  Far = 99
  Requests <- MCRequests
  max_locations_distance_table = 2
  Segments <- MCSegments
  SpatialQueries <- MCSpatialQueries
  LEAF_NODE_SIZE = 2
  BRANCHING_FACTOR = 2
  Traces <- MCTraces
  max_locations_map_matching = 2
  MAX_BROKEN_STATES = 2
  MAX_SPEED = 2
  TimeWidth = 16
  Never = 999
  GraphNodes = {1, 2, 3}
  InputGraphs <- MCInputGraphs
  GraphThreads = {g1, g2}
  MaxInserts = 2
  Itineraries <- MCItineraries
  Threshold = 1
  BLOCK_SIZE = 2
  ByteWidth = 4
  LengthLists <- MCLengthLists
  HashNodes = {n1, n2, n3}
  HashKeys = {0, 1}
  Positions = 3
  MaxTime = 2
  Nodes = {a, b, c, d}
  Weights = {0, 1}
  NoNode = NoNode
  MinWeight = 0
  Capacity = 4
  ArrayStorage = TRUE
INVARIANTS
  EdgesFaithful
  RestrictionsFaithful
  TurnsExact
  GeometryMirrored
  ComponentsExact
  RequestAsSent
  ReplyHonest
  OptionsBelong
  ToursVisitAll
  PlacesMatched
  NearestExact
  MatchingOptimal
  BlocksKept
  RangesExact
  StorageFaithful
  DescriptionFaithful
PROPERTY
  QueueSpec
CHECK_DEADLOCK FALSE
