SPECIFICATION ExtractorSpec
CONSTANTS
  Inputs <- Parallels
  Distance <- MCDistance
  TurnPenalty <- MCTurnPenalty
  Special = 1000
  SignalPenalty = 20
  UTurnPenalty = 40
  FreeListChunk = 2
  SmallComponentSize = 3
INVARIANT MinimalKept
