CONSTANTS
  Chunk <- MCChunk
  Object <- MCObject
  ChunksOf <- MCChunksOf
  Bound <- MCBound
  Size <- MCSize
  Batches <- MCBatches
  Concurrencies = {0, 2}
  NoPlan = NoPlan
  MaxHolders = 0
  MaxSources = 2
  MaxCalls = 2
  MaxOther = 1
  Floor = 4
  Ceiling = 5
  TargetSize = 4
  MaxAppend = 2
  MaxPlain = 6
  MaxFollows = 2
  MaxDropped = 1
SPECIFICATION MCSpec
INVARIANTS SlotsAreExact BudgetsHold VersionsAreWhole
PROPERTIES FetchEnds
CHECK_DEADLOCK FALSE
