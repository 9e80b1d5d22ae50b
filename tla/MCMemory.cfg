\* The limit of grow is reached, and one initial size is above it.
CONSTANTS
  BYTE = 2
  PAGE = 2
  LIMIT = 6
  NoMax <- MCNoMax
  Sizes <- MCSizes
  Maxima <- MCMaxima
  Loads <- MCLoads
  Stores <- MCStores
  Deltas <- MCDeltas
  OverflowChecks = TRUE
SPECIFICATION Spec
INVARIANT MemoryTypeOK
INVARIANT SizeWithinLimits
INVARIANT NoAbort
PROPERTY GrowPreservesData
PROPERTY RefinesMemory
