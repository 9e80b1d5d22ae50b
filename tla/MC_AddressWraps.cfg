CONSTANTS
  BYTE = 2
  PAGE = 2
  LIMIT = 6
  NoMax <- MCNoMax
  Sizes <- MCSizes
  Maxima <- MCMaxima
  Loads <- WrappedAddress
  Stores <- MCStores
  Deltas <- MCDeltas
  OverflowChecks = FALSE
SPECIFICATION Spec
CHECK_DEADLOCK FALSE
INVARIANT BeyondEndFaults
