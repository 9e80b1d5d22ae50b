CONSTANTS
  BYTE = 2
  BITS = 1
  Modules <- ControlModules
  HostFuncs = {0}
  HostArgs <- ControlArgs
  Disciplined = TRUE
  MAX_TICKS = 400
  MaxFrames = 3
  MaxStale = 0
  NumericOps <- MCNumericOps
  Arity <- ArityOf
  Numeric <- Eval
  PAGE = 2
  LIMIT = 2
  NoMax <- MCNoMax
  OverflowChecks = TRUE
  Memories <- NoMemory
  Fuel = 20
SPECIFICATION MachineSpec
INVARIANT ScopesMatchNesting
INVARIANT OperandsAboveScopes
INVARIANT NoUnderflow
INVARIANT MatchesReference
