CONSTANTS
  BYTE = 2
  BITS = 1
  Modules <- Spin
  HostFuncs = {0}
  HostArgs <- FindingArgs
  Disciplined = TRUE
  MAX_TICKS = 40
  MaxFrames = 5
  MaxStale = 2
  NumericOps <- MCNumericOps
  Arity <- ArityOf
  Numeric <- Eval
  PAGE = 2
  LIMIT = 2
  NoMax <- MCNoMax
  OverflowChecks = TRUE
  Memories <- NoMemory
  Fuel = 9
SPECIFICATION MachineSpec
CHECK_DEADLOCK FALSE
INVARIANT Resumable
