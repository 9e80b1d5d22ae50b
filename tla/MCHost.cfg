\* The host stops when MaxStale frames wait, or the machine has aborted.
CONSTANTS
  BYTE = 2
  BITS = 1
  Modules <- HostModules
  HostFuncs = {0, 1, 2, 3}
  HostArgs <- HostArguments
  Disciplined = FALSE
  MAX_TICKS = 9
  MaxFrames = 4
  MaxStale = 1
  NumericOps <- MCNumericOps
  Arity <- ArityOf
  Numeric <- Eval
  PAGE = 2
  LIMIT = 2
  NoMax <- MCNoMax
  OverflowChecks = TRUE
  Memories <- NoMemory
  Fuel = 1
SPECIFICATION MachineSpec
CHECK_DEADLOCK FALSE
INVARIANT TypeOK
INVARIANT DeclaredLocalsPresent
PROPERTY CallersUntouched
