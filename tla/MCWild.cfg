\* The code may recurse without end: MaxFrames then stands for the memory, and
\* the machine stops.
CONSTANTS
  BYTE = 2
  BITS = 1
  Modules <- WildModules
  HostFuncs = {0}
  HostArgs <- WildArgs
  Disciplined = TRUE
  MAX_TICKS = 10
  MaxFrames = 2
  MaxStale = 0
  NumericOps <- MCNumericOps
  Arity <- ArityOf
  Numeric <- Eval
  PAGE = 2
  LIMIT = 6
  NoMax <- MCNoMax
  OverflowChecks = TRUE
  Memories <- WildMemories
  Fuel = 1
SPECIFICATION MachineSpec
CHECK_DEADLOCK FALSE
INVARIANT TypeOK
INVARIANT StoresTyped
