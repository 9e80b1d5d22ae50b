\* MaxFrames lets every recursion end, and stops the host when frames that
\* traps left behind have filled the frame stack: the only deadlock.
CONSTANTS
  BYTE = 2
  BITS = 1
  Modules <- CallModules
  HostFuncs = {0}
  HostArgs <- CallArgs
  Disciplined = TRUE
  MAX_TICKS = 30
  MaxFrames = 9
  MaxStale = 2
  NumericOps <- MCNumericOps
  Arity <- ArityOf
  Numeric <- Eval
  PAGE = 4
  LIMIT = 16
  NoMax <- MCNoMax
  OverflowChecks = TRUE
  Memories <- CallMemories
  Fuel = 8
SPECIFICATION FairMachineSpec
CHECK_DEADLOCK FALSE
INVARIANT StoresTyped
INVARIANT ScopesMatchNesting
INVARIANT MatchesReference
PROPERTY RunReturns
PROPERTY CallersUntouched
