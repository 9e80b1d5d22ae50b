CONSTANTS
  BYTE = 2
  BITS = 1
  GROUP = 3
  W32 = 4
  W64 = 8
  F32 <- MCF32
  F64 <- MCF64
  UNIT = 8
SPECIFICATION Spec
INVARIANT ZeroSigns
