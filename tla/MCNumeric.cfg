\* 1-bit bytes: i32 has 4 bits, i64 has 8; every pair of words is a state.
\* LEB128 bytes have 3 payload bits: 32-bit numbers (4 bits) take up to 2 of them,
\* 1 bit of the last; 64-bit numbers (8 bits) take up to 3, 2 bits of the last.
CONSTANTS
  BYTE = 2
  BITS = 1
  GROUP = 3
  W32 = 4
  W64 = 8
  F32 <- MCF32
  F64 <- MCF64
  UNIT = 8
SPECIFICATION Spec
INVARIANT IntegersCorrect
INVARIANT ConversionsCorrect
INVARIANT LebCorrect
INVARIANT TruncationsCorrect
INVARIANT FloatsCorrect
