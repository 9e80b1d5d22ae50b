CONSTANTS
  BYTE = 4
  NumericOps = {}
  GROUP = 4
  W32 = 8
  W64 = 16
  Opcodes <- MCOpcodes
  ValueTypes <- MCValueTypes
  MAX_OFFSET = 255
  Files <- MCFiles
  Magic <- MCMagic
  Version <- MCVersion
  TYPE_MARKER = 6
  MAX_LOCALS = 30
  MAX_MEMORY_SIZE_PAGES = 4
  PAGE = 4
  EXPR_TICK_LIMIT = 4
  FragmentValues = {0, 65535}
SPECIFICATION Spec
INVARIANT TypeOK
INVARIANT RegionsDisjoint
INVARIANT SectionsWhereTheyAre
INVARIANT ScanAgrees
INVARIANT DecodedNests
INVARIANT InstanceIsModule
INVARIANT InstanceAsEncoded
PROPERTY Advances
