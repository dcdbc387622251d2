SPECIFICATION FairSpec
CONSTANTS
  L1_BITS = 3
  L2_BITS = 2
  L2_NUM = 4
  BitypePageNum = 2
  FirstChunk = 4
  base = base
  derived = derived
  NULL = NULL
  Vector <- MCVector
  UINT32 = 32
  Counts = {1, 2, 32}
  ChunkBases = {4, 12}
  Refs = {base}
  Addr = {0, 16, 32}
  Sizes = {0, 1, 2}
  Offsets <- TableOffsets
  TypeSizes = {16}
  Codes = {}
  Sites = {}
INVARIANTS
  TypeOK
  TablesApart
  TablesMapped
  NoTableWasted
  FreshTables
  ArrayProgress
PROPERTIES
  ImplementsMap
  HandlerEnds
CHECK_DEADLOCK FALSE
