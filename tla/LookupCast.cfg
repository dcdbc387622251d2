SPECIFICATION Spec
CONSTANTS
  L1_BITS = 2
  L2_BITS = 1
  L2_NUM = 3
  BitypePageNum = 2
  FirstChunk = 4
  base = base
  derived = derived
  NULL = NULL
  Vector <- MCVector
  UINT32 = 64
  Counts = {}
  ChunkBases = {4}
  Refs = {base, derived}
  Addr = {0, 8}
  Sizes = {0, 1}
  Offsets <- CastOffsets
  TypeSizes = {}
  Codes = {2, 9}
  Sites <- CastSites
PROPERTY
  ImplementsMap
CHECK_DEADLOCK FALSE
