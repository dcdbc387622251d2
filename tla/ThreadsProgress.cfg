SPECIFICATION FairSpec
CONSTANTS
  L1_BITS = 2
  L2_BITS = 2
  L2_NUM = 4
  BitypePageNum = 1
  FirstChunk = 4
  ChunkBases = {4, 8}
  Threads = {t1, t2}
  NULL = NULL
  t1 = t1
  t2 = t2
  base = base
  Refs = {base}
  Addr = {0, 16}
  Offsets = {8}
PROPERTY
  CallsReturn
CHECK_DEADLOCK FALSE
