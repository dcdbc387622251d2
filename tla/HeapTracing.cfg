SPECIFICATION Spec
CONSTANTS
  t1 = t1
  t2 = t2
  node = node
  pair = pair
  raw = raw
  nodeCodes = nodeCodes
  pairCodes = pairCodes
  Threads = {t1, t2}
  Types = {node, pair, raw}
  Vectors = {nodeCodes, pairCodes}
  NULL = NULL
  Size <- MCSize
  Elements <- MCElements
  Base = 2
  Limit = 6
  Lengths = {1, 2, 4}
INVARIANTS
  TypeOK
  HeapExact
SYMMETRY Symmetry
CONSTRAINT Handled
CHECK_DEADLOCK FALSE
