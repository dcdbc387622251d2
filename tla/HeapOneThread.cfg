SPECIFICATION ClangSpec
CONSTANTS
  t1 = t1
  pair = pair
  field = field
  raw = raw
  nodeCodes = nodeCodes
  pairCodes = pairCodes
  fieldCodes = fieldCodes
  Threads = {t1}
  Types = {pair, field, raw}
  Vectors = {nodeCodes, pairCodes, fieldCodes}
  NULL = NULL
  Size <- MCSize
  Elements <- MCElements
  Extended <- MCExtended
  Base = 2
  Limit = 6
  Lengths = {2, 4}
INVARIANTS
  PlacedDescribed
  EntriesExplained
PROPERTIES
  RegistrationHeals
  NamesYield
CONSTRAINT Apart
CHECK_DEADLOCK FALSE
