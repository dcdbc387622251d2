SPECIFICATION Spec
CONSTANTS
  p = p
  q = q
  Pointer = {p, q}
  Values <- SmallValues
  MaxStores = 3
  StackLimit = 4
INVARIANTS
  TypeOK
  RemovedSourceKnown
  WalkExact
  OverflowNeedsCircle
PROPERTIES
  PassAnswers
CHECK_DEADLOCK FALSE
