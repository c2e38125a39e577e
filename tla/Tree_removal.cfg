\* Seven keys: a removal goes on past the root.
SPECIFICATION Spec
CONSTANTS
  NumKeys = 7
  NumValueKeys = 3
  NumNodes = 2
  NumHashKeys = 3
  NumClearKeys = 2
  MapValues = {v1, v2}
  None = None
  NULL = NULL
  GroupSize = 2
  MinCap = 4
  StepCount = 2
  SizeRange = 1024
  Values = {0, 1}
  Raw = Raw
  Moved = Moved
  MinAlloc = 2
  VectorLen = 4
  MaxAlloc = 8
  ArrayLen = 3
  Off = Off
INVARIANTS
  RemovalEndsAtRoot
