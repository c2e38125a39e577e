\* Up to nine keys with one value: every shape that insertions and removals can give
\* a tree; five keys with two values; all pairs of trees of up to six nodes; hash maps
\* of five keys with one value, and of three keys with two and clear(), in tables of
\* four slots or more; vectors of up to four elements in up to eight cells; arrays of
\* up to three elements.
SPECIFICATION Spec
CONSTANTS
  NumKeys = 9
  NumValueKeys = 5
  NumNodes = 6
  NumHashKeys = 5
  NumClearKeys = 3
  MapValues = {v1, v2}
  None = None
  NULL = NULL
  GroupSize = 2
  MinCap = 4
  StepCount = 2
  SizeRange = 1024
  Values = {0, 1}
  Raw = Raw
  Moved = Moved
  MinAlloc = 2
  VectorLen = 4
  MaxAlloc = 8
  ArrayLen = 3
  Off = Off
INVARIANTS
  MapSound
  TablesSound
  CopiedAlike
  CopySound
  ObjectsSound
PROPERTIES
  IsDictionary
  CopyInPlace
  AssignmentEnds
