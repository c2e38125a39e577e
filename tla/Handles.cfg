\* Three addresses for two containers, two counted and three linked references, and
\* for chunks of two and four slots in a hive of up to six elements with one handle;
\* four, for two lists with two handles, so that a copy may both assign and append.
\* Bitmaps have words of two bits.
SPECIFICATION Spec
CONSTANTS
  Allocs = {a1, a2, a3}
  Nodes = {a1, a2, a3, a4}
  Counted = {c1, c2}
  Linked = {l1, l2, l3}
  Containers = {s, t}
  Lists = {x, y}
  Handles = {h1, h2}
  HiveHandles = {h1}
  Values = {v1, v2}
  MaxId = 3
  Word = 2
  FirstLog2 = 1
  LastLog2 = 2
  MaxLen = 6
  NULL = NULL
  Gone = Gone
  NoHandle = NoHandle
  Off = Off
SYMMETRY Symmetry
INVARIANTS
  RefsSound
  AcceptsItsOwn
  ChainsSound
  HiveSound
PROPERTIES
  IsHandleSeq
  OrderStable
