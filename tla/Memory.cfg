\* Three orders of blocks in up to four chunks from two groups of records; two
\* classes of three and two slots to a block, sharing three blocks; two groups of
\* two records and as many regions; the sizes and classes of the source.
SPECIFICATION Spec
CONSTANTS
  TopOrder = 2
  PerGroup = 2
  MaxGroups = 2
  MaxLive = 5
  Keep = 1
  small = small
  large = large
  Classes <- MCClasses
  Slots <- MCSlots
  Blocks = {b1, b2, b3}
  MmapPerGroup = 2
  MmapMaxGroups = 2
  Regions = {a1, a2, a3, a4}
  Sizes <- MCSizes
  Alignments <- MCAlignments
  TASK_SIZE = 300000
  Header = 304
  MaxIndex = 64
  NULL = NULL
  Off = Off
INVARIANTS
  PagesAccountedFor
  ListsSound
  NothingIdleKept
  OneOwner
  LayoutRight
PROPERTIES
  ReturnsOnlyIdle
CHECK_DEADLOCK FALSE
