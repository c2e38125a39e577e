\* Chunks of four pages, one class with two slots to a page, four regions.
SPECIFICATION ArenaSpec
CONSTANTS
  TopOrder = 1
  PerGroup = 2
  MaxGroups = 1
  MaxLive = 3
  Keep = 0
  BlockOrder = 0
  Classes = {small}
  Slots <- TwoSlots
  MmapPerGroup = 2
  MmapMaxGroups = 2
  Regions = {a1, a2, a3, a4}
  NULL = NULL
SYMMETRY Symmetry
INVARIANTS
  EveryAllocationHeldOnce
  RestFootprint
PROPERTIES
  FailureIsClean
