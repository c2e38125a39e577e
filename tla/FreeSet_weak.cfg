\* The store of NULL may be late: 3 threads, 3 regions.
SPECIFICATION Spec
CONSTANTS
  Threads = {t1, t2, t3}
  Blocks = {b1, b2, b3}
  NULL = NULL
  Junk = Junk
  WeakOrder = TRUE
SYMMETRY Symmetry
INVARIANTS
  LinkTargetQueued
  PlaceholderTracked
  IInv
PROPERTIES
  KeepsPromise
