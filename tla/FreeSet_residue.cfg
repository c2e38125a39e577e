\* The store of NULL may be late: an owner leaves regions behind alone.
SPECIFICATION Spec
CONSTANTS
  Threads = {t1, t2}
  Blocks = {b1, b2}
  NULL = NULL
  Junk = Junk
  WeakOrder = TRUE
INVARIANTS
  ResidueMeansConcurrentFree
