\* Every access in program order, threads that keep coming back: 3 threads, 2 regions.
SPECIFICATION LiveSpec
CONSTANTS
  Threads = {t1, t2, t3}
  Blocks = {b1, b2}
  NULL = NULL
  Junk = Junk
  WeakOrder = FALSE
INVARIANTS
  QueueIntact
  ResidueMeansConcurrentFree
PROPERTIES
  QuietClearDrains
  KeepsPromiseForever
  ClearEnds
