\* A thread may quiesce while an operator of the other is between its notification
\* and its launch.
SPECIFICATION Spec
CONSTANTS
  Threads = {t1, t2}
  NoThread = NoThread
  Blocks <- MCBlocks
  Size <- MCSize
  CacheLimit = 2
  ScopeCapacity = 1
  MaxQueue = 2
  QuiesceAlone = FALSE
INVARIANT ReuseIsDefaultOnly
