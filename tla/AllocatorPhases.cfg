\* Two threads, three blocks; nobody quiesces while an operator is submitting.
SPECIFICATION Spec
CONSTANTS
  Threads = {t1, t2}
  NoThread = NoThread
  Blocks <- MCBlocks
  Size <- MCSize
  CacheLimit = 2
  ScopeCapacity = 2
  MaxQueue = 3
  QuiesceAlone = TRUE
SYMMETRY Symmetry
INVARIANTS
  TypeOK
  SafeReuse
  ReuseIsDefaultOnly
  BlocksInOnePlace
  CacheWithinLimit
