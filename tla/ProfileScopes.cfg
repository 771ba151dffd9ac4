SPECIFICATION FairSpec
CONSTANTS
  Tasks = {t1, t2}
  Threads = {main, worker}
  FirstTask = t1
  FirstThread = main
  NumScopes = 2
  HipScopes <- MCHipScopes
  NumObservers = 2
  MaxKernels = 1
  MaxFailures = 1
  NoCaller = NoCaller
INVARIANTS
  TypeOK
  RowsAreTrue
  KernelsFollowRanges
  CompletionIsUnique
PROPERTIES
  FuturesEnd
CHECK_DEADLOCK FALSE
