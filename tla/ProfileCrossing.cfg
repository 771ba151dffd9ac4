SPECIFICATION Spec
CONSTANTS
  Tasks = {t1, t2}
  Threads = {main}
  FirstTask = t1
  FirstThread = main
  NumScopes = 2
  HipScopes = {}
  NumObservers = 0
  MaxKernels = 0
  MaxFailures = 0
  NoCaller = NoCaller
INVARIANTS
  BoundariesHoldMarkers
CHECK_DEADLOCK FALSE
