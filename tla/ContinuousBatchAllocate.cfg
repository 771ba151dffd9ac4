\* One allocation fails between a layer's key and its value tensor.
SPECIFICATION FairSpec
CONSTANTS
  MaxRequests = 2
  MaxSlots = 2
  Capacity = 4
  BatchPrefill = TRUE
  Workload <- MCFaultWorkload
  Faults = {"allocate"}
  MaxFaults = 1
PROPERTIES
  EveryRequestEnds
CHECK_DEADLOCK FALSE
