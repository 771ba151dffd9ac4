\* Prefills may fail and logits be non-finite; no decode fails.
SPECIFICATION FairSpec
CONSTANTS
  MaxRequests = 3
  Capacity = 4
  Workload <- MCWorkload
  Faults = {"prefill", "nonfinite"}
  MaxFaults = 1
INVARIANTS
  TypeOK
  CacheFollowsRequest
PROPERTIES
  RefinesLifecycle
  EveryRequestEnds
CHECK_DEADLOCK FALSE
