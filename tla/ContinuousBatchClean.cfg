\* No decode fails and all logits are finite; prefills may still fail.
SPECIFICATION FairSpec
CONSTANTS
  MaxRequests = 3
  MaxSlots = 2
  Capacity = 4
  BatchPrefill = TRUE
  Workload <- MCWorkload
  Faults = {"prefill"}
  MaxFaults = 2
INVARIANTS
  ViewsEndAtLongestRow
PROPERTIES
  RefinesLifecycle
  EveryRequestEnds
CHECK_DEADLOCK FALSE
