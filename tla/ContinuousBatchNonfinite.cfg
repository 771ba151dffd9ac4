\* No call fails, but a row's logits may be non-finite.
SPECIFICATION Spec
CONSTANTS
  MaxRequests = 2
  MaxSlots = 2
  Capacity = 4
  BatchPrefill = TRUE
  Workload <- MCFaultWorkload
  Faults = {"nonfinite"}
  MaxFaults = 0
INVARIANT OutputMatchesReference
CHECK_DEADLOCK FALSE
