\* One decode fails.
SPECIFICATION Spec
CONSTANTS
  MaxRequests = 2
  Capacity = 4
  Workload <- MCWorkload
  Faults = {"decode"}
  MaxFaults = 1
INVARIANTS
  OutputMatchesGenerate
CHECK_DEADLOCK FALSE
