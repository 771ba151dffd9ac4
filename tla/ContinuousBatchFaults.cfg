\* Every kind of failure; at most two calls fail.
SPECIFICATION Spec
CONSTANTS
  MaxRequests = 3
  MaxSlots = 2
  Capacity = 4
  BatchPrefill = TRUE
  Workload <- MCWorkload
  Faults = {"prefill", "allocate", "decode", "copy", "nonfinite"}
  MaxFaults = 2
INVARIANTS
  TypeOK
  SlotMapConsistent
  RowsFollowRequests
  CapacityReserved
  CountersAgree
PROPERTIES
  TerminalIsFinal
  AdmissionOrder
CHECK_DEADLOCK FALSE
