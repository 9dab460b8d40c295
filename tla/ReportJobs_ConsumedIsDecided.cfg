CONSTANTS
  Jobs = {j1, j2}
  MaxFaults = 2
SPECIFICATION Spec
INVARIANTS ConsumedIsDecided
CHECK_DEADLOCK FALSE
