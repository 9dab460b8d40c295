CONSTANTS
  Jobs = {j1, j2}
  MaxFaults = 2
SPECIFICATION Spec
PROPERTIES StartsPendingJobs
CHECK_DEADLOCK FALSE
