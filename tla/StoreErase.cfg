SPECIFICATION Spec
CONSTANTS
  Jobs = {"erase", "floor"}
  LongLookback = TRUE
  MaxSeg = 2
  MaxFaults = 1
  MaxRestarts = 0
  MaxGrooms = 2
  MaxRequests = 1
INVARIANTS
  GroomedOnce
CHECK_DEADLOCK FALSE
