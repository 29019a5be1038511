SPECIFICATION Spec
CONSTANTS
  Jobs = {"erase"}
  LongLookback = TRUE
  MaxSeg = 1
  MaxFaults = 0
  MaxRestarts = 0
  MaxGrooms = 1
  MaxRequests = 1
INVARIANT ErasedForGood
CHECK_DEADLOCK FALSE
