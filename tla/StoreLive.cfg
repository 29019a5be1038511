SPECIFICATION FairSpec
CONSTANTS
  Jobs = {"age", "purge"}
  LongLookback = FALSE
  MaxSeg = 1
  MaxFaults = 1
  MaxRestarts = 1
  MaxGrooms = 1
  MaxRequests = 1
PROPERTY StoreHeals
CHECK_DEADLOCK FALSE
