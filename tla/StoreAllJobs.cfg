SPECIFICATION Spec
CONSTANTS
  Jobs = {"erase", "cap", "floor", "age", "purge"}
  LongLookback = TRUE
  MaxSeg = 1
  MaxFaults = 1
  MaxRestarts = 1
  MaxGrooms = 1
  MaxRequests = 2
INVARIANTS
  ErasedFilesStayGone
PROPERTY RowLeavesAfterFile
CHECK_DEADLOCK FALSE
