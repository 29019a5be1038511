SPECIFICATION Spec
CONSTANTS
  Slots = 2
  OneCaller = TRUE
  MaxWorkers = 2
  MaxRings = 3
  MaxSeq = 3
  MaxQueue = 1
  MaxCrashes = 1
INVARIANTS
  LiveRing
  FilesOwned
  RefusedOnlyWhenGone
  DeliveredAsNoticed
CHECK_DEADLOCK FALSE
