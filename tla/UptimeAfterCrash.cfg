SPECIFICATION WatchSpec
CONSTANTS
  Threshold = 2
  RelayBudgets <- MCRelayBudgets
  Horizon = 5
  Grace = 1
  HistoryKept = 2
  UptimeBudgets <- MCUptimeBudgets
  Players = {"p", "q", "r"}
  Slots = 1
  MaxVersion = 2
  MaxLocks = 3
  PlayBudgets <- MCPlayBudgets
  Now = 5
  SegmentSeconds = 2
  MinGap = 1
  Reels <- MCReels
  Disk = 6
  CritFree = 1
  WarnFree = 2
  Reserve = 2
  LevelBudgets <- MCLevelBudgets
  Corpora <- MCCorpora
  Inquiries <- MCInquiries
  Factor = 2
  MaxFetch = 4
  Sample = 1
  Margin = 1
  Steps <- MCSteps
  OldestAge = 4
  Ever = 9
  Chunk = 2
  FreshMargin = 1
  Registries <- MCRegistries
  Hits <- MCHits
  Askings <- MCAskings
  Overfetch = 2
  Holdings <- MCHoldings
  Menus <- MCMenus
  SubBudgets <- MCSubBudgets
  Viewers = {1, 2}
  PassLimit = 2
  WaitTime = 1
  LockTime = 5
  CacheTime = 2
  ShotBudgets <- MCShotBudgets
INVARIANT UnmonitoredNeverUp
CHECK_DEADLOCK FALSE
