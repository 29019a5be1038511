SPECIFICATION PathSpec
CONSTANTS
  front = front
  back = back
  r1 = r1
  r2 = r2
  c1 = c1
  c2 = c2
  Slots = 2
  MaxSeq = 5
  Parts <- MCParts
  Readers <- MCReaders
  MaxEntries = 2
  MaxIncidents = 2
  Widths <- MCWidths
  MotionBudgets <- MCMotionBudgets
  Wide = 6
  Tall = 3
  Grain = 10
  Views <- MCViews
  Sort <- MCSort
  MaxRegions = 2
  Padding = 15
  FullFrame = 50
  SceneChange = 55
  Nested = 90
  Waiting = 1
  GateBudgets <- MCGateBudgets
  MaxTracks = 2
  MaxIds = 4
  MaxAge = 2
  MinInterval = 2
  Gaps <- MCGaps
  FrameQueue = 1
  ObservationQueue = 1
  TrackBudgets <- MCTrackBudgets
  Things = {1, 2, 3, 4}
  MaxIssued = 4
  TrackAge = 2
  ConfirmAfter = 3
  Duration = 2
  Cooldown = 3
  ResetAfter = 1
  Groups <- MCGroups
  ActivityBudgets <- MCActivityBudgets
  Reporters <- MCReporters
  OutboxSize = 2
  BatchSize = 2
  Retentions = {1, 3}
  PageSize = 1
  Bucket = 2
  ClockOffset = 1
  Buckets = 2
  EventBudgets <- MCEventBudgets
INVARIANTS
  PathTypeOK
  NoTornRead
  RefusedOnlyWhenOverwritten
  MotionTold
  SightsTold
  LossesOwned
  ActivitiesTold
PROPERTIES
  ImplementsFeed
  IdentityHolds
  PathMoves
CHECK_DEADLOCK FALSE
