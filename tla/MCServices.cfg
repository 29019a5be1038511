SPECIFICATION ServicesSpec
CONSTANTS
  h1 = h1
  e1 = e1
  e2 = e2
  e3 = e3
  k1 = k1
  Workers = {w1, w2}
  Loops = {w1, w2}
  Handlers = {h1, h2}
  Days <- MCDays
  SubDays = 2
  Scenarios <- MCScenarios
  LockBudgets <- MCLockBudgets
  SyncBudgets <- MCSyncBudgets
  Recorders = {p1, p2}
  Sessions = {s1}
  Events = {e1, e2, e3}
  Timings <- MCTimings
  Page = 2
  AuditBudgets <- MCAuditBudgets
  Scans = {a1, a2}
  Requests = {q1, q2}
  Polls = {r1}
  Rows = {x1, x2, x3}
  ScanBudgets <- MCScanBudgets
  Sites = {k1, k2}
  Savers = {b1}
  Wishes <- MCWishes
  AnalyticsBudgets <- MCAnalyticsBudgets
  Servers = {1, 2}
  Capabilities = {"see", "manage"}
  Withdrawn = {"gone"}
  Defaults = {"see"}
  KeptFor = 2
  PolicyBudgets <- MCPolicyBudgets
  Keys = {"dwell", "line", "park", "gone"}
  Builds <- MCBuilds
  LineType = "line"
  DayLength = 4
  Weekdays = {0, 1}
  Dates <- MCDates
  Calendars <- MCCalendars
  Syncers = {"i", "j"}
  AiBudgets <- MCAiBudgets
  Sensors = {"a", "b"}
  Designs = {1, 2}
  Dirs <- MCDirs
  DsBudgets <- MCDsBudgets
CHECK_DEADLOCK FALSE
INVARIANTS ServicesTypeOK OneLoop RecordersAsAsked AccessAccounted AnalysisFits
PROPERTIES DiscoveryHolds ServicesRecover
