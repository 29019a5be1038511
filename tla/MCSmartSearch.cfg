SPECIFICATION SearchSpec
CONSTANTS
  p1 = p1
  v1 = v1
  f2 = f2
  p2 = p2
  Obs = {p1, v1, f2, p2}
  TimeOf <- MCTimeOf
  DomainOf <- MCDomainOf
  Domains <- MCDomains
  FrameDomains = {"person", "vehicle"}
  SweptDomains = {"person", "vehicle"}
  Registrars = {r1, r2}
  OrphanEvery = 2
  CoverageEvery = 1
  Budgets <- MCBudgets
  Clients = {c1, c2}
  Slugs = {k1, k2}
  PoolBudgets <- MCPoolBudgets
CHECK_DEADLOCK FALSE
INVARIANTS SearchTypeOK RowsKeepImages DeadlineKept EngineCurrent
PROPERTIES SweepsWithCare ImplementsStore NothingLeft CamerasServed
