SPECIFICATION VenueSpec
CONSTANTS
  m1 = m1
  m2 = m2
  m3 = m3
  d1 = d1
  d2 = d2
  a1 = a1
  a2 = a2
  Matches <- TwoMatches
  Desks <- TwoDesks
  Hours = 2
  MaxEdits = 2
  MaxTokens = 2
  MaxFaults = 2
  MaxTurns = 1
  Pool <- RowPool
  MaxRows = 10
  NULL = NULL
  u1 = u1
  u2 = u2
  f1 = f1
  n1 = n1
  g1 = g1
  g2 = g2
  p1 = p1
  p2 = p2
  v1 = v1
  s1 = s1
  j1 = j1
  t1 = t1
  h1 = h1
  h2 = h2
INVARIANTS TimesOrdered DoubleBookingIsExplained MigrationsApply SchemaIsTheModels OneMatch
PROPERTIES CameraSettles DeletionTakesExactly
CHECK_DEADLOCK FALSE
