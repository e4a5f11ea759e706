SPECIFICATION LocalSpec
CONSTANTS
  Path = {p1}
  Segment = {A, B, f}
  Drawer = {d1, d2}
  Chunk = {c1}
  p1 = p1
  A = A
  B = B
  f = f
  d1 = d1
  d2 = d2
  c1 = c1
  Server = {s1, s2}
  Request = {r1, r2}
  NoOne = NoOne
  MenuOfRun = "lock"
  Menu <- MCMenu
  Faults = {"crash", "cancel"}
  InitDb <- MCInitDb
  InitCode <- MCInitCode
  InitDrawers <- MCInitDrawers
INVARIANTS FailedMeansNotApplied
PROPERTIES OnlyUpstreamDelays
CHECK_DEADLOCK FALSE
