SPECIFICATION Spec
CONSTANTS
  Path = {p1}
  Segment = {A, B, f}
  Drawer = {d1, d2}
  Chunk = {c1}
  p1 = p1
  A = A
  B = B
  f = f
  d1 = d1
  d2 = d2
  c1 = c1
  Server = {s1, s2}
  Request = {r1, r2}
  NoOne = NoOne
  MenuOfRun = "full"
  Menu <- MCMenu
  Faults = {"lookup"}
  InitDb <- MCInitDb
  InitCode <- MCInitCode
  InitDrawers <- MCInitDrawers
PROPERTIES PurgeOnlyDangling
CHECK_DEADLOCK FALSE
