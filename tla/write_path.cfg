SPECIFICATION Spec
CONSTANTS
  Path = {p1}
  Segment = {A, B, f}
  Drawer = {d1}
  Chunk = {c1}
  p1 = p1
  A = A
  B = B
  f = f
  d1 = d1
  d2 = d2
  c1 = c1
  Server = {s1, s2}
  Request = {r1, r2, r3}
  NoOne = NoOne
  MenuOfRun = "full"
  Menu <- MCMenu
  Faults <- AllFaultsButLookup
  InitDb <- MCInitDb
  InitCode <- MCInitCode
  InitDrawers <- MCInitDrawers
SYMMETRY Sym
INVARIANTS TypeOK UniqueLiveIdentity LedgerMatchesIdentity CommittedOnlyIfApplied AnnouncedOnlyIfCommitted CommittedIsAnnounced AckedAnchorKept AnchoredAsAsked PurgesTraced
PROPERTIES LedgerAppendOnly PurgeOnlyMissed ImplementsLinkLayer
CHECK_DEADLOCK FALSE
