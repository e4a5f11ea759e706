SPECIFICATION FairSpec
CONSTANTS
  Server = {s1}
  Cli = {cli}
  Change = {c1, c2}
  NoOne = NoOne
  p1 = p1
  p2 = p2
  x1 = x1
  x2 = x2
  Path = {p1, p2}
  Symbol = {x1, x2}
  PathOf <- MCPathOf
  InitLive = {x1}
  InitChunks = {x1}
  Menu <- MCMenu
  Faults = {"cancel", "refused"}
  MaxCrash = 1
  MaxHold = 1
  MaxPass = 1
INVARIANTS TypeOK NoStrandedChange ReindexedMeansSwept TombstonedOnce RecordedUnlessHeld
PROPERTIES ChangesAreSwept
CHECK_DEADLOCK FALSE
