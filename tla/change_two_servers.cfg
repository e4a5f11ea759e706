SPECIFICATION Spec
CONSTANTS
  Server = {s1, s2}
  Cli = {}
  Change = {c1, c2}
  NoOne = NoOne
  p1 = p1
  p2 = p2
  x1 = x1
  x2 = x2
  Path = {p1, p2}
  Symbol = {x1, x2}
  PathOf <- MCPathOf
  InitLive = {x1}
  InitChunks = {x1}
  Menu <- MCMenu
  Faults = {}
  MaxCrash = 0
  MaxHold = 0
  MaxPass = 0
INVARIANTS NoStrandedChange
CHECK_DEADLOCK FALSE
