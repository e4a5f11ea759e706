SPECIFICATION Spec
CONSTANTS
  A = A
  AB = AB
  f = f
  Name = {A, AB}
  File = {f}
  Escaped = {}
  Within <- MCWithin
  Menu <- MCMenu
  Call = {r1, r2, r3}
  Change <- MCChange
  MaxEntries = 2
  None = None
SYMMETRY Sym
INVARIANTS TypeOK StaleOnlyFromOverlap RecencyOrder
PROPERTIES EvictsOldest
CHECK_DEADLOCK FALSE
