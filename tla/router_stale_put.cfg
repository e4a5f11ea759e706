SPECIFICATION Spec
CONSTANTS
  A = A
  AB = AB
  f = f
  Name = {A, AB}
  File = {f}
  Escaped = {}
  Within <- MCWithin
  Menu <- OneMenu
  Call = {r1}
  Change <- OneChange
  MaxEntries = 2
  None = None
INVARIANTS NoStaleEntry
CHECK_DEADLOCK FALSE
