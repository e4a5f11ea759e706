SPECIFICATION Spec
CONSTANTS
  Tailer = {t1}
  MaxLine = 3
  Junk = {}
  MaxFile = 2
  MaxTruncate = 0
  MaxFailure = 0
  Kinds = {TRUE}
  Orderly = FALSE
INVARIANTS NothingSkipped
CHECK_DEADLOCK FALSE
