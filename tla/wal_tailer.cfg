SPECIFICATION Spec
CONSTANTS
  Tailer = {t1, t2}
  MaxLine = 3
  Junk = {2}
  MaxFile = 2
  MaxTruncate = 1
  MaxFailure = 1
  Kinds = {TRUE, FALSE}
  Orderly = TRUE
INVARIANTS TypeOK NothingSkipped
PROPERTIES FeedSpec CatchesUp
CHECK_DEADLOCK FALSE
