SPECIFICATION Spec
CONSTANTS
  decision = decision
  pattern = pattern
  None = None
  Order <- MCOrder
  Listings <- MCListings
  Short <- MCShort
  Probe <- MCProbe
  Call = {r}
  MaxTrouble = 1
  RankConstant = 60
  MaxLength = 3
  Whole = 238266
  LastPath = 1
  Chunk <- MCChunk
  Overview <- MCOverview
  Row <- MCRow
  Results <- MCResults
  FactLists <- MCFactLists
  Entity = decision
  Limits <- MCLimits
  FuseLimit = 4
  Menu <- MCMenu
INVARIANTS TypeOK ChildrenOwned HealthReflectsCall VerdictIsTheCheckers FusedInterleaves WhereComplete SymbolEncloses
CHECK_DEADLOCK FALSE
PROPERTIES OnlyHungDelays
