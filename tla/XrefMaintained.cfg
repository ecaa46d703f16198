SPECIFICATION FairSpec
CONSTANTS
  p1 = p1
  p2 = p2
  a = a
  b = b
  Proc = {p1, p2}
  NumRows = 2
  Value = {a, b}
  Empty = Empty
  NoRow = NoRow
  NoProc = NoProc
  Settings <- Disturbances
  MaxUpdates = 2
  MaxCrashes = 1
CHECK_DEADLOCK FALSE
INVARIANTS
  BuildsOnce
  IndexExact
  RowsFound
  RowCounts
PROPERTIES
  BuilderReturns
