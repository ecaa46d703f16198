SPECIFICATION Spec
CONSTANTS
  p1 = p1
  p2 = p2
  a = a
  b = b
  Proc = {p1, p2}
  NumRows = 2
  Value = {a, b}
  Empty = Empty
  NoRow = NoRow
  NoProc = NoProc
  Settings = {{"overlap"}}
  MaxUpdates = 2
  MaxCrashes = 0
CHECK_DEADLOCK FALSE
INVARIANTS
  AlwaysFound
