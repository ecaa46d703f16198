SPECIFICATION FairSpec
CONSTANTS
  p1 = p1
  p2 = p2
  p3 = p3
  f1 = f1
  f2 = f2
  x1 = x1
  Proc = {p1, p2}
  Plan = {f1, f2}
  Xref = {x1}
  XrefSeq <- OneBad
  BadPlans = {f2}
  NumBlocks = 2
  NumColumns = 2
  NumFields = 2
  LockExpires = FALSE
  MaxQueries = 2
  MaxCrashes = 1
  NoProc = NoProc
CHECK_DEADLOCK FALSE
INVARIANTS
  TypeOK
  PlanFileComplete
PROPERTIES
  PlanFileImmutable
  StatementEnds
  Implements
