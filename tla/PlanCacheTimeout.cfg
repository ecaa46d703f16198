SPECIFICATION Spec
CONSTANTS
  p1 = p1
  p2 = p2
  p3 = p3
  f1 = f1
  f2 = f2
  x1 = x1
  Proc = {p1, p2, p3}
  Plan = {f1, f2}
  Xref = {x1}
  XrefSeq <- SharedXref
  BadPlans = {}
  NumBlocks = 2
  NumColumns = 1
  NumFields = 2
  LockExpires = TRUE
  MaxQueries = 1
  MaxCrashes = 0
  NoProc = NoProc
SYMMETRY Symmetry
CHECK_DEADLOCK FALSE
INVARIANTS
  PlanFileHealed
  XrefFileHealed
  MetadataPending
