\* Two requests in flight on one order, one failure, one rep and one vendor.
SPECIFICATION Spec
CONSTANTS
  r1 = r1
  r2 = r2
  v1 = v1
  v2 = v2
  Reps = {r1}
  Vendors = {v1}
  None = None
  Kinds <- WashKinds
  ChosenVendor = v1
  BatchSize = 1
  Procs = {p1, p2}
  NoRequest = NoRequest
  Ops <- WashOps
  MaxFailures = 1
SYMMETRY ProcSymmetry
CHECK_DEADLOCK FALSE
PROPERTIES ResolvedStaysResolved
