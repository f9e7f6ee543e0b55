\* One request at a time, batches of one or two, every operation, crons under fairness.
SPECIFICATION FairSpec
CONSTANTS
  r1 = r1
  r2 = r2
  v1 = v1
  v2 = v2
  Reps = {r1, r2}
  Vendors = {v1, v2}
  None = None
  Kinds <- AllKinds
  ChosenVendor = v1
  BatchSize = 2
  Procs = {p1}
  NoRequest = NoRequest
  Ops <- AllOps
  MaxFailures = 0
CHECK_DEADLOCK FALSE
INVARIANTS OffersFollowOrder
PROPERTIES AssignmentProceeds OffersAreResolved
