\* Two orders of one wallet confirmed at the same time.
SPECIFICATION Spec
CONSTANTS
  o1 = o1
  o2 = o2
  alice = alice
  Orders = {o1, o2}
  Customers = {alice}
  Procs = {p1, p2}
  NoRequest = NoRequest
  Owner <- OwnerValue
  TotalWP <- PriceValue
  RepShareWP <- RepValue
  TransportWP <- TransportValue
  Chosen = {}
  VendorShares <- One
  InitialBalance <- Balance6
  TopUpWP = 1
  Ops <- PayOps
  MaxFailures = 0
  MaxTopUps = 1
  MaxRows = 1
SYMMETRY ProcSymmetry
INVARIANTS BalanceIsLedger
CHECK_DEADLOCK FALSE
