\* An abandonment dies half-way and the next sweep settles it again.
SPECIFICATION Spec
CONSTANTS
  o1 = o1
  o2 = o2
  alice = alice
  Orders = {o1}
  Customers = {alice}
  Procs = {p1}
  NoRequest = NoRequest
  Owner <- OwnerValue
  TotalWP <- PriceValue
  RepShareWP <- RepValue
  TransportWP <- TransportValue
  Chosen = {o1}
  VendorShares <- One
  InitialBalance <- Balance3
  TopUpWP = 1
  Ops <- AbandonOps
  MaxFailures = 1
  MaxTopUps = 1
  MaxRows = 2
INVARIANTS VendorPaidOnce
CHECK_DEADLOCK FALSE
