\* Two orders of one wallet, one request at a time, every operation.
SPECIFICATION Spec
CONSTANTS
  o1 = o1
  o2 = o2
  alice = alice
  Orders = {o1, o2}
  Customers = {alice}
  Procs = {p1}
  NoRequest = NoRequest
  Owner <- OwnerValue
  TotalWP <- PriceValue
  RepShareWP <- RepValue
  TransportWP <- TransportValue
  Chosen = {o2}
  VendorShares <- ZeroOrOne
  InitialBalance <- Balance4
  TopUpWP = 2
  Ops <- AllOps
  MaxFailures = 0
  MaxTopUps = 1
  MaxRows = 1
CHECK_DEADLOCK FALSE
INVARIANTS Reconciled
PROPERTIES StatusMachine ImplementsContract
