\* One order, requests that fail twice, crons under fairness.
SPECIFICATION FairSpec
CONSTANTS
  o1 = o1
  o2 = o2
  alice = alice
  Orders = {o1}
  Customers = {alice}
  Procs = {p1}
  NoRequest = NoRequest
  Owner <- OwnerValue
  TotalWP <- PriceValue
  RepShareWP <- RepValue
  TransportWP <- TransportValue
  Chosen = {o1}
  VendorShares <- One
  InitialBalance <- Balance3
  TopUpWP = 1
  Ops <- AllOps
  MaxFailures = 2
  MaxTopUps = 1
  MaxRows = 3

CHECK_DEADLOCK FALSE
PROPERTIES NoOrderIsStranded UncollectedIsSettled
