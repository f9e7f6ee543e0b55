\* One order, two requests in flight, every operation, one failure; the wallet
\* covers the price only after a top-up.
SPECIFICATION Spec
CONSTANTS
  o1 = o1
  o2 = o2
  alice = alice
  Orders = {o1}
  Customers = {alice}
  Procs = {p1, p2}
  NoRequest = NoRequest
  Owner <- OwnerValue
  TotalWP <- PriceValue
  RepShareWP <- RepValue
  TransportWP <- TransportValue
  Chosen = {o1}
  VendorShares <- One
  InitialBalance <- Balance2
  TopUpWP = 1
  Ops <- AllOps
  MaxFailures = 1
  MaxTopUps = 1
  MaxRows = 1
SYMMETRY ProcSymmetry
CHECK_DEADLOCK FALSE
INVARIANTS ChargedOnce MoneyOutNeedsMoneyIn SettledIsPaid
