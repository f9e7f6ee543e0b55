SPECIFICATION FairSpec
CONSTANTS
  t1 = t1  t2 = t2  l1 = l1  customer = customer  company = company
  p1 = p1  p2 = p2  w1 = w1
  VaultIds = {1, 2}
  InitialVaults <- MCInitialVaults
  VaultSizes = {1, 2}
  NextVault <- MCNextVault
  AutoThreshold <- MCNoThreshold
  Workers = {w1}
  NoJob = NoJob
  AdminOps = {"setDefault", "deactivate", "create"}
  MaxVaultOps = 1
  Txs = {t1}
  Accounts = {customer}
  Links = {l1}
  Customer <- MCCustomer
  WP = 1
  OrderWP = 1
  Procs = {p1, p2}
  NoLink = NoLink
  NoRequest = NoRequest
  MaxFailures = 1
CHECK_DEADLOCK FALSE
INVARIANTS WithinCapacity NoCreditUnpaid SpentLinkOrderPaid
PROPERTIES ImplementsTopUp PaidIsCredited
