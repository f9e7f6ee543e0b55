SPECIFICATION FairSpec
CONSTANTS
  c1 = c1  c2 = c2  u1 = u1  u2 = u2  p1 = p1  p2 = p2  w1 = w1
  VaultIds = {1, 2, 3}
  InitialVaults <- MCInitialVaults
  VaultSizes = {2, 3}
  NextVault <- MCNextVault
  AutoThreshold = 1
  Workers = {w1}
  NoJob = NoJob
  AdminOps = {}
  MaxVaultOps = 0
  Cards = {c1}
  Users = {u1, u2}
  Employees = {u1}
  Usages = {2}
  Value = 1
  TopUp = 2
  Procs = {p1, p2}
  NoCall = NoCall
  MaxCalls = 5
  MaxDeaths = 1
CHECK_DEADLOCK FALSE
INVARIANTS PaysOutWhatWasPaid CompanyBooks
PROPERTIES ClaimsAreCredited
