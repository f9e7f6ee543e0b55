SPECIFICATION Spec
CONSTANTS
  r1 = r1  r2 = r2  d1 = d1  d2 = d2  o1 = o1  l1 = l1  l2 = l2  l3 = l3
  v1 = v1  i1 = i1  i2 = i2  s1 = s1  s2 = s2  g1 = g1  g2 = g2  p1 = p1  p2 = p2
  RepIds = {r1, r2}
  OrderPay = 2
  BonusPercent = {0, 50}
  PayoutIds = {1}
  DeductionIds = {2}
  Amount = 1
  Earning = 2
  Overlaps = TRUE
  DisputeIds = {d1, d2}
  OrderIds = {o1}
  RefundWP = 1
  Legs = {l1, l2, l3}
  Fees <- MCFees
  Vendors = {v1}
  Items = {i1, i2}
  Prices = {1, 2}
  Sheets = {s1, s2}
  MaxNow = 2
  CatalogueItems = {g1, g2}
  Everyday = {g1}
  Asked <- MCAsked
  Rates = {1, 2}
  Capacities = {2, 3}
  Promos = {10}
  Quantities <- MCQuantities
  ChargePercent = 10
  ChargeFlat = 5
  IroningPercent = 20
  PricePercentile = 70
  Procs = {p1, p2}
  NoCall = NoCall
  MaxCalls = 6
  MaxDeaths = 1
SYMMETRY Symmetry
CHECK_DEADLOCK FALSE
INVARIANTS AvailableIsActive EveryPointInOneCycle WalletBooks ChargedForWhatHappened RefundedAsRecorded LegMoneyAddsUp StandingIsRight QuotesAreCurrent
PROPERTIES TransferIsBacked LivePriceIsLocked
