SPECIFICATION FairSpec
CONSTANTS
  p1 = p1  p2 = p2
  PayoutIds = {1}
  DeductionIds = {2}
  Amount = 1
  Earning = 2
  Overlaps = FALSE
  Procs = {p1}
  NoCall = NoCall
  MaxCalls = 3
  MaxDeaths = 0
PROPERTIES QueuedCompletes
CHECK_DEADLOCK FALSE
