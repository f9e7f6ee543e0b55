SPECIFICATION Spec
CONSTANTS
  p1 = p1  p2 = p2  u1 = u1  u2 = u2  c1 = c1  c2 = c2  t1 = t1  t2 = t2  b1 = b1
  x1 = x1  f1 = f1  y1 = y1  y2 = y2  a1 = a1  a2 = a2  n1 = n1  n2 = n2  k1 = k1  w1 = w1  w2 = w2
  Agents = {x1}
  Referrals = {f1}
  CashPayouts = {y1, y2}
  RuleValues = {1, 2}
  Teams = {t1, t2}
  People = {u1, u2}
  CompanyIds = {c1, c2}
  Persons = {u1, u2}
  OwnerOf <- MCOwnerOf
  TierIds = {b1}
  Rules = {"lean"}
  Persona = {u1, u2}
  AddressIds = {a1, a2}
  Subjects = {u1}
  NoticeIds = {n1, n2}
  PolicyKeys = {k1}
  Readers = {u1}
  Texts = {"a", "b"}
  MaxVersions = 2
  Kinds = {"completed", "disputeRejected"}
  PostIds = {w1, w2}
  Drafts = {"a"}
  Slugs = {"x", "y"}
  Procs = {p1, p2}
  NoCall = NoCall
  MaxCalls = 6
  MaxDeaths = 1
SYMMETRY Symmetry
CHECK_DEADLOCK FALSE
INVARIANTS OneTeamOwner CompanyHasOwner ClosedAccountIsOut OneDefaultAddress NoticeTellsStanding ConsentResolves NobodyLeftOut ReadersFindReviewed
PROPERTIES RewardPaidOnce
