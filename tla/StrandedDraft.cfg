\* A draft created while its period closes.
SPECIFICATION Spec
CONSTANTS
  maker = maker
  checker = checker
  m1 = m1
  m2 = m2
  r1 = r1
  r2 = r2
  p1 = p1
  p2 = p2
  Actors = {checker}
  Permissions <- SoloPermissions
  Journals = {m1}
  Command <- SoloJournal
  Periods = {p1}
  Txns = {t1, t2}
  Keys = {k1}
  MaxVersion = 1
  MaxNumber = 2
  MaxPeriodVersion = 3
CHECK_DEADLOCK FALSE
INVARIANT ClosedPeriodHasNothingPending
