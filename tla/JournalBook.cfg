\* Postings, reversals, unposts and closes of the journals of one period,
\* from two connections at once.
SPECIFICATION Spec
CONSTANTS
  maker = maker
  checker = checker
  m1 = m1
  m2 = m2
  r1 = r1
  r2 = r2
  p1 = p1
  p2 = p2
  Actors = {checker}
  Permissions <- SoloPermissions
  Journals = {m1, m2, r1, r2}
  Command <- BookCommands
  Periods = {p1, p2}
  Txns = {t1, t2}
  Keys = {k1, k2}
  MaxVersion = 0
  MaxNumber = 3
  MaxPeriodVersion = 3
SYMMETRY Symmetry
CHECK_DEADLOCK FALSE
INVARIANTS NumbersAccountedFor ReversalPinsBook
PROPERTIES ClosedBookNeverGrows ImplementsPostedBook
