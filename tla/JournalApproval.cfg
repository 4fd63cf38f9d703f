\* One journal through the whole workflow: three submissions, stale and
\* repeated commands, self-approval, unposting and a period that closes.
SPECIFICATION Spec
CONSTANTS
  maker = maker
  checker = checker
  m1 = m1
  m2 = m2
  r1 = r1
  r2 = r2
  p1 = p1
  p2 = p2
  Actors = {maker, checker}
  Permissions <- PairPermissions
  Journals = {m1}
  Command <- OneJournal
  Periods = {p1}
  Txns = {t1}
  Keys = {k1, k2}
  MaxVersion = 3
  MaxNumber = 2
  MaxPeriodVersion = 5
SYMMETRY Symmetry
CHECK_DEADLOCK FALSE
INVARIANTS TypeOK FourEyes OneOutcomePerVersion ReviewKeepsPeriodOpen
