SPECIFICATION Spec
CONSTANTS
  aa = aa
  bb = bb
  x = x
  y = y
  l1 = l1
  l2 = l2
  k1 = k1
  k2 = k2
  r1 = r1
  r2 = r2
  c1 = c1
  c2 = c2
  Null = Null
  Accounts <- MCAccounts
  Fed <- MCFed
  Observations <- MCObservations
  Imported <- MCImported
  AccountOf <- MCAccountOf
  Shown <- MCShown
  Lines <- MCLines
  LinePeriod <- MCLinePeriod
  LineAmount <- MCLineAmount
  CashLines <- MCCashLines
  Sessions <- MCSessions
  Periods = {1, 2}
  Amounts = {1, 2}
  Keys = {k1, k2}
  Runs = {r1, r2}
  Clients = {c1, c2}
SYMMETRY Symmetry
CHECK_DEADLOCK FALSE
INVARIANTS TypeOK WithinEvidence Chained  FinalizedExplained InBankOrder
PROPERTIES CurrentAtFinalization 
