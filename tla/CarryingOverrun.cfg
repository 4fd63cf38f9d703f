\* One item whose partial settlements round up.
SPECIFICATION Spec
CONSTANTS
  Documents = {d1}
  Settlements = {s1, s2, s3}
  Amounts <- Halves
  Parts = {1, 2, 3}
  Txns = {t1}
  MaxVersion = 2
CHECK_DEADLOCK FALSE
INVARIANT CarryingWithinOriginal
