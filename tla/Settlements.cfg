\* Two open items, settled and voided from two connections at once, and
\* documents edited on versions somebody saw at some time.
SPECIFICATION Spec
CONSTANTS
  Documents = {d1, d2}
  Settlements = {s1, s2, s3, s4}
  Amounts <- Rounded
  Parts = {1, 2}
  Txns = {t1, t2}
  MaxVersion = 3
SYMMETRY Symmetry
CHECK_DEADLOCK FALSE
INVARIANTS TypeOK NeverOverApplied VoidedUnsettled SettledIsClean SumsOfLive
PROPERTIES NoStaleCarrying ImplementsPartyAccount ChainExtendsReviewed
