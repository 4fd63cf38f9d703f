\* Mail that is retried while no document storage has been selected.
SPECIFICATION Spec
CONSTANTS
  Attachments = {a1, a2}
  Workers = {w1, w2}
  NoOne = noone
  MaxRetries = 2
  MaxChanges = 1
SYMMETRY Symmetry
CHECK_DEADLOCK FALSE
INVARIANTS UnconfiguredStaysPending
