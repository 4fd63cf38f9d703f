\* One attempt, two commands, processes and people, two retries.
SPECIFICATION Spec
SYMMETRY Symmetry
CONSTANTS
  Attempts = {a1}
  Commands = {x, y}
  Processes = {p1, p2}
  People = {e1, e2}
  MaxRetries = 2
  MaxVersion = 3
  None = none
CHECK_DEADLOCK FALSE
INVARIANTS TypeOK OneMessagePerKey OutcomeOfEvents
PROPERTIES ReenabledAsSeen
