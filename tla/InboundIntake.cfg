\* One message of two attachments, two processes, retries and clearances.
SPECIFICATION FairSpec
CONSTANTS
  Attachments = {a1, a2}
  Workers = {w1, w2}
  NoOne = noone
  MaxRetries = 1
  MaxChanges = 1
CHECK_DEADLOCK FALSE
INVARIANTS TypeOK AttemptsWithinRetries 
PROPERTIES  EventuallySettled
