CONSTANTS
  Options <- Departments
  Entries <- Everything
  MaxAttempts = 2
  MaxReturns = 1
  MaxSpecRepairs = 1
  Budget = 1
SPECIFICATION Spec
CHECK_DEADLOCK FALSE
INVARIANTS GatesHold QueuedIsTakeable
PROPERTIES ComesToRest
