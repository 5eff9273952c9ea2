SPECIFICATION FairSpec
CONSTANTS
  first = first
  twin = twin
  other = other
  bad = bad
  Contents = {first, twin, other, bad}
  Good = {first, twin, other}
  Drawing <- Drawings
  Start = first
  Budgets <- Watched
CHECK_DEADLOCK FALSE
INVARIANTS ServedIsVerified PageTellsTheTruth
PROPERTIES Settles
