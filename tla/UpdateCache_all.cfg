SPECIFICATION Spec
CONSTANTS
  old = old
  new = new
  fix = fix
  c1 = c1
  c2 = c2
  a1 = a1
  Release = {old, new, fix}
  Newer = {new, fix}
  Capacity = 15
  SuccessDelays <- Delays
  FirstDelay = 1
  LaterDelay = 2
  Horizon = 2
  Checkers = {c1, c2}
  Ackers = {a1}
  MaxGen = 3
  MaxTime = 1
  Scenes <- Both
  MaxTurns = 2
  MaxRounds = 0
CHECK_DEADLOCK FALSE
SYMMETRY Alike
INVARIANTS OneFetchWhenDue LoneRunGetsThrough NoticesCanBeAnswered
PROPERTIES ImplementsBoard LiveClaimStays
