SPECIFICATION Spec
CONSTANTS
  d1 = d1
  d2 = d2
  d3 = d3
  Dispatchers = {d1, d2, d3}
  Host <- OwnHost
  Role <- AllReview
  Stages <- Routes
  Endings <- ReviewEnds
  Marks = {"dev"}
  Picky = {}
  PlacedIn = "ready_for_tests"
  Conditional = FALSE
  MaxAttempts = 2
  Lossy = {"get"}
  Resent = {}
  Killable = FALSE
  Stoppable = TRUE
  Budget = 1
  MaxTime = 1
  StaleAfter = 2
  LogBound = 5
SYMMETRY Alike
CHECK_DEADLOCK FALSE
INVARIANTS OneWorkerPerRole
