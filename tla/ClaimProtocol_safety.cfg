SPECIFICATION FairSpec
CONSTANTS
  Dispatchers <- DevPair
  Host <- DevPairHost
  Role <- DevPairRole
  Stages <- Routes
  Endings <- DevEnds
  Marks = {"dev"}
  Picky = {}
  PlacedIn = "ready_for_tests"
  Conditional = TRUE
  MaxAttempts = 2
  Lossy = {"note", "cas", "get", "claim"}
  Resent = {"note", "claim"}
  Killable = TRUE
  Stoppable = TRUE
  Budget = 1
  MaxTime = 2
  StaleAfter = 0
  LogBound = 20
CHECK_DEADLOCK FALSE
INVARIANTS OneHolder BoardNamesTheHolder CeilingsAgree
PROPERTIES ImplementsHandOff AttemptsAreCounted
