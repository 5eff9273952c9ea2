SPECIFICATION FairSpec
CONSTANTS
  Attempts <- AllAttempts
  Files = {"a", "b"}
  Texts = {1, 2}
  MaxTurns = 4
  MaxTotalIterations = 7
  MaxConsecutiveReads = 3
  MaxDeadRefusals = 3
  MaxParseFailures = 2
  AgentResetTurns = 3
  MaxAgentResets = 1
  MaxUndoDepth = 2
  MinSpecBrokenTries = 2
  MaxTestEditRefusals = 2
  MaxRefereeAsks = 2
  MaxSpecRepairs = 2
CHECK_DEADLOCK FALSE
INVARIANTS NothingWrittenIsLost BooksBalance
PROPERTIES AttemptEnds
