CONSTANTS
  Settings <- Departments
  MaxFailures = 1
SPECIFICATION FairPlanSpec
CHECK_DEADLOCK FALSE
INVARIANTS EachAskedOnce BuiltInTurn
PROPERTIES EverythingSettles
