SPECIFICATION Spec
CONSTANTS
  Rows = {0, 1}
  Values = {1, 2}
  Tables <- MCTables
  Requests <- MCRequests
  MaxCache = 1
  MaxCommands = 3
  MaxFaults = 1
INVARIANTS AnswersExact NothingLost
PROPERTIES AllAnswered
CHECK_DEADLOCK FALSE
