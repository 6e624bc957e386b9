SPECIFICATION Spec
CONSTANTS
  KeyCount = 3
  PerKeyLimit = 2
  TotalLimit = 4
  CompileGuard = 2
  PrepBound = 5
  Slack = 1
  MaxEdits = 1
CHECK_DEADLOCK FALSE
INVARIANT TypeOK
INVARIANT WallTimeBounded
INVARIANT BudgetFlagExact
INVARIANT OnlyPinnedProgramRuns
PROPERTY BatchSafe
PROPERTY BatchReturns
