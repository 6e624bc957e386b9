SPECIFICATION Spec
CONSTANTS
  KeyCount = 2
  PerKeyLimit = 2
  TotalLimit = 4
  CompileGuard = 2
  PrepBound = 1
  Slack = 0
  MaxEdits = 1
CHECK_DEADLOCK FALSE
INVARIANT OnlyPinnedTrailAnswers
