SPECIFICATION Spec
CONSTANTS
  RepeatCount = 2
  SubcubeSize = 2
  PerSampleLimit = 2
  TotalLimit = 3
  CompileGuard = 2
  PrepBound = 3
  Slack = 1
  MaxEdits = 1
CHECK_DEADLOCK FALSE
PROPERTY BudgetExhaustedIsUnstarted
