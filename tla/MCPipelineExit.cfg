SPECIFICATION Spec
CONSTANTS
  KeyCount = 2
  RepeatCount = 2
CHECK_DEADLOCK FALSE
INVARIANT ExitOneIsReported
