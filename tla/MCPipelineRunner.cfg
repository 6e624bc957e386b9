SPECIFICATION Spec
CONSTANTS
  KeyCount = 2
  RepeatCount = 2
CHECK_DEADLOCK FALSE
INVARIANT TypeOK
INVARIANT ExitZeroMeansAnswered
INVARIANT ResultStateExact
INVARIANT FailureCascade
INVARIANT ExitTwoMeansRefused
