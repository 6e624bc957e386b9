SPECIFICATION Spec
CONSTANTS
  Weights <- MCWeights
  Bound <- MCBound
  Repetitions = 2
  Requests <- MCRequests
CHECK_DEADLOCK FALSE
INVARIANT RepetitionsAgree
