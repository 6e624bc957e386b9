SPECIFICATION Spec
CONSTANTS
  Weights <- MCWeights
  Bound <- MCBound
  Repetitions = 2
  Requests <- MCRequests
CHECK_DEADLOCK FALSE
INVARIANT TypeOK
INVARIANT LabelIsEarned
INVARIANT OwnResultIsAccepted
INVARIANT ReportIsVerified
PROPERTY Ends
