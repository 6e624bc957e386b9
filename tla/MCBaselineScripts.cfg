SPECIFICATION Spec
CONSTANTS
  Weights <- MCWeights
  Bound <- MCBound
  Nibbles = 2
  Rounds = 2
  Permutation <- MCPermutation
  Process = {"p1", "p2"}
  Scripts <- MCScripts
  Requests <- MCRequests
  Printed <- MCPrinted
  Expectations <- MCExpectations
CHECK_DEADLOCK FALSE
INVARIANT VerdictExact
INVARIANT ReferencesResolve
INVARIANT RegressionPassIsEarned
PROPERTY RunsAreControlled
