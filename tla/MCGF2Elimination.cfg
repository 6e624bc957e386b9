SPECIFICATION Spec
CONSTANTS
  VariableCount = 3
  EquationCount = 3
  MaxFixedOnes = 1
CHECK_DEADLOCK FALSE
INVARIANT TypeOK
INVARIANT SolutionsPreserved
INVARIANT ReducedSoFar
INVARIANT RejectedIffUnsolvable
INVARIANT CanonicalForm
INVARIANT NullityCountsSolutions
