SPECIFICATION Spec
CONSTANT Width = 3
CHECK_DEADLOCK FALSE
INVARIANT CountIsTrue
