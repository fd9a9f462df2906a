CONSTANT Letters = 4
SPECIFICATION Spec
INVARIANT Alternates
CHECK_DEADLOCK FALSE
