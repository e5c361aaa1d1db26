SPECIFICATION Spec
CONSTANTS
  Inputs <- MCEqualities
  EqualityOperands = 4
CHECK_DEADLOCK FALSE
INVARIANT EqualityIsBelowSums
