SPECIFICATION Spec
CONSTANTS
  Inputs <- MCComments
  EqualityOperands = 7
CHECK_DEADLOCK FALSE
INVARIANT CommentsAreSkipped
