SPECIFICATION Spec
CONSTANTS
  Inputs <- MCInputs
  EqualityOperands = 7
CHECK_DEADLOCK FALSE
INVARIANTS
  TypeOK
  TokensTileTheText
  TokensAreLongest
  OverrunsHaveCause
  WrittenIsRead
  NothingIsLost
  UndefinedHasCause
PROPERTY Returns
