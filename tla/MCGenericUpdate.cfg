CONSTANTS
  Keys <- TypeVars
  Values = {1, 2}
  TABLE_SIZE = 100
  STACK_SIZE = 2
  Hash <- CodeHash
  MaxInsertions = 4

SPECIFICATION MCGenericSpec

CHECK_DEADLOCK FALSE

PROPERTY InsertionIsVisible
