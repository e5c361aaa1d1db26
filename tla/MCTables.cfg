CONSTANTS
  x = x
  y = y
  z = z
  Keys <- MCKeys
  Values = {1, 2}
  TABLE_SIZE = 2
  STACK_SIZE = 3
  Hash <- MCHash
  MaxEntries = 3

SPECIFICATION MCTablesSpec

CHECK_DEADLOCK FALSE

INVARIANTS
  TypeOK
  FreeFramesEmpty
  LookupIsInnermost
  TablesAgree

PROPERTIES
  ImplementsScopes
  CheckerImplementsScopes
