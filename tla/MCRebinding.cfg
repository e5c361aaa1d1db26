CONSTANTS
  Programs <- Rebinding
  Names <- AllNames
  MaxCells = 60
  MaxEquations = 0
  MaxTeqList = 32

SPECIFICATION MCSpec

CHECK_DEADLOCK FALSE

INVARIANTS
  AcceptedIsWellTyped
