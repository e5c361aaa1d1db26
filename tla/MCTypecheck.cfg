CONSTANTS
  Programs <- AllPrograms
  Names <- AllNames
  MaxCells = 60
  MaxEquations = 3
  MaxTeqList = 3

SPECIFICATION MCSpec

CHECK_DEADLOCK FALSE

INVARIANTS
  TypeOK
  RejectedIsIllTyped
  AcceptedIsSolved
  ArithmeticWidens
  UndefinedHasCause
  CallsFit
  PartsHaveTheirTypes
  Acyclic

PROPERTIES
  Returns
  KnownTypesAreKept
