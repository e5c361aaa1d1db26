CONSTANT Programs <- TwoLines

SPECIFICATION Spec

CHECK_DEADLOCK FALSE

INVARIANTS
  LinesShareGlobals
