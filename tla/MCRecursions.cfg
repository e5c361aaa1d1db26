CONSTANT Programs <- Recursions

SPECIFICATION Spec

CHECK_DEADLOCK FALSE

INVARIANTS
  RecursionIsGenerated
