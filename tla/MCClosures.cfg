CONSTANT Programs <- Closures

SPECIFICATION Spec

CHECK_DEADLOCK FALSE

INVARIANTS
  ClosuresReadTheirVariables
