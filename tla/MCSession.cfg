CONSTANT Programs <- AllSessions

SPECIFICATION Spec

CHECK_DEADLOCK FALSE

INVARIANTS
  TypeOK
  ScopesAreLeft
  ReadsWhatWasMeant
  UndefinedHasCause
  NoDanglingFunctions

PROPERTIES
  GlobalsAreKept
