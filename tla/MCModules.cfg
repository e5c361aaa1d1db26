SPECIFICATION Spec
CONSTANTS
  Programs <- AllSessions
  MaxDepth = 4
INVARIANTS
  TypeOK
  OverflowIsCyclic
  RejectedForLaterErrors
  NamesOfModules
  MembersReadTheirModule
  ImportsFailForCause
PROPERTIES
  LoadedOnce
CHECK_DEADLOCK FALSE
