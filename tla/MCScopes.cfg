SPECIFICATION Spec
CONSTANTS
  Statement <- MCStatement
  Programs <- MCPrograms
  Files <- MCFiles
  Builtins <- MCBuiltins
  MaxDepth = 12
CHECK_DEADLOCK FALSE
INVARIANTS
  TypeOK
  BuildReady
  ArgumentsMeant
  LabelsPlaced
PROPERTIES
  SetSeen
  Finishes
