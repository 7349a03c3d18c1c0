SPECIFICATION Spec
CONSTANTS
  Statement <- HygienicStatement
  Programs <- HygienicPrograms
  Files <- HygienicFiles
  Builtins <- MCBuiltins
  MaxDepth = 12
CHECK_DEADLOCK FALSE
INVARIANTS
  PassedUnchanged
