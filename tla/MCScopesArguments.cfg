SPECIFICATION Spec
CONSTANTS
  Statement <- MCStatement
  Programs <- MCCapture
  Files <- MCFiles
  Builtins <- MCBuiltins
  MaxDepth = 12
CHECK_DEADLOCK FALSE
INVARIANTS
  ArgumentsMeant
