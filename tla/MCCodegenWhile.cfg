SPECIFICATION Spec
CONSTANTS
  Literal = {0, 3}
  Reg = {0, 1}
  Static = {0}
  Depth = 4
  StaticTop = 128
  LocBytes = 2
  LongBytes = 2
  CountBytes = 1
  IntBits = 9
  MaxStatements = 3
  Statements <- MCWhile
CHECK_DEADLOCK FALSE
INVARIANTS
  JumpsAsCompared
