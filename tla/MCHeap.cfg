SPECIFICATION Spec
CONSTANTS
  Node = {n1, n2, n3, n4}
  Nil = Nil
  Plain = Plain
  Depth = 3
INVARIANTS
  WellLinked
  AllReached
  Collected
