SPECIFICATION Spec
CONSTANTS
  a = a
  b = b
  c = c
  d = d
  e = e
  None = None
  Key <- MCKey
  Hash <- MCHash
  InitialSize = 2
  MaxChain = 2
  MaxCount = 2
  Value <- MCValue
  Zero = 0
INVARIANTS
  TypeOK
  InChain
  Distinct
  SizeExact
PROPERTIES
  CounterRefined
  PutReturns
