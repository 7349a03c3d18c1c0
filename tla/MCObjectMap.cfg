SPECIFICATION MemberSpec
CONSTANTS
  a = a
  b = b
  c = c
  None = None
  Zero = Zero
  Key <- MCKey
  Hash <- MCHash
  Value = {v, w}
  InitialSize = 2
  MaxChain = 2
  MaxSize = 16
CHECK_DEADLOCK FALSE
INVARIANTS
  HalfUnused
PROPERTIES
  MembersKept
