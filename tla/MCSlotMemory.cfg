SPECIFICATION Spec
CONSTANTS
  r0 = r0
  s1 = s1
  m1 = m1
  Key = {k1, k2}
  Plain = Plain
  Static <- MCStatic
  Reg <- MCReg
  R0 = r0
  Member <- MCMember
  Depth = 4
  MaxCount = 2
  Program = {"overwrite"}
SYMMETRY Blocks
INVARIANTS
  TypeOK
  RefsBacked
  CountedAllocated
  NoDangling
PROPERTIES
  LostOnlyByStoring
