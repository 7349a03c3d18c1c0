SPECIFICATION Spec
CONSTANTS
  short = short
  long = long
  Label = {l, m}
  String <- MCString
  Length <- MCLength
  StaticOffset = 128
  MaxLength = 3
  Programs <- MCPrograms
  Placeholder = 1000000
  Null = Null
INVARIANTS
  OffsetsByLabel
