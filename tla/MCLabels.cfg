SPECIFICATION Spec
CONSTANTS
  short = short
  long = long
  Label = {l}
  String <- MCString
  Length <- MCLength
  StaticOffset = 128
  MaxLength = 5
  Programs <- MCPrograms
  Placeholder = 1000000
  Null = Null
INVARIANTS
  Decodes
  OffsetsByLabel
  StaticMeant
PROPERTIES
  FlowKept
