SPECIFICATION Spec
CONSTANTS
  Letters <- MCLetters
  Digits <- MCDigits
  HexLetters <- MCHexLetters
  Texts <- MCTexts
INVARIANTS
  Located
  LinesAreStatements
  NothingDropped
  BracesMatch
  Resumes
PROPERTY
  Ends
CHECK_DEADLOCK FALSE
