SPECIFICATION Spec
CONSTANTS
  Letters <- MCLetters
  Digits <- MCDigits
  Inputs <- MCInputs
INVARIANTS
  TypeOK
  LongestLexeme
  NothingIsLost
  LinesAreCounted
PROPERTY
  ReachesTheEnd
