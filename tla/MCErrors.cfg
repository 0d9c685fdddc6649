SPECIFICATION Spec
CONSTANTS
  Names <- MCNames
  ByteMax = 255
  Texts <- MCErrorTexts
  ExpressionText <- MCExpression
  MaxExpression = 1
INVARIANTS
  CompilerUnwinds
PROPERTY
  Terminates
