SPECIFICATION Spec
CONSTANTS
  Names <- MCManyNames
  ByteMax = 3
  Texts <- MCLimitTexts
  ExpressionText <- MCExpression
  MaxExpression = 1
CONSTRAINT NoError
INVARIANTS
  TypeOK
  CodeVerifies
PROPERTY
  ResolvesLexically
