SPECIFICATION Spec
CONSTANTS
  Names <- MCNames
  ByteMax = 31
  Texts <- MCTexts
  ExpressionText <- MCExpression
  MaxExpression = 7
CONSTRAINT NoError
INVARIANTS
  CodeVerifies
  StackMatchesLocals
  NoCapturedSlotIsPopped
  DisassemblerAgrees
  CompilesExactlyTheGrammar
PROPERTY
  ResolvesLexically
