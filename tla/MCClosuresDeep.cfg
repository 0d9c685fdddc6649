\* A script run from a file, with a deeper stack and two variables: a call that
\* captured its parameter and a local function closes both when it returns.
CONSTANTS
  Variable = {v1, v2}
  NIL = NIL
  Data = {NIL}
  UNDEFINED = UNDEFINED
  CLOSED = CLOSED
  Repl = FALSE
  FramesMax = 2
  MaxArity = 1
  StackMax = 5
  MaxClosures = 2
  MaxUpvalues = 2
SPECIFICATION Spec
VIEW Visible
PROPERTIES
  ImplementsLexical
CHECK_DEADLOCK FALSE
