\* The REPL: the stack and the upvalues stay when a line fails.
CONSTANTS
  Variable = {v1, v2, v3}
  NIL = NIL
  Data = {NIL}
  UNDEFINED = UNDEFINED
  CLOSED = CLOSED
  Repl = TRUE
  FramesMax = 2
  MaxArity = 1
  StackMax = 4
  MaxClosures = 1
  MaxUpvalues = 1
SPECIFICATION Spec
INVARIANT
  StillClosesOver
CHECK_DEADLOCK FALSE
