\* A script run from a file, with two closures: they may capture the same
\* variables, one may capture from the other, and either may be called by the
\* script, where a call inside of a call overflows the frames.
\* In file mode nothing reads a slot above stackTop before it is written again,
\* so states that differ only there are one state to TLC.
CONSTANTS
  Variable = {v1, v2, v3}
  NIL = NIL
  Data = {NIL}
  UNDEFINED = UNDEFINED
  CLOSED = CLOSED
  Repl = FALSE
  FramesMax = 2
  MaxArity = 1
  StackMax = 4
  MaxClosures = 2
  MaxUpvalues = 2
SPECIFICATION Spec
VIEW Visible
INVARIANTS
  TypeOK
  OneUpvaluePerVariable
  OpenUpvaluesAreLocals
PROPERTIES
  ImplementsLexical
CHECK_DEADLOCK FALSE
