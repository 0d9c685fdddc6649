SPECIFICATION Spec
CONSTANTS
  Names = {"init", "m"}
  init = "init"
  Arity <- MCArity
  FRAMES_MAX = 3
  MaxClasses = 2
  MaxInstances = 2
  MaxOperands = 2
INVARIANTS
  TypeOK
  InheritsMethods
  ThisIsAnInstance
PROPERTY
  DispatchesAsPromised
CONSTRAINT Small
