SPECIFICATION Spec
CONSTANTS
  Programs <- MCPrograms
  MaxUpvalues = 2
INVARIANT NothingUsedIsFreed
CHECK_DEADLOCK FALSE
