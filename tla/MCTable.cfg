\* Arrays of 4 and 8 slots: the table grows twice (from nothing, then once).
CONSTANTS
  k1 = k1
  k2 = k2
  k3 = k3
  k4 = k4
  Key <- MCKey
  Hash <- MCHash
  NIL = NIL
  TRUE_VAL = TRUE_VAL
  Value = {NIL, TRUE_VAL}
  NULL = NULL
  ABSENT = ABSENT
  MinSlots = 4
  MaxSlots = 8
SPECIFICATION FairSpec
INVARIANTS
  TypeOK
  LoadBounded
  LookupFindsEveryKey
  ProbeArrives
PROPERTIES
  ImplementsMap
  SetCompletes
