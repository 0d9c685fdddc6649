\* Arrays of 4 and 8 slots, as in MCTable.
CONSTANTS
  a1 = a1
  a2 = a2
  b1 = b1
  b2 = b2
  c1 = c1
  c2 = c2
  Key <- MCKey
  CharsOf <- MCCharsOf
  Hash <- MCHash
  Chars = {"a", "b", "c"}
  NIL = NIL
  TRUE_VAL = TRUE_VAL
  Value = {NIL, TRUE_VAL}
  NULL = NULL
  ABSENT = ABSENT
  MinSlots = 4
  MaxSlots = 8
SPECIFICATION SpecStrings
INVARIANTS
  StringsTypeOK
  OneObjectPerString
  EveryStringIsFound
