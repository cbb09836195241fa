SPECIFICATION Spec
CONSTANTS
  a = a
  b = b
  c = c
  d = d
  f = f
  Keys <- MCKeys
  Values = {1, 2}
  NULL = NULL
  Hash <- MCHash
  HT_INITIAL_CAPACITY = 4
  MaxCap = 16
INVARIANTS
  TypeOK
  SlotFree
PROPERTIES
  ImplementsMap
