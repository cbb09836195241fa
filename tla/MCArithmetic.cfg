SPECIFICATION Spec
CONSTANTS
  ByteBits = 3
  LongBits = 4
  QuadBits = 6
  INT32_MAX = 7
  UINT8_MAX = 7
  Programs <- MCPrograms
  Names <- MCNames
  DataNames <- MCDataNames
  Sample <- MCSample
  AndOf <- MCAnd
  OrOf <- MCOr
  XorOf <- MCXor
INVARIANTS
  Means
  LegalForms
  WritesInside
CHECK_DEADLOCK FALSE
