SPECIFICATION Spec
CONSTANTS
  x = x
  y = y
  here = here
  there = there
  Idents = {x}
  Labels <- MCLabels
  Suffixed <- MCSuffixed
  MaxScope = 2
  MaxNames = 1
  MaxLabels = 2
  MaxGotos = 2
INVARIANTS
  EveryGotoBound
CHECK_DEADLOCK FALSE
