SPECIFICATION Spec
CONSTANTS
  x = x
  y = y
  here = here
  there = there
  Idents <- MCIdents
  Labels <- MCLabels
  Suffixed <- MCSuffixed
  MaxScope = 2
  MaxNames = 2
  MaxLabels = 2
  MaxGotos = 2
INVARIANTS
  TypeOK
  NamesUnique
  GotosResolved
PROPERTIES
  ImplementsScoping
CHECK_DEADLOCK FALSE
