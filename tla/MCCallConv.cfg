SPECIFICATION Spec
CONSTANTS
  Arities <- MCArities
  MaxParams = 8
  MaxDepth = 3
  MaxCalls = 3
INVARIANTS
  StackBalanced
  CallAlignment
PROPERTIES
  ImplementsCalls
CHECK_DEADLOCK FALSE
