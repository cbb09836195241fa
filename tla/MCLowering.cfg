SPECIFICATION LowerSpec
CONSTANTS
  ByteBits = 3
  LongBits = 4
  QuadBits = 6
  Constants <- MCConstants
  SwitchTypes <- MCSwitchTypes
  Conds <- MCConds
  Exprs <- MCExprs
  Weight <- MCWeight
  Answers <- MCAnswers
  Resolved = 1
  MaxNodes = 7
  MaxStmts = 5
INVARIANTS
  CasesCollected
  LabelsMatch
  SameEvents
CHECK_DEADLOCK FALSE
PROPERTIES
  Progress
