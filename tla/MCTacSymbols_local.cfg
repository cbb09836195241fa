SPECIFICATION TacSpec
CONSTANTS
  x = x
  tmp1 = tmp1
  tmp2 = tmp2
  tmp3 = tmp3
  Names <- MCNamesX
  Locals <- MCLocals
  VarTypes <- MCVarTypes
  FnTypes <- MCFnTypes
  ParamCount <- MCParamCount
  ParamType <- MCParamType
  TmpName <- MCTmpName
  MaxTmps = 3
  MaxDecls = 3
INVARIANTS
  TempsFresh
CHECK_DEADLOCK FALSE
