SPECIFICATION TacSpec
CONSTANTS
  x = x
  tmp1 = tmp1
  tmp2 = tmp2
  tmp3 = tmp3
  Names <- MCNames
  Locals <- MCLocals
  VarTypes <- MCVarTypes
  FnTypes <- MCFnTypes
  ParamCount <- MCParamCount
  ParamType <- MCParamType
  TmpName <- MCTmpName
  MaxTmps = 2
  MaxDecls = 4
INVARIANTS
  TacTypeOK
  SymbolsAreDefinitions
  TempsSpareFileScope
  EntrySumsUp
  OneDefinition
  RefusedForReason
  AbortsOnlyOnClash
PROPERTIES
  EntriesOnlyGrow
CHECK_DEADLOCK FALSE
