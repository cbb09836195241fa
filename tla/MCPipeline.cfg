SPECIFICATION Spec
CONSTANTS
  source = source
  plain = plain
  m = m
  pthread = pthread
  NULL = NULL
  Files <- MCFiles
  NoDot <- MCNoDot
  Libs <- MCLibs
  MaxArgs = 5
INVARIANTS
  TypeOK
  OptionsMeaning
  RefusedForReason
  NoMisuse
  ExitMeansDone
  Tidy
CHECK_DEADLOCK FALSE
