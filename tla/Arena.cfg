SPECIFICATION Spec
CONSTANTS
  ChunkSize = 12
  ElSize = 3
  ElAlign = 2
  MaxCount = 5
  MaxChunks = 4
  OsMayFail = TRUE
INVARIANTS
  TypeOK
  NoOverlap
  BlocksInside
CHECK_DEADLOCK FALSE
