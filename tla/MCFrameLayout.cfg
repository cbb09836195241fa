SPECIFICATION Spec
CONSTANTS
  i = i
  j = j
  l = l
  m = m
  g = g
  Vars <- MCVars
  Statics <- MCStatics
  Quads <- MCQuads
INVARIANTS
  TypeOK
  OneHome
  NoOverlap
  FrameCovers
