CONSTANTS
  NumSuites = 4
  Chunk = 3
  MaxRounds = 2
  MaxLost = 2
SPECIFICATION Spec
INVARIANTS
  TypeOK
  WalkIsComplete
  OrderedInChunk
  VerdictIsRight
CHECK_DEADLOCK FALSE
