SPECIFICATION Spec
CONSTANTS
  Vec = {v1, v2}
  NoVec = NoVec
  InitRows = 1
  MaxRows = 3
  MaxInserts = 2
  MaxFree = 2
  Batch = 2
  Chunk = 2
  Byte = 2
  GenHalf = 4
  Repeats = FALSE
  Faults = {"status"}
SYMMETRY Symmetry
PROPERTY AllOrNothing
PROPERTY ChunkRestored
PROPERTY IdsKeepTheirPromise
INVARIANT CountIsExact
