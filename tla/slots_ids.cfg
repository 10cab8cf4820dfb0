SPECIFICATION Spec
CONSTANTS
  Vec = {v1}
  NoVec = NoVec
  InitRows = 1
  MaxRows = 3
  MaxInserts = 2
  MaxFree = 2
  Batch = 2
  Chunk = 1
  Byte = 2
  GenHalf = 4
  Repeats = TRUE
  Faults = {"status", "oom"}
INVARIANT NoSlotLeaks
INVARIANT AckedIdsNeverAlias
