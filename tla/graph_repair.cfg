SPECIFICATION Spec
CONSTANTS
  InitRows = 2
  MaxRows = 5
  Degree = 1
  Batch = 3
  Chunk = 2
  MaxCalls = 1
  Faults = {"status", "oom"}
INVARIANT KeptEdgesInRange
PROPERTY UndoRestoresEdges
