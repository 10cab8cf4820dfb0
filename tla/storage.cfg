SPECIFICATION Spec
CONSTANTS
  Threads = {t1, t2}
  NoOne = NoOne
  Vec <- MCVec
  Half <- MCHalf
  Bytes <- MCBytes
  Storages = {"auto", "fp32", "fp16", "fp16_if_lossless"}
  F16Mode = "on"
  InitRows = 1
  MaxRows = 3
  Batch = 2
  Chunks = {1, 2}
  MaxCalls = 3
  Habits = {}
SYMMETRY Symmetry
INVARIANT SearchesFindTheirRows
INVARIANT MirrorIsTheRows
INVARIANT RowsKeepTheirVectors
INVARIANT CodesEncodeTheRows
PROPERTY LoadKeepsVectors
CHECK_DEADLOCK FALSE
