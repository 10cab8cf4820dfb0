SPECIFICATION Spec
CONSTANTS
  Vec = {v1, v2}
  InitRows = 2
  Batch = 1
  Settings <- MCReload
SYMMETRY Symmetry
CHECK_DEADLOCK FALSE
INVARIANT AckedAlwaysSurvive
