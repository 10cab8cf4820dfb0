SPECIFICATION Spec
CONSTANTS
  Vec = {v1, v2}
  InitRows = 2
  Batch = 1
  Settings <- MCSettings
SYMMETRY Symmetry
CHECK_DEADLOCK FALSE
INVARIANT AckedSurvive
INVARIANT DeletedStayGone
INVARIANT NothingInvented
PROPERTY RecoversAPastState
