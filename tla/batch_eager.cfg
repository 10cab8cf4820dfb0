SPECIFICATION Spec
CONSTANTS
  Threads = {t1, t2, t3}
  MaxBatch = 4
  Waits = TRUE
  MaxNq = 2
  Ks = {1, 2}
  MaxCalls = 2
INVARIANT MatchesEager
INVARIANT WaitersAreBlocked
SYMMETRY Symmetry
CHECK_DEADLOCK FALSE
