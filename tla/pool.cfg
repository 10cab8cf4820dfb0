SPECIFICATION Spec
CONSTANTS
  Callers = {c1,c2}
  Workers = {w1,w2}
  NoOne = NoOne
  MaxItems = 2
  MaxCalls = 2
INVARIANT FnOutlivesItsUsers
PROPERTY EveryIndexOnce
PROPERTY RunReturns
PROPERTY DestroyEnds
CHECK_DEADLOCK FALSE
