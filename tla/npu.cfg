SPECIFICATION Spec
CONSTANTS
  Threads = {t1, t2}
  NoOne = NoOne
  Buf = {x, q}
  Large = {x}
  x = x
  q = q
  Menu <- MCMenu
  Buckets = {1, 2}
  Lanes = 2
  IndexLimit = 2
  MaxCalls = 2
  MaxWrites = 2
  Habits = {}
INVARIANT AnswersAreOwn
INVARIANT BatchAllOrNothing
CHECK_DEADLOCK FALSE
