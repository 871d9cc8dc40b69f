SPECIFICATION MCSpec
CONSTANTS
  main = main
  float = float
  typed = typed
  managed = managed
  t1 = t1
  t2 = t2
  q1 = q1
  q2 = q2
  None = None
  Window = {main, float}
  Main = main
  Conn = {typed, managed}
  Managed = {managed}
  Task = {t1, t2}
  Statement = {q1, q2}
  MaxEntries = 2
  MaxOp = 5
  MaxAny = 3
  MaxFault = 1
SYMMETRY Handlers
CHECK_DEADLOCK FALSE
INVARIANTS TypeOK SavedStaysSaved KeychainFollows HistoryKept
