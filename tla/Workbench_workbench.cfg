SPECIFICATION Spec
CONSTANTS
  c1 = c1
  t1 = t1
  t2 = t2
  s1 = s1
  None = None
  Conn = {c1}
  Target = {s1}
  Task = {t1, t2}
  Saved = {c1}
  TargetOf <- Through
  MaxAttempts = 2
  MaxStart = 3
  MaxEvents = 1
SYMMETRY Handlers
CHECK_DEADLOCK FALSE
INVARIANTS TypeOK StopNamesTheRun  TreeSettles ConnectingHasTask 
