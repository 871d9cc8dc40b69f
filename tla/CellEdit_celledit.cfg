SPECIFICATION Spec
CONSTANTS
  r1 = r1
  r2 = r2
  k1 = k1
  k2 = k2
  k3 = k3
  a = a
  b = b
  Row <- Rows
  Key <- Keys
  Val <- Vals
  Start <- TwoRows
  Kinds = {"text", "menu", "date"}
  Pages <- APage
  MaxEdits = 2
  MaxJobs = 2
  MaxFaults = 2
CONSTRAINT Untangled
SYMMETRY Exchange
CHECK_DEADLOCK FALSE
INVARIANTS TypeOK CellTellsTruth CancelledStaysCancelled
