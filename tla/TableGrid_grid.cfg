SPECIFICATION Spec
CONSTANTS
  t1 = t1
  t2 = t2
  all = all
  some = some
  NoTable = NoTable
  NoPk = NoPk
  NoSnap = NoSnap
  NoOp = NoOp
  NoCount = NoCount
  Table <- Tables
  Row <- Rows
  Filter <- Filters
  NoFilter = all
  Match <- Matches
  PkName <- OneKey
  Stored <- StoredRows
  PageSize = 1
  Fault <- InOrder
  MaxAsk = 3
  MaxOp = 1
CHECK_DEADLOCK FALSE
INVARIANTS TypeOK RequestIsCurrent 
