SPECIFICATION Spec
CONSTANTS
  t1 = t1
  t2 = t2
  all = all
  some = some
  NoTable = NoTable
  NoPk = NoPk
  NoSnap = NoSnap
  NoOp = NoOp
  NoCount = NoCount
  Table <- Tables
  Row <- Rows
  Filter <- Filters
  NoFilter = all
  Match <- Matches
  PkName <- SameKey
  Stored <- StoredRows
  PageSize = 1
  Fault <- Overtake
  MaxAsk = 3
  MaxOp = 1
CHECK_DEADLOCK FALSE
INVARIANTS WriteHitsItsTable
