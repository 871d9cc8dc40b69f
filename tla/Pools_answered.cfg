SPECIFICATION FairSpec
CONSTANTS
  run = run
  edit = edit
  again = again
  None = None
  Req <- Two
  Editor <- OneEdit
  Batch <- BatchesOfTwo
  DbOf <- BesideOfTwo
  Db <- TwoDbs
  Home = "db1"
  Cap = 2
  MaxConn = 1
  MaxPid = 2
  MaxStop = 1
  Fault <- Everything
  MySql = FALSE
CHECK_DEADLOCK FALSE
PROPERTIES RequestsAnswered
