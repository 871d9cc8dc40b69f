SPECIFICATION Spec
CONSTANTS
  run = run
  edit = edit
  again = again
  None = None
  Req <- Three
  Editor <- Edits
  Batch <- BatchesOfThree
  DbOf <- BesideOfThree
  Db <- TwoDbs
  Home = "db1"
  Cap = 2
  MaxConn = 1
  MaxPid = 2
  MaxStop = 1
  Fault <- Some
  MySql = FALSE
CHECK_DEADLOCK FALSE
INVARIANTS TypeOK LentAloneAndClean SamePool PoolStaysOpen 
