SPECIFICATION FairSpec
CONSTANTS
  r1 = r1
  r2 = r2
  c1 = c1
  c2 = c2
  c3 = c3
  NoCtx = NoCtx
  NoSession = NoSession
  Free = Free
  Closer = Closer
  Run <- TwoRuns
  Ctx <- TwoCtx
  PoolOf <- OnePool
  Batch <- MyBatches
  MySql = TRUE
  AllowWrites = FALSE
  Fault <- LiveFaults
  MaxEpoch = 2
CHECK_DEADLOCK FALSE
  
PROPERTIES RunsEnd SessionReapedOrEscaped
