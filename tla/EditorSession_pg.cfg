SPECIFICATION Spec
CONSTANTS
  r1 = r1
  r2 = r2
  c1 = c1
  c2 = c2
  c3 = c3
  NoCtx = NoCtx
  NoSession = NoSession
  Free = Free
  Closer = Closer
  Run <- TwoRuns
  Ctx <- AllCtx
  PoolOf <- Pools
  Batch <- TxnBatches
  MySql = FALSE
  AllowWrites = TRUE
  Fault <- AllFaults
  MaxEpoch = 2
SYMMETRY Clients
CHECK_DEADLOCK FALSE
INVARIANTS TypeOK OneRunOnSession  NoWriteTwice 
PROPERTIES SilentLossHasCause LeaseKept
