SPECIFICATION Spec
CONSTANTS
  r1 = r1
  r2 = r2
  c1 = c1
  c2 = c2
  c3 = c3
  NoCtx = NoCtx
  NoSession = NoSession
  Free = Free
  Closer = Closer
  Run <- OneRun
  Ctx <- OneCtx
  PoolOf <- OnePool
  Batch <- CteBatches
  MySql = FALSE
  AllowWrites = TRUE
  Fault <- Break
  MaxEpoch = 3
CHECK_DEADLOCK FALSE
INVARIANTS WrittenOnce
