CONSTANTS
  main = main
  float = float
  a = a
  c = c
  bye = bye
  None = None
  Window <- Windows
  Main = main
  Request <- OneEach
  Owner <- OwnersOfOneEach
  Farewell <- Farewells
  MaxHelper = 2
  Fault <- AllFaults
SPECIFICATION FairSpec
CHECK_DEADLOCK FALSE
INVARIANTS TypeOK TwiceAtMost 
PROPERTIES RequestsEnd
