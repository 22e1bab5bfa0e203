SPECIFICATION FairSpec
CONSTANTS
  t1 = t1
  t2 = t2
  t3 = t3
  Call = {t1, t2, t3}
  Workloads <- RaftAndClerk
  RecvSize = 64
  MaxConn = 5
  Faults = 1
INVARIANTS TypeOK WireSound HandledOnce HandledAsSent OwnAnswer NoCallStuck ResendsOnlyAfterEnd
PROPERTIES CallReturns
CHECK_DEADLOCK FALSE
