SPECIFICATION FairSpec
CONSTANTS
  t1 = t1
  t2 = t2
  t3 = t3
  Call = {t1, t2}
  Workloads <- LateVote
  RecvSize = 1024
  MaxConn = 2
  Faults = 0
INVARIANTS AnsweredBeforeReturn
CHECK_DEADLOCK FALSE
