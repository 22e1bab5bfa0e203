SPECIFICATION KeptSpec
CONSTANTS
  c1 = c1
  c2 = c2
  k = k
  a = a
  b = b
  N = 2
  Client = {c1, c2}
  Key = {k}
  Value = {a, b}
  Workloads <- Services
INVARIANTS TypeOK ReplicaMatchesLog QueueOwned
PROPERTIES ImplementsService
CHECK_DEADLOCK FALSE
