SPECIFICATION Spec
CONSTANTS
  c1 = c1
  c2 = c2
  k = k
  a = a
  b = b
  N = 2
  Client = {c1, c2}
  Key = {k}
  Value = {a, b}
  Workloads <- ReadThenUpdate
INVARIANTS ExecutedOnce
CHECK_DEADLOCK FALSE
