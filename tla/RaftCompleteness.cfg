SPECIFICATION Spec
CONSTANTS
  s1 = s1
  s2 = s2
  s3 = s3
  s4 = s4
  c1 = c1
  c2 = c2
  Nil = Nil
  Server <- Nodes
  Command = {c1}
  Rounds = {1}
  Elections <- FourTerms
  Proposals <- Truncation
  SnapshotIndexes = {}
  Appliers = {}
  Lossy = {s2}
INVARIANTS LeaderCompleteness
CONSTRAINT Scenario
CHECK_DEADLOCK FALSE
