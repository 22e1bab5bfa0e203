SPECIFICATION Spec
CONSTANTS
  s1 = s1
  s2 = s2
  s3 = s3
  s4 = s4
  c1 = c1
  c2 = c2
  Nil = Nil
  Server <- Nodes
  Command = {c1, c2}
  Rounds = {1}
  Elections <- Takeover
  Proposals <- SameIndex
  SnapshotIndexes = {}
  Appliers = {}
  Lossy = {s3}
SYMMETRY Symmetry
INVARIANTS EntryUniqueness Contiguous MatchIndexSound PromisesPersisted
PROPERTIES LastLogIndexNeverFalls LeaderAppendOnly
CHECK_DEADLOCK FALSE
