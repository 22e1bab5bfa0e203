SPECIFICATION RestartSpec
CONSTANTS
  s1 = s1
  s2 = s2
  s3 = s3
  Nil = Nil
  Server <- Nodes
  Command = {}
  Rounds = {}
  Elections <- Rivals
  Proposals = {}
  SnapshotIndexes = {}
  Appliers = {}
  Lossy = {}
INVARIANTS OneVotePerTerm
CHECK_DEADLOCK FALSE
