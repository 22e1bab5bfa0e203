SPECIFICATION FairSpec
CONSTANTS
  s1 = s1
  s2 = s2
  s3 = s3
  s4 = s4
  c1 = c1
  c2 = c2
  Nil = Nil
  Server <- FourNodes
  Command = {c1}
  Rounds = {1}
  Elections <- OneLeader
  Proposals <- OneEntry
  SnapshotIndexes = {}
  Appliers = {s2}
  Lossy = {s3, s4}
PROPERTIES StartedEntryApplied
CHECK_DEADLOCK FALSE
