CONSTANTS
  c1 = c1
  c2 = c2
  p1 = p1
  fileA = fileA
  Nil = Nil
  Missing = Missing
  Empty = Empty
  Garbled = Garbled
  Caller <- TwoCallers
  Post <- OnePost
  Path <- OneFile
  Setups <- AllSetups
  InitialFiles <- LeftFiles
  AllowPartial = FALSE
  MaxRuns = 1
SPECIFICATION FairSpec
INVARIANTS
  TypeOK
  OnceInOrder
  RunsExactly
  RestoreReplaces
  DigestsWhole
  SnapshotIntact
PROPERTIES
  FollowsLife
  RunEnds
CHECK_DEADLOCK FALSE
