CONSTANTS
  a = a
  b = b
  f1 = f1
  f2 = f2
  f3 = f3
  NoId = NoId
  Never = Never
  Fetcher <- Two
  Id <- Ids
  Setups <- TwoSources
  Listings <- Lists
  Worlds <- AllWorlds
  Ttl = 1
  MaxTime = 2
  MaxFetches = 1
SPECIFICATION FairSpec
INVARIANTS
  TypeOK
  NoDuplicates
  NothingLost
PROPERTIES
  SkipsSeen
  FetchEnds
CHECK_DEADLOCK FALSE
