CONSTANTS
  a = a
  b = b
  f1 = f1
  f2 = f2
  f3 = f3
  NoId = NoId
  Never = Never
  Fetcher <- Three
  Id <- OneId
  Setups <- ThreeSearches
  Listings <- ShortLists
  Worlds <- Reliable
  Ttl = 1
  MaxTime = 3
  MaxFetches = 2
SPECIFICATION FairSpec
PROPERTY SkipsSeenSideBySide
CHECK_DEADLOCK FALSE
