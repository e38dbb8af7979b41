SPECIFICATION Spec
CONSTANTS
  u1 = u1
  u2 = u2
  NoUrl = NoUrl
  Unnamed = Unnamed
  Url <- Urls
  Setups <- Posts
INVARIANTS TypeOK LeavesOutOnlyMissing
PROPERTIES VerdictIsAnswered StepComplete
CHECK_DEADLOCK FALSE
