CONSTANTS
  Calls <- AllCalls
  Hints <- Asked
SPECIFICATION FairSpec
INVARIANTS
  ResultEarned
  WaitsAsAsked
PROPERTIES
  KeepsReading
CHECK_DEADLOCK FALSE
