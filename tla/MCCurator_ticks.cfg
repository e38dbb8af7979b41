CONSTANTS
  N = 2
  Plans <- TwoPlans
  MaxTicks = 2
SPECIFICATION FairSpec
INVARIANTS
  TypeOK
  NoSendOnClosed
  NoTickForgotten
  AllScheduled
PROPERTY TickServed
CHECK_DEADLOCK FALSE
