CONSTANTS
  c1 = c1
  c2 = c2
  p1 = p1
  p2 = p2
  none = none
  Caller <- MCCallers
  Post <- MCPosts
  None = none
  Setups <- MCSetups
  MaxRuns = 2
SPECIFICATION Spec
SYMMETRY Symmetry
INVARIANTS LostForAReason DeliveredOnce CutOffComesBack CarefulMail
CHECK_DEADLOCK FALSE
