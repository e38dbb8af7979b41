CONSTANTS
  Configs <- AllBatches
SPECIFICATION Spec
INVARIANT FailPolicyLosesNothing
CHECK_DEADLOCK FALSE
