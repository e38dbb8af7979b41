CONSTANTS
  Configs <- AllBatches
SPECIFICATION FairSpec
INVARIANTS
  TypeOK
  NoWorkerOutlives
  ErrorIsGenuine
PROPERTIES
  KeepsPromise
  Returns
CHECK_DEADLOCK FALSE
