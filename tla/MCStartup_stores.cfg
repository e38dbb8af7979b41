SPECIFICATION Spec
CONSTANTS
  a = a
  flow = flow
  fileA = fileA
  Nil = Nil
  Flow = flow
  Word <- Words
  Path <- OneFile
  Documents <- All
  MaxDocs = 2
INVARIANT StoresOpen
CHECK_DEADLOCK FALSE
