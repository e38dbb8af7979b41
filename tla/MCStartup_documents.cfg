SPECIFICATION Spec
CONSTANTS
  a = a
  flow = flow
  fileA = fileA
  Nil = Nil
  Flow = flow
  Word <- Words
  Path <- OneFile
  Documents <- All
  MaxDocs = 3
INVARIANTS TypeOK OwnStore AllServed
CHECK_DEADLOCK FALSE
