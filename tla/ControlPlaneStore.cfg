SPECIFICATION FairSpec
CONSTANTS
  Proc = {p1, p2}
  Op = {o1, o2}
  NoOp = NoOp
  NoFile = NoFile
  MaxTries = 1
  Cap = 2
  Content <- MCContent
  Empty <- MCEmpty
  Effect <- MCEffect
INVARIANTS
  TypeOK
  MutualExclusion
  CopyIsLatest
PROPERTIES
  CallsReturn
  
