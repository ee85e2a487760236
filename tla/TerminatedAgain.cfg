SPECIFICATION Spec
CONSTANTS
  r1 = r1
  r2 = r2
  r3 = r3
  k = k
  Nobody = Nobody
  NoKey = NoKey
  Key = {k}
  Request = {r1}
  KeyOf <- MCKeyOf
  Payload <- MCPayload
  Retention = 1
  Sequential = TRUE
  Split = FALSE
  StoreFaults = FALSE
  AsyncDelete = {TRUE}
PROPERTIES
  TerminatedIsFinal
CHECK_DEADLOCK FALSE
