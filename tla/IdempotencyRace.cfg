SPECIFICATION Spec
CONSTANTS
  r1 = r1
  r2 = r2
  r3 = r3
  k = k
  Nobody = Nobody
  NoKey = NoKey
  Key = {k}
  Request = {r1, r2}
  KeyOf <- MCKeyOf
  Payload <- MCPayload
  Retention = 1
  Sequential = FALSE
  Split = FALSE
  StoreFaults = FALSE
  AsyncDelete = {TRUE, FALSE}
INVARIANTS
  KeyNamesOneSession
CHECK_DEADLOCK FALSE
