SPECIFICATION Spec
CONSTANTS
  r1 = r1
  r2 = r2
  r3 = r3
  k = k
  Nobody = Nobody
  NoKey = NoKey
  Key = {k}
  Request = {r1, r2, r3}
  KeyOf <- MCKeyOf
  Payload <- MCPayload
  Retention = 1
  Sequential = TRUE
  Split = TRUE
  StoreFaults = TRUE
  AsyncDelete = {TRUE, FALSE}
INVARIANTS
  TypeOK
  KeyNamesOneSession
  RepliesAgree
  ReservationsAccounted
PROPERTIES
  ImplementsIdempotentCreates
SYMMETRY Symmetric
CHECK_DEADLOCK FALSE
