SPECIFICATION ProgressSpec
CONSTANTS
  r1 = r1
  r2 = r2
  k = k
  Nobody = Nobody
  NoKey = NoKey
  Key = {k}
  Request = {r1, r2}
  KeyOf <- MCKeyOf
  Payload <- MCPayload
  Retention = 1
  Sequential = TRUE
  Split = FALSE
  StoreFaults = FALSE
  AsyncDelete = {TRUE, FALSE}
  t1 = t1
  t2 = t2
  Conn = {t1, t2}
  Upstreams = {TRUE, FALSE}
  l1 = l1
  l2 = l2
  Link = {l1, l2}
  Levels <- MCLevels
  Limit <- MCLimit
  Threshold = 50
  MaxRounds = 1
  Tries = 3
INVARIANTS
  
  NavigationsStartTogether
PROPERTIES
  
  
  RelaysClose
  
  BenchTerminates
CHECK_DEADLOCK FALSE
