SPECIFICATION Spec
CONSTANTS
  c1 = c1
  c2 = c2
  c3 = c3
  w1 = w1
  w2 = w2
  w3 = w3
  NoWarm = NoWarm
  Call = {c1, c2}
  Warmable = {c1, c2}
  Warm = {w1, w2}
  Configs <- MCSmall
  FillConcurrency = 1
  ClaimGate = 1
  ColdGate = 1
  RefillGate = 1
  WarmWait = TRUE
  AdmissionWait = TRUE
  Fallback = TRUE
INVARIANTS
  MicrovmCap
CHECK_DEADLOCK FALSE
