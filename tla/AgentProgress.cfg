SPECIFICATION FairSpec
CONSTANTS
  c1 = c1
  c2 = c2
  c3 = c3
  w1 = w1
  w2 = w2
  w3 = w3
  NoWarm = NoWarm
  Call = {c1, c2}
  Warmable = {c1}
  Warm = {w1}
  Configs <- MCConfigs
  FillConcurrency = 1
  ClaimGate = 1
  ColdGate = 1
  RefillGate = 1
  WarmWait = TRUE
  AdmissionWait = TRUE
  Fallback = TRUE
PROPERTIES
  LaunchesReturn
  
CHECK_DEADLOCK FALSE
