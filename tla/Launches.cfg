SPECIFICATION LaunchesSpec
CONSTANTS
  c1 = c1
  c2 = c2
  c3 = c3
  w1 = w1
  w2 = w2
  w3 = w3
  NoWarm = NoWarm
  Call = {c1, c2}
  Warmable = {c1, c2}
  Warm = {w1, w2}
  Configs <- MCConfigs
  FillConcurrency = 1
  ClaimGate = 1
  ColdGate = 1
  RefillGate = 1
  WarmWait = TRUE
  AdmissionWait = TRUE
  Fallback = TRUE
  RemoteTimeout = 4
  Resends = 1
  RestoreTimeout = 3
  RestoreRetries = 1
  ClaimTimeout = 1
  Overhead = 1
  Grace = 2
  LockWait = 1
  ProbeTime = 1
  SocketWait = 1
  LoadTime = 1
  StageTimeout = 1
  DestroyTime = 1
  Horizon = 12
  m1 = m1
  m2 = m2
  Machine = {m1, m2}
  MaxLives = 2
SYMMETRY Symmetric
INVARIANTS
  PoolIsBounded
  WarmVMsAreClaimable
  
  HoldOutlastsCreate
  
  StartsAreClean

  
CHECK_DEADLOCK FALSE
